------------------------- MODULE CookieHeaderProofs -------------------------
(***************************************************************************)
(* Theorems about CookieHeader, for every request: any number of header    *)
(* fields, any cookies in them.                                            *)
(***************************************************************************)
EXTENDS CookieHeader, SequenceTheorems, WellFoundedInduction, TLAPS

(* Cookies in their fields. *)

(* The least of some numbers. *)
LEMMA Least ==
  ASSUME NEW T, T \subseteq Nat, T # {}
  PROVE  \E m \in T : \A k \in T : m <= k
<1> DEFINE R == {ss \in Nat \X Nat : ss[1] < ss[2]}
<1>1. IsWellFoundedOn(R, Nat)
  BY NatLessThanWellFounded DEF OpToRel
<1>2. PICK m \in T : \A y \in T : ~(<<y, m>> \in R)
  BY <1>1, WFMin
<1>3. ASSUME NEW k \in T PROVE m <= k
  <2>1. ~(<<k, m>> \in R) /\ k \in Nat /\ m \in Nat
    BY <1>2
  <2> QED BY <2>1
<1> QED BY <1>3

LEMMA LengthIs ==
  ASSUME NEW c \in Cookies PROVE CookieLength(c) \in Nat \ {0}
<1>1. NameLength[c.name] \in Nat /\ c.size \in Nat
  BY NameAssumption DEF Cookies
<1> QED BY <1>1 DEF CookieLength

(* A later cookie lies behind an earlier one. *)
LEMMA LaterBehind ==
  ASSUME NEW f \in Seq(Cookies), InLine(f),
         NEW j \in 1 .. Len(f), NEW k \in 1 .. Len(f), j < k
  PROVE  f[j].at + CookieLength(f[j]) + 2 <= f[k].at
<1> DEFINE Bad == {m \in 1 .. Len(f) :
                    j < m /\ ~(f[j].at + CookieLength(f[j]) + 2 <= f[m].at)}
<1>1. SUFFICES Bad = {}
  BY <1>1
<1>2. SUFFICES ASSUME Bad # {} PROVE FALSE
  OBVIOUS
<1>3. PICK m \in Bad : \A n \in Bad : m <= n
  <2>1. Bad \subseteq Nat
    OBVIOUS
  <2> HIDE DEF Bad
  <2> QED BY <1>2, <2>1, Least
<1>4. /\ m \in 2 .. Len(f) /\ m - 1 \in 1 .. (Len(f) - 1) /\ m - 1 \in 1 .. Len(f)
      /\ m - 1 + 1 = m /\ Len(f) \in Nat
  OBVIOUS
<1>5. f[m].at = f[m - 1].at + CookieLength(f[m - 1]) + 2
  <2>1. f[(m - 1) + 1].at = f[m - 1].at + CookieLength(f[m - 1]) + 2
    BY <1>4 DEF InLine
  <2> QED BY <1>4, <2>1
<1>6. /\ f[j] \in Cookies /\ f[m - 1] \in Cookies
  BY <1>4
<1>7. /\ f[j].at \in Nat /\ f[m - 1].at \in Nat
      /\ CookieLength(f[j]) \in Nat /\ CookieLength(f[m - 1]) \in Nat
  BY <1>6, LengthIs DEF Cookies
<1>8. CASE j = m - 1
  BY <1>5, <1>7, <1>8
<1>9. CASE j # m - 1
  <2>1. m - 1 \notin Bad
    BY <1>3, <1>4
  <2>2. f[j].at + CookieLength(f[j]) + 2 <= f[m - 1].at
    BY <1>4, <1>9, <2>1
  <2> QED BY <1>5, <1>7, <2>2
<1> QED BY <1>8, <1>9

LEMMA CutLengthIs ==
  ASSUME NEW f \in Seq(Cookies), InLine(f), NEW k \in 1 .. Len(f)
  PROVE  CutLength(f, k) \in Nat
<1> DEFINE n == Len(f)
<1>1. n \in Nat /\ n \in 1 .. n /\ f[k] \in Cookies /\ f[n] \in Cookies
  OBVIOUS
<1>2. /\ f[k].at \in Nat /\ f[n].at \in Nat
      /\ CookieLength(f[k]) \in Nat /\ CookieLength(f[n]) \in Nat
  BY <1>1, LengthIs DEF Cookies
<1>3. CASE k = n
  BY <1>2, <1>3 DEF CutLength, LengthFrom
<1>4. CASE k # n
  <2>1. f[k].at + CookieLength(f[k]) + 2 <= f[n].at
    BY <1>1, <1>4, LaterBehind
  <2>2. CutLength(f, k) = f[n].at + CookieLength(f[n]) - f[k].at - CookieLength(f[k]) - 2
    <3>1. CutLength(f, k) = LengthFrom(f, k) - CookieLength(f[k]) - 2
      BY <1>4 DEF CutLength
    <3> QED BY <3>1, <1>2 DEF LengthFrom
  <2> HIDE DEF n
  <2> QED BY <1>2, <2>1, <2>2
<1> QED BY <1>3, <1>4

(* What is cut out is the last cookie, or the text from the next one on.   *)
LEMMA CutLengthRest ==
  ASSUME NEW f \in Seq(Cookies), InLine(f), NEW k \in 1 .. Len(f)
  PROVE  /\ k = Len(f) => CutLength(f, k) = CookieLength(f[k])
         /\ k # Len(f) => CutLength(f, k) = LengthFrom(f, k + 1)
<1> DEFINE n == Len(f)
<1>1. n \in Nat /\ n \in 1 .. n /\ f[k] \in Cookies /\ f[n] \in Cookies
  OBVIOUS
<1>2. /\ f[k].at \in Nat /\ f[n].at \in Nat
      /\ CookieLength(f[k]) \in Nat /\ CookieLength(f[n]) \in Nat
  BY <1>1, LengthIs DEF Cookies
<1>3. k = n => CutLength(f, k) = CookieLength(f[k])
  BY <1>2 DEF CutLength, LengthFrom
<1>4. ASSUME k # n PROVE CutLength(f, k) = LengthFrom(f, k + 1)
  <2>1. f[k + 1].at = f[k].at + CookieLength(f[k]) + 2
    BY <1>1, <1>4 DEF InLine
  <2>2. CutLength(f, k) = f[n].at + CookieLength(f[n]) - f[k].at - CookieLength(f[k]) - 2
    <3>1. CutLength(f, k) = LengthFrom(f, k) - CookieLength(f[k]) - 2
      BY <1>4 DEF CutLength
    <3> QED BY <3>1, <1>2 DEF LengthFrom
  <2>3. LengthFrom(f, k + 1) = f[n].at + CookieLength(f[n]) - f[k + 1].at
    BY DEF LengthFrom
  <2> HIDE DEF n
  <2> QED BY <1>2, <2>1, <2>2, <2>3
<1> QED BY <1>3, <1>4

(* A name that is there is found at the first cookie that has it. *)
LEMMA FoundAt ==
  ASSUME NEW i, NEW name, Field(i) \in Seq(Cookies), Holds(i, name)
  PROVE  LET k == CookieAt(i, name) IN
         k \in 1 .. Len(Field(i)) /\ Field(i)[k].name = name
<1> DEFINE f == Field(i)
           T == {k \in 1 .. Len(f) : f[k].name = name}
<1>1. T \subseteq Nat /\ T # {}
  BY DEF Holds
<1>2. PICK k \in T : \A j \in T : k <= j
  <2> HIDE DEF T
  <2> QED BY <1>1, Least
<1>3. \A j \in 1 .. k - 1 : f[j].name # name
  BY <1>2
<1> QED BY <1>2, <1>3 DEF CookieAt

-----------------------------------------------------------------------------
(* What is known of the variables at each place of the handler. *)
Reading ==
  /\ TypeOK
  /\ reply # "granted" => fields \in Requests
  /\ reply = "granted" => pc = "done"
  /\ pc = "cut" => wanted \in CookieHeaders
  /\ pc \in {"check", "session", "refresh", "exchange", "done"} => cursor = -1

LEMMA InitReading == Init => Reading
<1> SUFFICES ASSUME Init PROVE Reading
  OBVIOUS
<1>1. fields \in Seq(Seq(Cookies)) /\ Len(fields) \in Nat /\ fields \in Requests
  BY RequestAssumption DEF Init
<1>2. behind \subseteq Nat \X Wanted
  BY <1>1 DEF Init, Indices
<1>3. /\ seeking \in Wanted /\ cursor = -1 /\ cursor \in -1 .. Len(fields) - 1
      /\ cut \in [Wanted -> Cuts] /\ wanted \in Nat
  BY <1>1 DEF Init, Wanted, Nothing, Cuts
<1> QED BY <1>1, <1>2, <1>3 DEF Init, Reading, TypeOK, Replies

LEMMA ReplyReading ==
  ASSUME Reading, NEW r \in Replies \ {"granted"}, Reply(r), reply # "granted"
  PROVE  Reading'
<1>1. Len(fields) \in Nat
  BY DEF Reading, TypeOK
<1> QED BY <1>1 DEF Reading, TypeOK, Reply

LEMMA SeekReading ==
  ASSUME Reading, NEW name \in Wanted, Seek(name), cut' \in [Wanted -> Cuts],
         UNCHANGED <<fields, behind, good, reply>>, pc # "done"
  PROVE  Reading'
<1>1. Len(fields) \in Nat
  BY DEF Reading, TypeOK
<1> QED BY <1>1 DEF Reading, TypeOK, Seek

LEMMA NotFoundReading ==
  ASSUME Reading, NotFound, pc # "done" PROVE Reading'
<1>1. Len(fields) \in Nat /\ reply # "granted"
  BY DEF Reading, TypeOK
<1>2. CASE Reply("no_refresh")
  BY <1>1, <1>2, ReplyReading DEF Replies
<1>3. CASE /\ pc' = "refresh" /\ cursor' = -1
           /\ UNCHANGED <<fields, behind, good, seeking, wanted, cut, reply>>
  BY <1>1, <1>3 DEF Reading, TypeOK
<1> QED BY <1>2, <1>3 DEF NotFound

LEMMA FindReading ==
  ASSUME Reading, FindNone \/ FindHere \/ FindOn PROVE Reading'
<1>1. Len(fields) \in Nat /\ Indices \subseteq Nat
  BY DEF Reading, TypeOK, Indices
<1>2. CASE FindNone
  BY <1>2, NotFoundReading DEF FindNone
<1>3. CASE FindHere
  <2>1. PICK i \in Indices :
          /\ NextHeader(cursor, i) /\ wanted' = i
          /\ pc' = IF i = 0 THEN "find" ELSE "cut"
    BY <1>3 DEF FindHere
  <2>2. i \in CookieHeaders /\ i < Len(fields) /\ i \in Nat
    BY <1>1, <2>1 DEF NextHeader, CookieHeaders, Indices
  <2>3. UNCHANGED <<fields, behind, good, seeking, cursor, cut, reply>> /\ pc = "find"
    BY <1>3 DEF FindHere
  <2>4. CookieHeaders' = CookieHeaders
    BY <2>3 DEF CookieHeaders, Indices, IsCookie, Field
  <2>5. TypeOK'
    BY <2>1, <2>2, <2>3 DEF Reading, TypeOK
  <2> QED BY <2>1, <2>2, <2>3, <2>4, <2>5 DEF Reading
<1>4. CASE FindOn
  <2>1. PICK i \in Indices : NextHeader(cursor, i)
    BY <1>4 DEF FindOn
  <2>2. /\ cursor' = cursor + 1 /\ pc = "find"
        /\ UNCHANGED <<fields, behind, good, pc, seeking, wanted, cut, reply>>
    BY <1>4 DEF FindOn
  <2>3. cursor' \in -1 .. Len(fields) - 1
    BY <1>1, <2>1, <2>2 DEF NextHeader, Indices, Reading, TypeOK
  <2> QED BY <2>2, <2>3 DEF Reading, TypeOK
<1> QED BY <1>2, <1>3, <1>4

(* What is cut out for a name in a field. *)
Taken(i, name) ==
  LET f == Field(i)  k == CookieAt(i, name)
  IN  [length |-> CutLength(f, k), of |-> CookieLength(f[k])]

LEMMA CutReading ==
  ASSUME Reading, Cut
  PROVE  /\ Reading'
         /\ cut' = [cut EXCEPT ![seeking] = Taken(wanted, seeking)]
<1> DEFINE f == Field(wanted)
           k == CookieAt(wanted, seeking)
<1>1. /\ pc = "cut" /\ reply # "granted" /\ Holds(wanted, seeking)
      /\ cut' = [cut EXCEPT ![seeking] = [length |-> CutLength(f, k),
                                          of |-> CookieLength(f[k])]]
      /\ \/ Seek(Session)
         \/ pc' = "session" /\ cursor' = -1 /\ UNCHANGED <<seeking, wanted>>
      /\ UNCHANGED <<fields, behind, good, reply>>
  BY DEF Cut, Reading
<1>2. wanted + 1 \in 1 .. Len(fields) /\ Len(fields) \in Nat
  BY <1>1 DEF Reading, TypeOK
<1>3. f \in Seq(Cookies) /\ InLine(f)
  <2>1. fields \in Requests /\ fields \in Seq(Seq(Cookies))
    BY <1>1 DEF Reading, TypeOK
  <2> QED BY <1>2, <2>1, RequestAssumption DEF Field
<1>4. k \in 1 .. Len(f)
  BY <1>1, <1>3, FoundAt
<1>5. CutLength(f, k) \in Nat
  BY <1>3, <1>4, CutLengthIs
<1>6. CookieLength(f[k]) \in Nat
  <2>1. f[k] \in Cookies
    BY <1>3, <1>4
  <2> QED BY <2>1, LengthIs
<1> HIDE DEF f, k
<1>7. cut' \in [Wanted -> Cuts]
  BY <1>1, <1>5, <1>6 DEF Reading, TypeOK, Cuts
<1>8. Reading'
  <2>1. CASE Seek(Session)
    BY <1>1, <1>7, <2>1, SeekReading DEF Wanted
  <2>2. CASE pc' = "session" /\ cursor' = -1 /\ UNCHANGED <<seeking, wanted>>
    <3>1. cursor' \in -1 .. Len(fields) - 1
      BY <1>2, <2>2
    <3> QED BY <1>1, <1>7, <2>2, <3>1 DEF Reading, TypeOK
  <2> QED BY <1>1, <2>1, <2>2
<1> QED BY <1>1, <1>8 DEF f, k, Taken

LEMMA NextReading == ASSUME Reading, [Next]_vars PROVE Reading'
<1>1. CASE \/ CheckFails \/ SessionRefused \/ RefreshRefused \/ Crash
           \/ ExchangeFails
  BY <1>1, ReplyReading
     DEF CheckFails, SessionRefused, RefreshRefused, Crash, ExchangeFails,
         Replies, Reading
<1>2. CASE CheckPasses
  BY <1>2, SeekReading DEF CheckPasses, Wanted, Reading, TypeOK
<1>3. CASE FindNone \/ FindHere \/ FindOn
  BY <1>3, FindReading
<1>4. CASE CutNothing
  BY <1>4, NotFoundReading DEF CutNothing
<1>5. CASE Cut
  BY <1>5, CutReading
<1>6. CASE SessionAccepted \/ RefreshAccepted
  BY <1>6 DEF SessionAccepted, RefreshAccepted, Reading, TypeOK
<1>7. CASE yueah_req_delete_cookie
  <2>1. PICK i \in Indices : fields' = RemoveAt(fields, i + 1)
    BY <1>7 DEF yueah_req_delete_cookie
  <2>2. fields' \in Seq(Seq(Cookies)) /\ Len(fields') \in Nat
    <3>1. /\ fields \in Seq(Seq(Cookies)) /\ Len(fields) \in Nat
          /\ i \in Nat /\ i < Len(fields)
      BY DEF Indices, Reading, TypeOK
    <3>2. /\ SubSeq(fields, 1, i) \in Seq(Seq(Cookies))
          /\ SubSeq(fields, i + 2, Len(fields)) \in Seq(Seq(Cookies))
      BY <3>1, SubSeqProperties
    <3>3. /\ i + 1 - 1 = i /\ i + 1 + 1 = i + 2
      BY <3>1
    <3> QED BY <2>1, <3>2, <3>3 DEF RemoveAt
  <2>3. cursor' = -1 /\ cursor' \in -1 .. Len(fields') - 1
    BY <1>7, <2>2 DEF yueah_req_delete_cookie, Reading
  <2> QED BY <1>7, <2>2, <2>3 DEF yueah_req_delete_cookie, Reading, TypeOK, Replies
<1>8. CASE Done \/ UNCHANGED vars
  BY <1>8 DEF Done, vars, Reading, TypeOK, CookieHeaders, Indices, IsCookie, Field
<1> QED BY <1>1, <1>2, <1>3, <1>4, <1>5, <1>6, <1>7, <1>8 DEF Next

(* The search stays within the headers of the request, and what it cuts out *)
(* has a length: the subtractions of yueah_req_get_cookie_content, in an    *)
(* unsigned type, never go below zero (cookie.c:323-406).                   *)
THEOREM CookieTypeCorrect == Spec => []TypeOK
<1>1. Reading => TypeOK
  BY DEF Reading
<1> QED BY InitReading, NextReading, <1>1, PTL DEF Spec

-----------------------------------------------------------------------------
(* What the search has passed does not have the name. *)
Passed ==
  behind = {} /\ pc = "find" =>
    \A j \in CookieHeaders : j <= cursor => ~Holds(j, seeking)

SearchType ==
  /\ fields \in Seq(Seq(Cookies))
  /\ seeking \in Wanted
  /\ cursor \in Int
  /\ pc \in {"check", "find", "cut", "session", "refresh", "exchange", "done"}

SearchInv == SearchType /\ Passed /\ FirstWithName /\ SessionNotSkipped

LEMMA IndexType == ASSUME SearchType PROVE Indices \subseteq Int
  BY DEF SearchType, Indices

LEMMA InitSearch == ASSUME Init PROVE SearchInv
  BY RequestAssumption
     DEF Init, SearchInv, SearchType, Passed, FirstWithName, SessionNotSkipped,
         Wanted

(* Once the handler has an answer there is nothing left to show. *)
LEMMA ReplySearch ==
  ASSUME SearchInv, NEW r \in Replies, Reply(r)
  PROVE  SearchInv'
  BY DEF SearchInv, SearchType, Passed, FirstWithName, SessionNotSkipped, Reply

(* A search begins before every header. *)
LEMMA SeekSearch ==
  ASSUME SearchInv, NEW name \in Wanted, Seek(name), UNCHANGED <<fields, behind>>
  PROVE  SearchInv'
<1>1. SearchType'
  BY DEF SearchInv, SearchType, Seek
<1>2. \A j \in CookieHeaders' : ~(j <= cursor')
  BY <1>1 DEF CookieHeaders, Indices, Seek, SearchType
<1>3. Passed'
  BY <1>2 DEF Passed
<1> QED BY <1>1, <1>3 DEF SearchInv, FirstWithName, SessionNotSkipped, Seek

(* When no header has the name, in particular none has the session cookie. *)
LEMMA NotFoundSearch ==
  ASSUME SearchInv, NotFound,
         behind = {} => \A j \in CookieHeaders : ~Holds(j, seeking)
  PROVE  SearchInv'
<1>1. CASE Reply("no_refresh")
  BY <1>1, ReplySearch DEF Replies
<1>2. CASE /\ seeking = Session
           /\ pc' = "refresh"
           /\ cursor' = -1
           /\ UNCHANGED <<fields, behind, good, seeking, wanted, cut, reply>>
  <2>1. SearchType'
    BY <1>2 DEF SearchInv, SearchType
  <2>2. SessionNotSkipped'
    BY <1>2 DEF SessionNotSkipped, CookieHeaders, Indices, IsCookie, Field, Holds
  <2> QED BY <1>2, <2>1, <2>2 DEF SearchInv, Passed, FirstWithName
<1> QED BY <1>1, <1>2 DEF NotFound

LEMMA FindNoneSearch == ASSUME SearchInv, FindNone PROVE SearchInv'
<1>1. \A j \in CookieHeaders : j <= cursor
  BY IndexType DEF FindNone, NoHeader, CookieHeaders, SearchInv, SearchType
<1>2. behind = {} => \A j \in CookieHeaders : ~Holds(j, seeking)
  BY <1>1 DEF FindNone, SearchInv, Passed
<1> QED BY <1>2, NotFoundSearch DEF FindNone

(* The header settled on is the first after the cursor; those up to the    *)
(* cursor do not have the name.                                            *)
LEMMA FindHereSearch == ASSUME SearchInv, FindHere PROVE SearchInv'
<1>1. PICK i \in Indices :
        /\ NextHeader(cursor, i)
        /\ Seen(i, seeking)
        /\ wanted' = i
        /\ pc' = IF i = 0 THEN "find" ELSE "cut"
  BY DEF FindHere
<1>2. /\ pc = "find"
      /\ UNCHANGED <<fields, behind, good, seeking, cursor, cut, reply>>
  BY DEF FindHere
<1>3. SearchType'
  BY <1>1, <1>2 DEF SearchInv, SearchType
<1>4. CookieHeaders' = CookieHeaders /\ \A j : Holds(j, seeking)' <=> Holds(j, seeking)
  BY <1>2 DEF CookieHeaders, Indices, IsCookie, Field, Holds
<1>5. Passed'
  BY <1>2, <1>4 DEF SearchInv, Passed
<1>6. FirstWithName'
  <2> SUFFICES ASSUME behind = {}
               PROVE  /\ i \in CookieHeaders
                      /\ Holds(i, seeking)
                      /\ \A j \in CookieHeaders : j < i => ~Holds(j, seeking)
    BY <1>1, <1>2, <1>4 DEF FirstWithName
  <2>1. i \in CookieHeaders /\ Holds(i, seeking)
    BY <1>1 DEF CookieHeaders, NextHeader, Seen
  <2>2. ASSUME NEW j \in CookieHeaders, j < i PROVE ~Holds(j, seeking)
    <3>1. j <= cursor
      BY <1>1, <2>2, IndexType DEF NextHeader, CookieHeaders, SearchInv, SearchType
    <3> QED BY <3>1, <1>2 DEF SearchInv, Passed
  <2> QED BY <2>1, <2>2
<1> QED BY <1>1, <1>3, <1>5, <1>6 DEF SearchInv, SessionNotSkipped

(* One position on, which is at most the header just looked at. *)
LEMMA FindOnSearch == ASSUME SearchInv, FindOn PROVE SearchInv'
<1>1. PICK i \in Indices : NextHeader(cursor, i) /\ ~Seen(i, seeking)
  BY DEF FindOn
<1>2. /\ pc = "find" /\ cursor' = cursor + 1
      /\ UNCHANGED <<fields, behind, good, pc, seeking, wanted, cut, reply>>
  BY DEF FindOn
<1>3. SearchType'
  BY <1>2 DEF SearchInv, SearchType
<1>4. CookieHeaders' = CookieHeaders /\ \A j : Holds(j, seeking)' <=> Holds(j, seeking)
  BY <1>2 DEF CookieHeaders, Indices, IsCookie, Field, Holds
<1>5. ASSUME behind = {}, NEW j \in CookieHeaders, j <= cursor + 1
      PROVE  ~Holds(j, seeking)
  <2>1. CASE j <= cursor
    BY <2>1, <1>2, <1>5 DEF SearchInv, Passed
  <2>2. CASE ~(j <= cursor)
    <3>1. i = j
      BY <1>1, <1>5, <2>2, IndexType
         DEF NextHeader, CookieHeaders, SearchInv, SearchType
    <3> QED BY <3>1, <1>1 DEF Seen
  <2> QED BY <2>1, <2>2
<1>6. Passed'
  BY <1>2, <1>4, <1>5 DEF Passed
<1> QED BY <1>2, <1>3, <1>6 DEF SearchInv, FirstWithName, SessionNotSkipped

(* When no text is overrun the name is in the header settled on. *)
LEMMA CutNothingSearch == ASSUME SearchInv, CutNothing PROVE SearchInv'
<1>1. behind # {}
  BY DEF CutNothing, SearchInv, FirstWithName
<1> QED BY <1>1, NotFoundSearch DEF CutNothing

LEMMA CutSearch == ASSUME SearchInv, Cut PROVE SearchInv'
<1>1. CASE Seek(Session)
  BY <1>1, SeekSearch DEF Cut, Wanted
<1>2. CASE pc' = "session" /\ cursor' = -1 /\ UNCHANGED <<seeking, wanted>>
  BY <1>2 DEF Cut, SearchInv, SearchType, Passed, FirstWithName, SessionNotSkipped
<1> QED BY <1>1, <1>2 DEF Cut

(* What is accepted was cut out, and not longer than its cookie. *)
LEMMA AcceptedIs ==
  ASSUME TypeOK, NEW name \in Wanted, Accepted(name)
  PROVE  /\ cut[name] # Nothing /\ cut[name].length <= cut[name].of
         /\ Whole(name) => name \in good
<1>1. /\ cut[name] \in Cuts /\ cut[name].length \in Nat /\ cut[name].of \in Nat
      /\ NameLength[name] \in Nat
  BY NameAssumption DEF TypeOK, Cuts
<1>2. CASE Truncated(name)
  <2>1. cut[name].length > 0
    BY <1>1, <1>2 DEF Truncated
  <2> QED BY <1>1, <1>2, <2>1 DEF Truncated, Nothing, Whole
<1>3. CASE Whole(name) /\ name \in good
  BY <1>1, <1>3 DEF Whole
<1> QED BY <1>2, <1>3 DEF Accepted

LEMMA SessionAcceptedSearch ==
  ASSUME TypeOK, SearchInv, SessionAccepted PROVE SearchInv'
<1>1. SearchType'
  BY DEF SessionAccepted, SearchInv, SearchType
<1>2. SessionNotSkipped'
  <2>1. /\ cut[Session] # Nothing /\ cut[Session].length <= cut[Session].of
        /\ Whole(Session) => Session \in good
    BY AcceptedIs DEF SessionAccepted, Wanted
  <2>2. UNCHANGED <<cut, good>>
    BY DEF SessionAccepted
  <2> QED BY <2>1, <2>2 DEF SessionNotSkipped, Whole
<1> QED BY <1>1, <1>2 DEF SessionAccepted, SearchInv, Passed, FirstWithName

LEMMA RefreshAcceptedSearch == ASSUME SearchInv, RefreshAccepted PROVE SearchInv'
<1>1. SearchType'
  BY DEF RefreshAccepted, SearchInv, SearchType
<1>2. SessionNotSkipped'
  BY DEF RefreshAccepted, SearchInv, SessionNotSkipped, CookieHeaders, Indices,
         IsCookie, Field, Holds, Whole
<1> QED BY <1>1, <1>2 DEF RefreshAccepted, SearchInv, Passed, FirstWithName

LEMMA DeleteSearch == ASSUME SearchInv, yueah_req_delete_cookie PROVE SearchInv'
<1>1. PICK i \in Indices : NextHeader(-1, i) /\ fields' = RemoveAt(fields, i + 1)
  BY DEF yueah_req_delete_cookie
<1>2. fields' \in Seq(Seq(Cookies))
  <2>1. /\ fields \in Seq(Seq(Cookies)) /\ Len(fields) \in Nat
        /\ i \in Nat /\ i < Len(fields)
    BY DEF Indices, SearchInv, SearchType
  <2>2. /\ SubSeq(fields, 1, i) \in Seq(Seq(Cookies))
        /\ SubSeq(fields, i + 2, Len(fields)) \in Seq(Seq(Cookies))
    BY <2>1, SubSeqProperties
  <2>3. /\ i + 1 - 1 = i /\ i + 1 + 1 = i + 2
    BY <2>1
  <2> QED BY <1>1, <2>2, <2>3 DEF RemoveAt
<1>3. SearchType'
  BY <1>2 DEF yueah_req_delete_cookie, SearchInv, SearchType
<1> QED BY <1>3 DEF yueah_req_delete_cookie, SearchInv, Passed, FirstWithName,
                    SessionNotSkipped

LEMMA StutterSearch == ASSUME SearchInv, UNCHANGED vars PROVE SearchInv'
  BY DEF vars, SearchInv, SearchType, Passed, FirstWithName, SessionNotSkipped,
         CookieHeaders, Indices, IsCookie, Field, Holds, Whole

LEMMA NextSearch == ASSUME TypeOK, SearchInv, [Next]_vars PROVE SearchInv'
<1>1. CASE \/ CheckFails \/ SessionRefused \/ RefreshRefused \/ Crash
           \/ ExchangeFails
  BY <1>1, ReplySearch
     DEF CheckFails, SessionRefused, RefreshRefused, Crash, ExchangeFails, Replies
<1>2. CASE CheckPasses
  BY <1>2, SeekSearch DEF CheckPasses, Wanted
<1>3. CASE FindNone \/ FindHere \/ FindOn
  BY <1>3, FindNoneSearch, FindHereSearch, FindOnSearch
<1>4. CASE CutNothing \/ Cut
  BY <1>4, CutNothingSearch, CutSearch
<1>5. CASE SessionAccepted \/ RefreshAccepted
  BY <1>5, SessionAcceptedSearch, RefreshAcceptedSearch
<1>6. CASE yueah_req_delete_cookie
  BY <1>6, DeleteSearch
<1>7. CASE Done \/ UNCHANGED vars
  BY <1>7, StutterSearch DEF Done
<1> QED BY <1>1, <1>2, <1>3, <1>4, <1>5, <1>6, <1>7 DEF Next

LEMMA AlwaysSearch == Spec => []SearchInv
  BY InitSearch, NextSearch, CookieTypeCorrect, PTL DEF Spec

(* The header get_cookie_index settles on is the first Cookie header with  *)
(* the name, in a request of any length, when strstr overruns no text      *)
(* (cookie.c:323-355).                                                     *)
THEOREM FirstHeaderFound == Spec => []FirstWithName
<1>1. SearchInv => FirstWithName
  BY DEF SearchInv
<1> QED BY <1>1, AlwaysSearch, PTL

(* A session cookie in the request, whatever header it is in, is verified  *)
(* before the refresh token is, when strstr overruns no text; what is      *)
(* verified is the cookie or a part of it, never more (auth.c:560-582).    *)
THEOREM SessionIsChecked == Spec => []SessionNotSkipped
<1>1. SearchInv => SessionNotSkipped
  BY DEF SearchInv
<1> QED BY <1>1, AlwaysSearch, PTL

-----------------------------------------------------------------------------
(* One Cookie header with the refresh cookie in it.                        *)
Lone(i) == i \in Indices \ {0} /\ CookieHeaders = {i} /\ Holds(i, Refresh)

Own(i) ==
  /\ reply \notin {"no_cookie", "no_refresh"}
  /\ \A name \in Wanted :
       cut[name] = Nothing \/ (Holds(i, name) /\ cut[name] = Taken(i, name))
  /\ reply = "bad_refresh" => Refresh \notin good \/ ~Fits(i, Refresh)
  /\ reply = "bad_session" =>
       Holds(i, Session) /\ (Session \notin good \/ ~Fits(i, Session))
  /\ reply = "crashed" => \E name \in Wanted : Holds(i, name) /\ CutShort(i, name)
  /\ pc = "find" /\ seeking = Refresh => cursor = -1
  /\ (pc \in {"find", "cut"} /\ seeking = Session) => cut[Refresh] # Nothing
  /\ pc \in {"session", "refresh", "exchange"} => cut[Refresh] # Nothing
  /\ pc = "session" => cut[Session] # Nothing

OwnFound == reply # "granted" => \A i \in Indices : Lone(i) => Own(i)

(* What a step leaves alone that leaves the header alone. *)
LEMMA OwnStays ==
  ASSUME UNCHANGED fields
  PROVE  /\ Indices' = Indices
         /\ \A i : Lone(i)' <=> Lone(i)
         /\ \A i, name : /\ Holds(i, name)' <=> Holds(i, name)
                         /\ Taken(i, name)' = Taken(i, name)
                         /\ Fits(i, name)' <=> Fits(i, name)
                         /\ CutShort(i, name)' <=> CutShort(i, name)
<1>1. \A i : Field(i)' = Field(i)
  BY DEF Field
<1>2. \A i, name : /\ CookieAt(i, name)' = CookieAt(i, name)
                   /\ Holds(i, name)' <=> Holds(i, name)
  BY <1>1 DEF CookieAt, Holds
<1>3. Indices' = Indices /\ CookieHeaders' = CookieHeaders
  BY <1>1 DEF Indices, CookieHeaders, IsCookie
<1>4. \A i : Lone(i)' <=> Lone(i)
  BY <1>2, <1>3 DEF Lone
<1> QED
  BY <1>1, <1>2, <1>3, <1>4 DEF Taken, Fits, CutShort, CutLength, LengthFrom, CookieLength

LEMMA TakenIs ==
  ASSUME Reading, reply # "granted", NEW i, Lone(i), NEW name, Holds(i, name)
  PROVE  LET t == Taken(i, name) IN
         /\ t.length \in Nat /\ t.of \in Nat \ {0}
         /\ t.length = t.of <=> Fits(i, name)
         /\ t.length < t.of <=> CutShort(i, name)
<1> DEFINE f == Field(i)
           k == CookieAt(i, name)
           n == Len(f)
<1>1. f \in Seq(Cookies) /\ InLine(f)
  <2>1. fields \in Requests /\ fields \in Seq(Seq(Cookies)) /\ i + 1 \in 1 .. Len(fields)
    BY DEF Reading, TypeOK, Lone, Indices
  <2> QED BY <2>1, RequestAssumption DEF Field
<1>2. k \in 1 .. n /\ n \in Nat /\ n \in 1 .. n
  BY <1>1, FoundAt
<1>3. f[k] \in Cookies /\ f[n] \in Cookies
  BY <1>1, <1>2
<1>4. /\ f[k].at \in Nat /\ f[n].at \in Nat
      /\ CookieLength(f[k]) \in Nat \ {0} /\ CookieLength(f[n]) \in Nat \ {0}
  BY <1>3, LengthIs DEF Cookies
<1>5. CutLength(f, k) \in Nat
  BY <1>1, <1>2, CutLengthIs
<1>6. Taken(i, name) = [length |-> CutLength(f, k), of |-> CookieLength(f[k])]
  BY DEF Taken
<1>7. k = n => CutLength(f, k) = CookieLength(f[k])
  BY <1>1, <1>2, CutLengthRest
<1>8. k # n => CutLength(f, k) = LengthFrom(f, k + 1)
  BY <1>1, <1>2, CutLengthRest
<1>9. /\ Fits(i, name) <=> (k # n => LengthFrom(f, k + 1) = CookieLength(f[k]))
      /\ CutShort(i, name) <=> (k # n /\ LengthFrom(f, k + 1) < CookieLength(f[k]))
  BY DEF Fits, CutShort
<1> HIDE DEF f, k, n
<1> QED BY <1>4, <1>5, <1>6, <1>7, <1>8, <1>9

(* What follows for a cookie that was cut out. *)
LEMMA OwnTaken ==
  ASSUME Reading, reply # "granted", NEW i, Lone(i), Own(i),
         NEW name \in Wanted, cut[name] # Nothing
  PROVE  /\ Holds(i, name) /\ (Whole(name) <=> Fits(i, name))
         /\ Truncated(name) => CutShort(i, name)
<1>1. Holds(i, name) /\ cut[name] = Taken(i, name)
  BY DEF Own
<1> QED BY <1>1, TakenIs DEF Whole, Truncated

LEMMA OwnReply ==
  ASSUME NEW i, Own(i), NEW r, Reply(r), UNCHANGED good,
         r \notin {"no_cookie", "no_refresh"},
         r = "bad_refresh" => Refresh \notin good \/ ~Fits(i, Refresh),
         r = "bad_session" =>
           Holds(i, Session) /\ (Session \notin good \/ ~Fits(i, Session)),
         r = "crashed" => \E name \in Wanted : Holds(i, name) /\ CutShort(i, name)
  PROVE  Own(i)'
<1>1. UNCHANGED <<fields, cut>> /\ reply' = r /\ pc' = "done"
  BY DEF Reply
<1> QED BY <1>1, OwnStays DEF Own

(* The answers given where the search is over. *)
LEMMA OwnVerdict ==
  ASSUME Reading, reply # "granted", NEW i \in Indices, Lone(i), Own(i),
         \/ SessionRefused \/ SessionAccepted \/ RefreshRefused \/ RefreshAccepted
         \/ Crash \/ ExchangeFails
  PROVE  Own(i)'
<1>0. UNCHANGED <<good, cut, fields>> /\ Session \in Wanted /\ Refresh \in Wanted
  BY DEF SessionRefused, SessionAccepted, RefreshRefused, RefreshAccepted, Crash,
         ExchangeFails, Reply, Wanted
<1>1. CASE SessionRefused
  <2>1. cut[Session] # Nothing /\ Refused(Session)
    BY <1>1 DEF SessionRefused, Own
  <2>2. Holds(i, Session) /\ (Session \notin good \/ ~Fits(i, Session))
    BY <1>0, <2>1, OwnTaken DEF Refused
  <2> QED BY <1>0, <1>1, <2>2, OwnReply DEF SessionRefused
<1>2. CASE RefreshRefused
  <2>1. cut[Refresh] # Nothing /\ Refused(Refresh)
    BY <1>2 DEF RefreshRefused, Own
  <2>2. Refresh \notin good \/ ~Fits(i, Refresh)
    BY <1>0, <2>1, OwnTaken DEF Refused
  <2> QED BY <1>0, <1>2, <2>2, OwnReply DEF RefreshRefused
<1>3. CASE Crash
  <2>1. PICK name \in Wanted : Truncated(name) /\ cut[name] # Nothing
    BY <1>0, <1>3 DEF Crash, Own
  <2>2. Holds(i, name) /\ CutShort(i, name)
    BY <2>1, OwnTaken
  <2> QED BY <1>0, <1>3, <2>2, OwnReply DEF Crash
<1>4. CASE ExchangeFails
  BY <1>0, <1>4, OwnReply DEF ExchangeFails
<1>5. CASE SessionAccepted \/ RefreshAccepted
  <2>1. UNCHANGED <<fields, cut, reply, good>> /\ pc' \in {"refresh", "exchange"}
        /\ pc \in {"session", "refresh"}
    BY <1>5 DEF SessionAccepted, RefreshAccepted
  <2> QED BY <2>1, OwnStays DEF Own
<1> QED BY <1>1, <1>2, <1>3, <1>4, <1>5

(* A search that ends without the name was for the session cookie. *)
LEMMA OwnNotFound ==
  ASSUME NEW i, Own(i), NotFound, pc \in {"find", "cut"}, seeking # Refresh
  PROVE  Own(i)'
<1>1. /\ seeking = Session /\ pc' = "refresh"
      /\ UNCHANGED <<fields, good, cut, reply>>
  BY DEF NotFound
<1>2. cut[Refresh] # Nothing
  BY <1>1 DEF Own
<1> QED BY <1>1, <1>2, OwnStays DEF Own

LEMMA OwnSearch ==
  ASSUME Reading, reply # "granted", NEW i \in Indices, Lone(i), Own(i),
         CheckFails \/ CheckPasses \/ FindNone \/ FindHere \/ FindOn
  PROVE  Own(i)'
<1>0. i \in Nat /\ i # 0 /\ IsCookie(i) /\ CookieHeaders = {i} /\ Holds(i, Refresh)
  BY DEF Lone, CookieHeaders, Indices
<1>1. ~NoHeader(0) /\ ~NoHeader(-1)
  BY <1>0 DEF NoHeader
<1>2. CASE CheckPasses
  <2>1. /\ pc' = "find" /\ seeking' = Refresh /\ cursor' = -1
        /\ UNCHANGED <<fields, good, cut, reply>>
    BY <1>2 DEF CheckPasses, Seek
  <2>2. Refresh # Session
    BY NameAssumption
  <2> QED BY <2>1, <2>2, OwnStays DEF Own
<1>3. CASE FindNone
  <2>1. seeking # Refresh
    BY <1>1, <1>3 DEF FindNone, Own
  <2> QED BY <1>3, <2>1, OwnNotFound DEF FindNone
<1>4. CASE FindHere
  <2>1. /\ UNCHANGED <<fields, good, cut, reply, seeking, cursor>> /\ pc = "find"
        /\ pc' \in {"find", "cut"}
    BY <1>4 DEF FindHere
  <2> QED BY <2>1, OwnStays DEF Own
<1>5. CASE FindOn
  <2>1. UNCHANGED <<fields, good, cut, reply, seeking, pc>> /\ pc = "find"
    BY <1>5 DEF FindOn
  <2>2. PICK j \in Indices : NextHeader(cursor, j) /\ ~Seen(j, seeking)
    BY <1>5 DEF FindOn
  <2>3. j = i
    BY <1>0, <2>2 DEF NextHeader, CookieHeaders
  <2>4. seeking # Refresh
    BY <1>0, <2>2, <2>3 DEF Seen
  <2> QED BY <2>1, <2>4, OwnStays DEF Own
<1> QED BY <1>1, <1>2, <1>3, <1>4, <1>5 DEF CheckFails

LEMMA OwnCut ==
  ASSUME Reading, reply # "granted", NEW i \in Indices, Lone(i), Own(i),
         CutNothing \/ Cut
  PROVE  Own(i)'
<1>0. /\ pc = "cut" /\ wanted = i /\ Holds(i, Refresh) /\ Refresh # Session
      /\ seeking \in Wanted /\ cut \in [Wanted -> Cuts]
  BY NameAssumption DEF CutNothing, Cut, Reading, Lone, TypeOK
<1>1. CASE CutNothing
  BY <1>0, <1>1, OwnNotFound DEF CutNothing
<1>2. CASE Cut
  <2>1. /\ UNCHANGED <<fields, good, reply>>
        /\ Holds(i, seeking)
        /\ \/ seeking = Refresh /\ pc' = "find" /\ seeking' = Session
           \/ seeking = Session /\ pc' = "session"
    BY <1>0, <1>2 DEF Cut, Seek
  <2>2. cut' = [cut EXCEPT ![seeking] = Taken(i, seeking)]
    BY <1>0, <1>2, CutReading
  <2>3. /\ cut'[seeking] = Taken(i, seeking)
        /\ \A name \in Wanted \ {seeking} : cut'[name] = cut[name]
    BY <1>0, <2>2
  <2>4. Taken(i, seeking) # Nothing
    BY <2>1, TakenIs DEF Nothing
  <2>5. /\ seeking = Session => cut[Refresh] # Nothing /\ cut'[Refresh] = cut[Refresh]
        /\ Refresh \in Wanted /\ Session \in Wanted
    BY <1>0, <2>3 DEF Own, Wanted
  <2>6. \A name \in Wanted :
          cut'[name] = Nothing \/ (Holds(i, name)' /\ cut'[name] = Taken(i, name)')
    BY <2>1, <2>3, OwnStays DEF Own
  <2> QED BY <1>0, <2>1, <2>3, <2>4, <2>5, <2>6, OwnStays DEF Own
<1> QED BY <1>1, <1>2

LEMMA NextOwn == ASSUME Reading, OwnFound, [Next]_vars PROVE OwnFound'
<1>1. CASE yueah_req_delete_cookie
  BY <1>1 DEF yueah_req_delete_cookie, OwnFound
<1>2. CASE ~yueah_req_delete_cookie
  <2>1. UNCHANGED fields
    BY <1>2 DEF Next, vars, CheckFails, CheckPasses, FindNone, FindHere, FindOn,
       CutNothing, Cut, SessionRefused, SessionAccepted, RefreshRefused,
       RefreshAccepted, Crash, ExchangeFails, Done, NotFound, Reply, Seek
  <2>2. reply = "granted" => reply' = "granted"
    BY <1>2 DEF Next, vars, CheckFails, CheckPasses, FindNone, FindHere, FindOn,
       CutNothing, Cut, SessionRefused, SessionAccepted, RefreshRefused,
       RefreshAccepted, Crash, ExchangeFails, Done, Reading
  <2> SUFFICES ASSUME reply # "granted", NEW i \in Indices, Lone(i) PROVE Own(i)'
    BY <2>1, <2>2, OwnStays DEF OwnFound
  <2>3. Own(i)
    BY DEF OwnFound
  <2>4. CASE Done \/ UNCHANGED vars
    <3>1. UNCHANGED <<fields, good, pc, seeking, cursor, cut, reply>>
      BY <2>4 DEF Done, vars
    <3> QED BY <2>3, <3>1, OwnStays DEF Own
  <2> QED BY <1>2, <2>3, <2>4, OwnVerdict, OwnSearch, OwnCut DEF Next
<1> QED BY <1>1, <1>2

(* A request with one Cookie header, not the first field, and the refresh   *)
(* cookie in it among any others: neither it nor a session cookie is taken  *)
(* for absent or for another; each is cut out whole exactly when it is the  *)
(* last of the header or the text behind it is as long as itself, and then  *)
(* only a token that is not good is refused; the process dies only of a     *)
(* cookie with less text behind it than it has (cookie.c:323-406,           *)
(* auth.c:545-600).                                                         *)
THEOREM OwnCookiesAreRead == Spec => []OwnCookiesRead
<1>1. Init => OwnFound
  <2> SUFFICES ASSUME Init PROVE OwnFound
    OBVIOUS
  <2>1. \A name \in Wanted : cut[name] = Nothing
    BY DEF Init
  <2> QED BY <2>1 DEF Init, OwnFound, Own
<1>2. ASSUME Reading, OwnFound PROVE OwnCookiesRead
  <2> SUFFICES ASSUME NEW i \in Indices \ {0}, CookieHeaders = {i}, Holds(i, Refresh),
                      reply # "granted"
               PROVE  /\ Own(i)
                      /\ \A name \in Wanted : cut[name] # Nothing =>
                           Holds(i, name) /\ (Whole(name) <=> Fits(i, name))
    BY DEF OwnCookiesRead, Own
  <2>1. Lone(i) /\ Own(i)
    BY <1>2 DEF Lone, OwnFound
  <2> QED BY <1>2, <2>1, OwnTaken
<1> QED BY InitReading, NextReading, <1>1, NextOwn, <1>2, PTL DEF Spec
=============================================================================
