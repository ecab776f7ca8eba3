---------------------------- MODULE CookieHeader ----------------------------
(***************************************************************************)
(* How get_refresh reads its two cookies (auth.c:545-600): the check for a *)
(* Cookie header, the search for a name, cutting the cookie out of the     *)
(* header, decoding it, and the removal of the header at the end.          *)
(*                                                                         *)
(* A header field is the sequence of its cookies, "n=v; n=v; ...", each    *)
(* with the place of its name in the text; a field with another name is    *)
(* the empty sequence.  Of a text only its length matters.  Fields are     *)
(* counted from 0, as in the code.                                         *)
(***************************************************************************)
EXTENDS Integers, Sequences, FiniteSets, SequencesExt

CONSTANTS
  Names,        \* names of cookies, none of them the end of another
  Refresh,      \* "yueah_refresh"
  Session,      \* "yueah_session"
  NameLength,   \* the length of each name
  Requests      \* the header fields of the requests considered

Wanted == {Refresh, Session}

Cookies == [name : Names, at : Nat, size : Nat]

(* "n=v" *)
CookieLength(c) == NameLength[c.name] + 1 + c.size

(* One cookie behind the other, a semicolon and a space in between. *)
InLine(f) ==
  /\ f # <<>> => f[1].at = 0
  /\ \A k \in 1 .. (Len(f) - 1) : f[k + 1].at = f[k].at + CookieLength(f[k]) + 2

ASSUME NameAssumption ==
  /\ Wanted \subseteq Names
  /\ Refresh # Session
  /\ NameLength \in [Names -> Nat \ {0}]

ASSUME RequestAssumption ==
  /\ Requests \subseteq Seq(Seq(Cookies))
  /\ \A r \in Requests : \A i \in DOMAIN r : InLine(r[i])

VARIABLES
  fields,    \* req->headers
  behind,    \* <<i, name>>: "name=" lies in memory behind the text of field i,
             \* with no zero byte between; no text is terminated by the parser
  good,      \* the names whose token yueah_jwt_verify accepts
  pc,
  seeking,   \* the name get_cookie_index looks for
  cursor,    \* cookie_cursor
  wanted,    \* wanted_cookie_index
  cut,       \* for each name, the length of the text cut out and of the cookie
  reply

vars == <<fields, behind, good, pc, seeking, cursor, wanted, cut, reply>>

Nothing == [length |-> 0, of |-> 0]

Cuts == [length : Nat, of : Nat]

Replies == {"none", "no_cookie", "no_refresh", "bad_session", "bad_refresh",
            "crashed", "failed", "granted"}

TypeOK ==
  /\ fields \in Seq(Seq(Cookies))
  /\ behind \subseteq Nat \X Wanted
  /\ good \subseteq Wanted
  /\ pc \in {"check", "find", "cut", "session", "refresh", "exchange", "done"}
  /\ seeking \in Wanted
  /\ cursor \in -1 .. Len(fields) - 1
  /\ wanted \in Nat
  /\ pc = "cut" => wanted < Len(fields)
  /\ cut \in [Wanted -> Cuts]
  /\ reply \in Replies

-----------------------------------------------------------------------------
(* The header array. *)
Indices == 0 .. Len(fields) - 1

Field(i) == fields[i + 1]

IsCookie(i) == Field(i) # <<>>

Holds(i, name) == \E k \in DOMAIN Field(i) : Field(i)[k].name = name

(* yueah_cookie_name_exists: strstr does not stop at the end of the text.  *)
Seen(i, name) == Holds(i, name) \/ <<i, name>> \in behind

(* h2o_find_header: i is the first Cookie header after position c. *)
NextHeader(c, i) ==
  /\ i \in Indices
  /\ c < i
  /\ IsCookie(i)
  /\ \A j \in Indices : c < j /\ IsCookie(j) => i <= j

NoHeader(c) == \A j \in Indices : c < j => ~IsCookie(j)

-----------------------------------------------------------------------------
(* From the name of cookie k to the end of the field f. *)
LengthFrom(f, k) == f[Len(f)].at + CookieLength(f[Len(f)]) - f[k].at

(* Mutant: the semicolon is looked for from the start of the field. *)
CutLengthFromStart(f, k) ==
  IF k = Len(f) THEN LengthFrom(f, k)
                ELSE LengthFrom(f, k) - f[k + 1].at

(* Mutant: the space after the semicolon is not taken off. *)
CutLengthBeforeSpace(f, k) ==
  IF k = Len(f) THEN LengthFrom(f, k)
                ELSE LengthFrom(f, k) - CookieLength(f[k]) - 1

(* What is cut out at cookie k: the rest of the field, less the place of   *)
(* the first semicolon in it and two more when there is one.               *)
CutLength(f, k) ==
  IF k = Len(f) THEN LengthFrom(f, k)
                ELSE LengthFrom(f, k) - CookieLength(f[k]) - 2

(* The cookie a name is found at: the first one of that name. *)
CookieAt(i, name) ==
  CHOOSE k \in DOMAIN Field(i) :
    /\ Field(i)[k].name = name
    /\ \A j \in 1 .. k - 1 : Field(i)[j].name # name

(* The text cut out for a name is the cookie, no more and no less. *)
Whole(name) ==
  /\ cut[name] # Nothing
  /\ cut[name].length = cut[name].of

-----------------------------------------------------------------------------
Init ==
  /\ fields \in Requests
  /\ behind \in SUBSET (Indices \X Wanted)
  /\ good \in SUBSET Wanted
  /\ pc = "check"
  /\ seeking = Refresh
  /\ cursor = -1
  /\ wanted = 0
  /\ cut = [name \in Wanted |-> Nothing]
  /\ reply = "none"

(* The answer of the handler; the rest of it is not run. *)
Reply(r) ==
  /\ pc' = "done"
  /\ reply' = r
  /\ cursor' = -1
  /\ UNCHANGED <<fields, behind, good, seeking, wanted, cut>>

(* Mutant: the search goes on where the one before it ended. *)
SeekOn(name) ==
  /\ pc' = "find"
  /\ seeking' = name
  /\ cursor' = wanted
  /\ wanted' = 0

(* yueah_req_get_cookie_content starts a search for a name. *)
Seek(name) ==
  /\ pc' = "find"
  /\ seeking' = name
  /\ cursor' = -1
  /\ wanted' = 0

(* The check of get_refresh looks from field 1 on: its cursor is 0. *)
CheckFails ==
  /\ pc = "check"
  /\ NoHeader(0)
  /\ Reply("no_cookie")

(* Mutant: the check looks from field 0 on. *)
CheckPassesAnywhere ==
  /\ pc = "check"
  /\ ~NoHeader(-1)
  /\ Seek(Refresh)
  /\ UNCHANGED <<fields, behind, good, cut, reply>>

CheckPasses ==
  /\ pc = "check"
  /\ ~NoHeader(0)
  /\ Seek(Refresh)
  /\ UNCHANGED <<fields, behind, good, cut, reply>>

-----------------------------------------------------------------------------
(* A name was not found: no refresh token is an answer of its own; without *)
(* a session cookie the session counts as expired.                         *)
NotFound ==
  \/ /\ seeking = Refresh
     /\ Reply("no_refresh")
  \/ /\ seeking = Session
     /\ pc' = "refresh"
     /\ cursor' = -1
     /\ UNCHANGED <<fields, behind, good, seeking, wanted, cut, reply>>

(* One turn of get_cookie_index's loop.  No Cookie header is left. *)
FindNone ==
  /\ pc = "find"
  /\ NoHeader(cursor)
  /\ NotFound

(* The name is seen in the next header.  Index 0 is what the loop takes    *)
(* for "not yet found": it looks at the same header again.                 *)
FindHere ==
  /\ pc = "find"
  /\ \E i \in Indices :
       /\ NextHeader(cursor, i)
       /\ Seen(i, seeking)
       /\ wanted' = i
       /\ pc' = IF i = 0 THEN "find" ELSE "cut"
  /\ UNCHANGED <<fields, behind, good, seeking, cursor, cut, reply>>

(* Mutant: the cursor moves past the header after the one looked at. *)
FindOnSkips ==
  /\ pc = "find"
  /\ \E i \in Indices :
       /\ NextHeader(cursor, i) /\ ~Seen(i, seeking)
       /\ cursor' = IF i + 1 \in Indices THEN i + 1 ELSE i
  /\ UNCHANGED <<fields, behind, good, pc, seeking, wanted, cut, reply>>

FindOn ==
  /\ pc = "find"
  /\ \E i \in Indices : NextHeader(cursor, i) /\ ~Seen(i, seeking)
  /\ cursor' = cursor + 1
  /\ UNCHANGED <<fields, behind, good, pc, seeking, wanted, cut, reply>>

-----------------------------------------------------------------------------
(* The header found: h2o_strstr stays within its text. *)
CutNothing ==
  /\ pc = "cut"
  /\ ~Holds(wanted, seeking)
  /\ NotFound

Cut ==
  /\ pc = "cut"
  /\ Holds(wanted, seeking)
  /\ LET k == CookieAt(wanted, seeking)
     IN  cut' = [cut EXCEPT ![seeking] =
                   [length |-> CutLength(Field(wanted), k),
                    of |-> CookieLength(Field(wanted)[k])]]
  /\ \/ seeking = Refresh /\ Seek(Session)
     \/ /\ seeking = Session
        /\ pc' = "session"
        /\ cursor' = -1
        /\ UNCHANGED <<seeking, wanted>>
  /\ UNCHANGED <<fields, behind, good, reply>>

-----------------------------------------------------------------------------
(* yueah_get_cookie_content and yueah_jwt_verify, which compares as much   *)
(* of the signature as the token has: a whole token is judged by its       *)
(* signature.  What becomes of a part of one depends on where it ends:     *)
(* within the signature it may be accepted, before that the search for the *)
(* dots may leave the text, and the process dies.  One with text of the    *)
(* next cookie after it is refused, as is a cut without room for "name=".  *)
Truncated(name) ==
  /\ cut[name].length > NameLength[name]
  /\ cut[name].length < cut[name].of

Refused(name) == Whole(name) => name \notin good

Accepted(name) == Truncated(name) \/ (Whole(name) /\ name \in good)

SessionRefused ==
  /\ pc = "session"
  /\ Refused(Session)
  /\ Reply("bad_session")

SessionAccepted ==
  /\ pc = "session"
  /\ Accepted(Session)
  /\ pc' = "refresh"
  /\ UNCHANGED <<fields, behind, good, seeking, cursor, wanted, cut, reply>>

RefreshRefused ==
  /\ pc = "refresh"
  /\ Refused(Refresh)
  /\ Reply("bad_refresh")

RefreshAccepted ==
  /\ pc = "refresh"
  /\ Accepted(Refresh)
  /\ pc' = "exchange"
  /\ UNCHANGED <<fields, behind, good, seeking, cursor, wanted, cut, reply>>

Crash ==
  /\ pc \in {"session", "refresh"}
  /\ Truncated(IF pc = "session" THEN Session ELSE Refresh)
  /\ Reply("crashed")

(* The exchange itself is Auth's; it may fail.  Then the first Cookie      *)
(* header is removed, which need not be the one that was read.             *)
ExchangeFails ==
  /\ pc = "exchange"
  /\ Reply("failed")

yueah_req_delete_cookie ==
  /\ pc = "exchange"
  /\ \E i \in Indices : NextHeader(-1, i) /\ fields' = RemoveAt(fields, i + 1)
  /\ pc' = "done"
  /\ reply' = "granted"
  /\ UNCHANGED <<behind, good, seeking, cursor, wanted, cut>>

Done == pc = "done" /\ UNCHANGED vars

Next ==
  \/ CheckFails \/ CheckPasses
  \/ FindNone \/ FindHere \/ FindOn
  \/ CutNothing \/ Cut
  \/ SessionRefused \/ SessionAccepted
  \/ RefreshRefused \/ RefreshAccepted \/ Crash
  \/ ExchangeFails \/ yueah_req_delete_cookie
  \/ Done

Spec == Init /\ [][Next]_vars

(* A handler runs to its end before the loop turns. *)
FairSpec == Spec /\ WF_vars(Next)

-----------------------------------------------------------------------------
CookieHeaders == {i \in Indices : IsCookie(i)}

(* When no text is overrun, the header a search settles on is the first  *)
(* Cookie header with that name, however the cookies are spread over       *)
(* headers (get_cookie_index).                                             *)
FirstWithName ==
  behind = {} /\ pc = "cut" =>
    /\ wanted \in CookieHeaders
    /\ Holds(wanted, seeking)
    /\ \A j \in CookieHeaders : j < wanted => ~Holds(j, seeking)

(* When no text is overrun, a refresh goes on without a look at the        *)
(* session only if no header has a session cookie: "not found" is never    *)
(* taken for "expired" by mistake (auth.c:560-582).  What was looked at is *)
(* the cookie or a part of it; the whole cookie has to be good.            *)
SessionNotSkipped ==
  behind = {} /\ pc \in {"refresh", "exchange"} =>
    \A i \in CookieHeaders : Holds(i, Session) =>
      /\ cut[Session] # Nothing /\ cut[Session].length <= cut[Session].of
      /\ Whole(Session) => Session \in good

(* The length cut out for a cookie is right where no text follows it or    *)
(* text as long as itself, and too short where less follows it             *)
(* (cookie.c:392-403).                                                     *)
Fits(i, name) ==
  LET f == Field(i)  k == CookieAt(i, name)
  IN  k # Len(f) => LengthFrom(f, k + 1) = CookieLength(f[k])

CutShort(i, name) ==
  LET f == Field(i)  k == CookieAt(i, name)
  IN  k # Len(f) /\ LengthFrom(f, k + 1) < CookieLength(f[k])

(* A request with one Cookie header, not the first field, and the refresh  *)
(* cookie in it, among whatever cookies and in whatever order: the cookie  *)
(* is never mistaken for absent, whatever lies behind the header in        *)
(* memory; a cookie is cut out whole exactly when it is the last or the    *)
(* text behind it is as long as itself, and then only a token that is not  *)
(* good is refused; only a cookie cut short kills the process              *)
(* (yueah_req_get_cookie_content, auth.c:545-600).                         *)
OwnCookiesRead ==
  \A i \in Indices \ {0} :
    CookieHeaders = {i} /\ Holds(i, Refresh) /\ reply # "granted" =>
      /\ reply \notin {"no_cookie", "no_refresh"}
      /\ \A name \in Wanted : cut[name] # Nothing =>
           Holds(i, name) /\ (Whole(name) <=> Fits(i, name))
      /\ reply = "bad_refresh" => Refresh \notin good \/ ~Fits(i, Refresh)
      /\ reply = "bad_session" =>
           Holds(i, Session) /\ (Session \notin good \/ ~Fits(i, Session))
      /\ reply = "crashed" =>
           \E name \in Wanted : Holds(i, name) /\ CutShort(i, name)

(* A request with one Cookie header is answered wherever that header is,   *)
(* and so is one whose first field is no Cookie header: the check before   *)
(* the search keeps a lone first header away from get_cookie_index.  The   *)
(* death of the process is no answer; it takes a cookie cut short.         *)
Answered ==
  /\ Cardinality(CookieHeaders) <= 1 \/ 0 \notin CookieHeaders
  /\ \A i \in CookieHeaders, name \in Wanted : Holds(i, name) => ~CutShort(i, name)
  => <>(pc = "done" /\ reply # "crashed")
============================================================================
