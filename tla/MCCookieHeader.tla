-------------------------- MODULE MCCookieHeader --------------------------
(***************************************************************************)
(* Small instances of CookieHeader for TLC.  The names of the two cookies  *)
(* are equally long, as "yueah_refresh" and "yueah_session" are; a token   *)
(* has length 2.                                                           *)
(***************************************************************************)
EXTENDS CookieHeader

CONSTANTS R, S, Other

AllNames == {R, S, Other}
Lengths  == R :> 2 @@ S :> 2 @@ Other :> 1

(* Cookies put one behind the other. *)
Put(cookies) ==
  [k \in DOMAIN cookies |->
    [name |-> cookies[k].name, size |-> cookies[k].size,
     at |-> SumFunctionOnSet([j \in DOMAIN cookies |-> CookieLength(cookies[j]) + 2],
                             1 .. (k - 1))]]

RefreshCookie == [name |-> R, size |-> 2]
SessionCookie == [name |-> S, size |-> 2]
LongSession   == [name |-> S, size |-> 4]
OtherCookie   == [name |-> Other, size |-> 1]

NoCookie == <<>>

(* What a browser sends that has only this server's cookies. *)
OwnHeaders == {Put(h) : h \in {
  <<RefreshCookie>>, <<SessionCookie>>,
  <<RefreshCookie, SessionCookie>>, <<SessionCookie, RefreshCookie>>}}

(* Cookies of other pages of the site, and a longer session token. *)
MixedHeaders == {Put(h) : h \in {
  <<OtherCookie>>, <<OtherCookie, RefreshCookie>>,
  <<SessionCookie, RefreshCookie, OtherCookie>>,
  <<RefreshCookie, LongSession>>, <<LongSession, RefreshCookie>>}}

Fields(n, H) == UNION {[1 .. m -> H] : m \in 1 .. n}

OwnRequests   == Fields(3, OwnHeaders \cup {NoCookie})
MixedRequests == Fields(2, OwnHeaders \cup MixedHeaders \cup {NoCookie})
AllRequests   == OwnRequests \cup MixedRequests
=============================================================================
