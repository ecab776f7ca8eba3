----------------------------- MODULE FormCodec -----------------------------
(***************************************************************************)
(* The form of a registration or a login, from the body of the request to  *)
(* the two values the handlers go on with: yueah_urldecode,                *)
(* yueah_parse_form_body and yueah_get_form_val, as post_register_form and *)
(* post_login_form use them.                                               *)
(*                                                                         *)
(* A body is a sequence of characters, its fields are what lies between    *)
(* ampersands; of the escaped characters only two are told apart, "%26"    *)
(* for '&' and "%00" for the end of a C string.  Decoding leaves every     *)
(* character at its place, so a string is told by where it lies: between   *)
(* the two places of a span.                                               *)
(*                                                                         *)
(* External: the client, the memory of the request's pool.                 *)
(***************************************************************************)
EXTENDS Integers, FiniteSets, Sequences, SequencesExt

CONSTANTS
  Chars,        \* characters, and escaped ones
  UsernameKey,  \* "username" and "password", as sequences of characters
  PasswordKey,
  Bodies,       \* what a client may send
  Nothing,      \* no value yet
  Garbage       \* a value out of memory nobody wrote

Keys == {UsernameKey, PasswordKey}
Escapes == {"%26", "%00"}

ASSUME CharsAreTold == {"&", "="} \subseteq Chars
ASSUME KeysAreTexts ==
  \A key \in Keys :
    /\ key \in Seq(Chars) /\ key # <<>>
    /\ \A i \in 1 .. Len(key) : key[i] \notin Escapes \cup {"&"}
ASSUME BodiesAreTexts == Bodies \subseteq Seq(Chars)
ASSUME NothingIsNoText == Nothing \notin Seq(Chars) \cup {Garbage}

VARIABLES
  body,      \* what the client sent
  strings,   \* res of yueah_parse_form_body, the entries that are set
  len,       \* and the length it is said to have
  pc,
  username, password

vars == <<body, strings, len, pc, username, password>>

Values == Seq(Chars) \cup {Nothing, Garbage}

TypeOK ==
  /\ body \in Bodies
  /\ strings \in SUBSET (Nat \X Nat) /\ len \in Nat /\ Cardinality(strings) <= len
  /\ pc \in {"parse", "username", "password", "connect", "died"}
  /\ username \in Values /\ password \in Values
  /\ pc = "connect" => Nothing \notin {username, password}

Init ==
  /\ body \in Bodies
  /\ strings = {} /\ len = 0 /\ pc = "parse"
  /\ username = Nothing /\ password = Nothing

-----------------------------------------------------------------------------
(* yueah_urldecode, as far as the C string that is read from it. *)
EndOfString(text) ==
  CHOOSE n \in 0 .. Len(text) :
    /\ n < Len(text) => text[n + 1] = "%00"
    /\ \A i \in 1 .. n : text[i] # "%00"

Decode(text) ==
  [i \in 1 .. EndOfString(text) |-> IF text[i] = "%26" THEN "&" ELSE text[i]]

(* Where a character of a set is, and what lies between two such places.   *)
Places(text, C) == {i \in 1 .. Len(text) : text[i] \in C}
Cuts(text, C) == Places(text, C) \cup {0, Len(text) + 1}
Spans(text, C) ==
  LET cuts == Cuts(text, C) IN
    {s \in cuts \X cuts : /\ s[1] < s[2]
                          /\ \A c \in cuts : c <= s[1] \/ s[2] <= c}

Size(s) == s[2] - s[1] - 1
Between(text, s) == SubSeq(text, s[1] + 1, s[2] - 1)

(* strtok: what lies between ampersands, if anything does. *)
Pieces(text) == {s \in Spans(text, {"&"}) : Size(s) > 0}

(* Mutant: the array is made one entry longer. *)
ArrayLenOneMore(text) == Cardinality(Places(text, {"&"})) + 2

(* Mutant: one entry for each ampersand, none for what is behind the last. *)
ArrayLenOneLess(text) == Cardinality(Places(text, {"&"}))

(* The array is one longer than the number of ampersands, whether there is *)
(* a piece for each of its entries or not.                                 *)
ArrayLen(text) == Cardinality(Places(text, {"&"})) + 1

ParseFormBody ==
  /\ pc = "parse"
  /\ strings' = Pieces(Decode(body))
  /\ len' = ArrayLen(Decode(body))
  /\ pc' = "username"
  /\ UNCHANGED <<body, username, password>>

-----------------------------------------------------------------------------
(* yueah_get_form_val.                                                     *)

Text(s) == Between(Decode(body), s)

(* Every entry of the array was set: no field is empty, and no ampersand   *)
(* at either end.                                                          *)
AllSet == Cardinality(strings) = len

(* memcmp looks at as many bytes as the key has.  Behind the end of a      *)
(* shorter string it finds anything.                                       *)
MustMatch(s, key) == IsPrefix(key, Text(s))
MayMatch(s, key) ==
  \/ MustMatch(s, key)
  \/ Size(s) < Len(key) /\ IsPrefix(Text(s), key)

IsLast(s) == \A t \in strings : t[1] <= s[1]
IsFirst(s) == \A t \in strings : s[1] <= t[1]

(* Mutant: the last entry is not looked at. *)
KeyIndexesButLast(key) ==
  {s \in strings :
    /\ ~IsLast(s) /\ MayMatch(s, key)
    /\ \A t \in strings : s[1] < t[1] /\ ~IsLast(t) => ~MustMatch(t, key)}
  \cup {s \in strings :
    IsFirst(s) /\ \A t \in strings : ~IsLast(t) => ~MustMatch(t, key)}

(* key_idx: the last entry that matches, the first one if none does. *)
KeyIndexes(key) ==
  {s \in strings :
    MayMatch(s, key) /\ \A t \in strings : s[1] < t[1] => ~MustMatch(t, key)}
  \cup {s \in strings : IsFirst(s) /\ \A t \in strings : ~MustMatch(t, key)}

(* Mutant: the character behind the key is taken for the value's first. *)
ValFromEquals(s, key) == SubSeq(Decode(body), s[1] + Len(key) + 1, s[2] - 1)

(* The value is as long as the string without the key and one character.   *)
(* A negative length is a huge one, and to copy that much is the end.      *)
Val(s, key) == SubSeq(Decode(body), s[1] + Len(key) + 2, s[2] - 1)
TooShort(s, key) == Size(s) <= Len(key)

(* The entries that were not set are the last ones: they may match, and    *)
(* what they point to is anything.                                         *)
FormVals(key) ==
  {Val(s, key) : s \in {t \in KeyIndexes(key) : ~TooShort(t, key)}}
  \cup {v \in {Garbage} : ~AllSet}

(* A pointer nobody set is followed, or too much is copied. *)
MayDie(key) == ~AllSet \/ \E s \in KeyIndexes(key) : TooShort(s, key)

Die(key) ==
  /\ MayDie(key)
  /\ pc' = "died"
  /\ UNCHANGED <<body, strings, len, username, password>>

GetUsername ==
  /\ pc = "username"
  /\ \E val \in FormVals(UsernameKey) : username' = val
  /\ pc' = "password"
  /\ UNCHANGED <<body, strings, len, password>>

GetPassword ==
  /\ pc = "password"
  /\ \E val \in FormVals(PasswordKey) : password' = val
  /\ pc' = "connect"
  /\ UNCHANGED <<body, strings, len, username>>

Next ==
  \/ ParseFormBody \/ GetUsername \/ GetPassword
  \/ pc = "username" /\ Die(UsernameKey)
  \/ pc = "password" /\ Die(PasswordKey)

Spec == Init /\ [][Next]_vars

-----------------------------------------------------------------------------
(* Properties. *)

Begins(key) == {s \in strings : IsPrefix(key, Text(s))}

(* A value is that of a field which begins with its key, when there is one *)
(* (response.c:262-274): a missing field is the only case in which the     *)
(* first one stands in for it.                                             *)
ValueOfKey ==
  AllSet =>
    /\ username # Nothing /\ Begins(UsernameKey) # {} =>
         username \in {Val(s, UsernameKey) : s \in Begins(UsernameKey)}
    /\ password # Nothing /\ Begins(PasswordKey) # {} =>
         password \in {Val(s, PasswordKey) : s \in Begins(PasswordKey)}

(* The fields of the body as it was sent, up to their first escape. *)
Heads ==
  {s \in Spans(body, Escapes \cup {"&"}) : s[1] \in Cuts(body, {"&"})}
Carriers(key) == {s \in Heads : IsPrefix(key \o <<"=">>, Between(body, s))}
Sent(s, key) == SubSeq(body, s[1] + Len(key) + 2, s[2] - 1)
Hidden(s) == \E i \in 1 .. s[1] : body[i] = "%00"

(* A value is what the client sent under that name, whole if it holds no   *)
(* escaped ampersand or zero, and up to there otherwise (response.c:208,   *)
(* url.c:6): provided one field carries the name, nothing else in the      *)
(* decoded body begins with it and no zero ends the body before.           *)
OwnValue ==
  \A s \in Heads :
    (AllSet /\ ~Hidden(s)) =>
      /\ (/\ Carriers(UsernameKey) = {s} /\ Cardinality(Begins(UsernameKey)) = 1
          /\ username # Nothing)
           => username = Sent(s, UsernameKey)
      /\ (/\ Carriers(PasswordKey) = {s} /\ Cardinality(Begins(PasswordKey)) = 1
          /\ password # Nothing)
           => password = Sent(s, PasswordKey)

(* A form whose fields are all there, without escapes, and longer than     *)
(* either key is read without a step outside of it (response.c:262-276).   *)
Survives ==
  (/\ Places(body, Escapes) = {}
   /\ \A s \in Spans(body, {"&"}), key \in Keys : Size(s) > Len(key))
    => pc # "died"
=============================================================================
