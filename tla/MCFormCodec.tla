---------------------------- MODULE MCFormCodec ----------------------------
(***************************************************************************)
(* Small instances of FormCodec for TLC: keys of two characters, bodies of *)
(* up to three fields.                                                     *)
(***************************************************************************)
EXTENDS FormCodec

CONSTANT MaxFields  \* bound: fields of a body

Characters == {"u", "n", "p", "w", "s", "x", "=", "1", "2", "3", "4", "5", "6",
               "&", "%26", "%00"}

Username == <<"u", "n">>
Password == <<"p", "w">>

(* Both fields as a browser sends them, with a value that is empty, has an *)
(* ampersand in it, an ampersand and the other key, or a zero.             *)
Sendable ==
  {<<"u", "n", "=", "1">>, <<"u", "n", "=">>, <<"u", "n", "=", "1", "%26", "2">>,
   <<"u", "n", "=", "1", "%26", "p", "w", "=", "2">>,
   <<"p", "w", "=", "3">>, <<"p", "w", "=", "3", "%00", "4">>}

(* Longer names, names behind a value, no name, nothing. *)
Odd ==
  {<<"u", "n", "s", "=", "5">>, <<"x", "=", "u", "n", "=", "6">>,
   <<"u", "n">>, <<"p">>, <<"%26", "u">>, <<>>}

(* Fields joined by '&'. *)
Joined(fields) ==
  IF fields = <<>> THEN <<>>
  ELSE Tail(FlattenSeq([i \in DOMAIN fields |-> <<"&">> \o fields[i]]))

Sendables == {Joined(fields) : fields \in SeqOf(Sendable \cup Odd, MaxFields)}
=============================================================================
