------------------------------ MODULE MCStartup -----------------------------
(***************************************************************************)
(* A small instance of Startup for TLC: variables of one letter, keys of   *)
(* one byte, ports of 0 to 7, lines of seven characters.                   *)
(***************************************************************************)
EXTENDS Startup

Access == <<"A">>
Refresh == <<"R">>

(* Other spellings and words, a port too wide, no port. *)
Saves ==
  {[log |-> <<"f", "i", "l", "e", "d">>, port |-> 3],
   [log |-> <<"n", "o", "n", "e">>, port |-> 13],
   [log |-> <<"B", "O", "T", "H">>, port |-> 0]}

(* A plain file, with blanks, quotes and a variable twice; one with single *)
(* quotes and a comment that goes on behind the buffer; one with a name    *)
(* too long for its buffer and a blank before a value.                     *)
Files ==
  {<< <<"a", " ", "=", "3", "c", " ", "\n">>,
      <<"R", "=", "\"", "2", "B", "\"", "\n">>, <<"A", "=", "1", "a", " ">> >>,
   << <<"A", "=", "'", "1", "a", "'", "\n">>,
      <<"#", "#", "#", "#", "#", "#", "#", "R", "=", "2", "b">> >>,
   << <<"A", "B", "C", "D", "=", "1", "\n">>,
      <<"A", "=", " ", "1", "a", "\n">> >>}
DotenvFiles == Files \cup {Missing, Directory}

Inherited == {[Nothing EXCEPT ![Access] = <<"5", "e">>]}

(* None, a good one, one too large. *)
Operands == {{}, {3}, {8}}
=============================================================================
