------------------------------- MODULE Dotenv -------------------------------
(***************************************************************************)
(* What dotenv.c makes of one line of a .env file: parse_line with trim,   *)
(* to_upper and remove_quotes.  A line is the sequence of the characters   *)
(* one fgets delivered, with the newline if it got that far.               *)
(***************************************************************************)
EXTENDS Integers, Sequences, SequencesExt

CONSTANTS
  KeySize,    \* sizes of parse_line's buffers
  ValueSize

ASSUME BufferSizes == KeySize \in Nat \ {0} /\ ValueSize \in Nat \ {0}

Space == {" ", "\t", "\n"}

Lowers == <<"a", "b", "c", "d", "e", "f", "g", "h", "i", "j", "k", "l", "m",
            "n", "o", "p", "q", "r", "s", "t", "u", "v", "w", "x", "y", "z">>
Uppers == <<"A", "B", "C", "D", "E", "F", "G", "H", "I", "J", "K", "L", "M",
            "N", "O", "P", "Q", "R", "S", "T", "U", "V", "W", "X", "Y", "Z">>

toupper ==
  [c \in {Lowers[i] : i \in DOMAIN Lowers} |->
    Uppers[CHOOSE i \in DOMAIN Lowers : Lowers[i] = c]]

(* to_upper *)
ToUpper(str) ==
  [i \in DOMAIN str |->
    IF str[i] \in DOMAIN toupper THEN toupper[str[i]] ELSE str[i]]

(* Where a character of a set, or one outside of it, is found; 0 for none. *)
FirstIn(str, C) == SelectInSeq(str, LAMBDA c : c \in C)
FirstNotIn(str, C) == SelectInSeq(str, LAMBDA c : c \notin C)
LastNotIn(str, C) == SelectLastInSeq(str, LAMBDA c : c \notin C)

(* trim, when it returns: of white space at the end the first character of *)
(* the string is kept; white space at the front it shifts for ever.        *)
Trim(str) ==
  LET last == LastNotIn(str, Space) IN
    SubSeq(str, 1, IF last = 0 THEN 1 ELSE last)
TrimHangs(str) == str # <<>> /\ str[1] \in Space

(* remove_quotes: the test for single quotes looks behind the string, and  *)
(* never finds one there.                                                  *)
RemoveQuotes(str) ==
  IF Len(str) >= 2 /\ str[1] = "\"" /\ str[Len(str)] = "\""
  THEN SubSeq(str, 2, Len(str) - 1) ELSE str

-----------------------------------------------------------------------------
(* parse_line; the two parts sscanf finds. *)
Ignored(line) == line[1] \in {"#", "\n"}
EqualsAt(line) == FirstIn(line, {"="})
KeyPart(line) ==
  IF EqualsAt(line) = 0 THEN line ELSE SubSeq(line, 1, EqualsAt(line) - 1)
ValuePart(line) ==
  LET rest == SubSeq(line, EqualsAt(line) + 1, Len(line))
      end  == FirstIn(rest, {"\n"})
  IN  IF EqualsAt(line) <= 1 THEN <<>>
      ELSE IF end = 0 THEN rest ELSE SubSeq(rest, 1, end - 1)

(* sscanf knows no size of the buffers. *)
Overflows(line) ==
  /\ ~Ignored(line)
  /\ Len(KeyPart(line)) >= KeySize \/ Len(ValuePart(line)) >= ValueSize

BothParts(line) ==
  ~Ignored(line) /\ KeyPart(line) # <<>> /\ ValuePart(line) # <<>>

Hangs(line) ==
  BothParts(line) /\ (TrimHangs(KeyPart(line)) \/ TrimHangs(ValuePart(line)))

KeyOf(line) == ToUpper(Trim(KeyPart(line)))
ValueOf(line) == RemoveQuotes(Trim(ValuePart(line)))
Sets(line) == BothParts(line) /\ ValueOf(line) # <<>>

-----------------------------------------------------------------------------
(* The same line as its author means it, for comparison. *)
Stripped(str) ==
  LET first == FirstNotIn(str, Space)
      last  == LastNotIn(str, Space)
  IN  IF first = 0 THEN <<>> ELSE SubSeq(str, first, last)

Unquoted(str) ==
  IF \E q \in {"\"", "'"} : Len(str) >= 2 /\ str[1] = q /\ str[Len(str)] = q
  THEN SubSeq(str, 2, Len(str) - 1) ELSE str

(* KEY=VALUE, or nothing for a comment, an empty line or an empty value. *)
Meant(line) ==
  LET text  == Stripped(line)
      at    == EqualsAt(text)
      value == Unquoted(Stripped(SubSeq(text, at + 1, Len(text))))
      key   == Stripped(SubSeq(text, 1, at - 1))
  IN  IF text = <<>> \/ text[1] = "#" \/ at <= 1 \/ value = <<>> THEN {}
      ELSE {<<ToUpper(key), value>>}

(* What it takes for parse_line to read it so: room, no white space before *)
(* either part, no single quotes.                                          *)
Plain(line) ==
  /\ ~Overflows(line) /\ ~Hangs(line)
  /\ BothParts(line) => ValuePart(line)[1] # "'"
=============================================================================
