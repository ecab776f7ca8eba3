-------------------------- MODULE FormCodecProofs --------------------------
(***************************************************************************)
(* Theorems about FormCodec, for keys and bodies of any characters.        *)
(***************************************************************************)
EXTENDS FormCodec, FiniteSetTheorems, SequenceTheorems,
        WellFoundedInduction, TLAPS

-----------------------------------------------------------------------------
(* Numbers and parts of texts. *)

(* The least of some numbers. *)
LEMMA Least ==
  ASSUME NEW T, T \subseteq Nat, T # {}
  PROVE  \E m \in T : \A k \in T : m <= k
<1> DEFINE R == {ss \in Nat \X Nat : ss[1] < ss[2]}
<1>1. IsWellFoundedOn(R, Nat)
  BY NatLessThanWellFounded DEF OpToRel
<1>2. PICK m \in T : \A y \in T : ~(<<y, m>> \in R)
  BY <1>1, WFMin
<1>3. ASSUME NEW k \in T PROVE m <= k
  <2>1. ~(<<k, m>> \in R) /\ k \in Nat /\ m \in Nat
    BY <1>2
  <2> QED BY <2>1
<1> QED BY <1>3

(* The greatest of some numbers up to n. *)
LEMMA Greatest ==
  ASSUME NEW n \in Nat, NEW T, T \subseteq 0 .. n, T # {}
  PROVE  \E m \in T : \A k \in T : k <= m
<1> DEFINE D == {d \in Nat : n - d \in T}
<1>1. D # {}
  <2>1. PICK k \in T : TRUE
    OBVIOUS
  <2>2. n - k \in Nat /\ n - (n - k) = k
    BY <2>1
  <2> QED BY <2>1, <2>2
<1>2. PICK d \in D : \A k \in D : d <= k
  BY <1>1, Least
<1>3. n - d \in T
  BY <1>2
<1>4. ASSUME NEW k \in T PROVE k <= n - d
  <2>1. k \in 0 .. n /\ n - k \in Nat /\ n - (n - k) = k
    OBVIOUS
  <2>2. d <= n - k
    BY <1>2, <2>1
  <2> QED BY <2>1, <2>2
<1> QED BY <1>3, <1>4

(* A part of a text. *)
LEMMA Part ==
  ASSUME NEW str \in Seq(Chars), NEW a \in Nat \ {0}, NEW b \in Nat,
         b <= Len(str)
  PROVE  /\ SubSeq(str, a, b) \in Seq(Chars)
         /\ Len(SubSeq(str, a, b)) = IF a <= b THEN b - a + 1 ELSE 0
         /\ \A i \in 1 .. (b - a + 1) : SubSeq(str, a, b)[i] = str[a + i - 1]
<1>1. \A i \in a .. b : i \in 1 .. Len(str)
  OBVIOUS
<1>2. \A i \in a .. b : str[i] \in Chars
  BY <1>1
<1> QED BY <1>1, <1>2, SubSeqProperties

(* Texts that agree from a to b have the same part there. *)
LEMMA SamePart ==
  ASSUME NEW str \in Seq(Chars), NEW other \in Seq(Chars),
         NEW a \in Nat \ {0}, NEW b \in Nat, b <= Len(str), b <= Len(other),
         \A i \in a .. b : str[i] = other[i]
  PROVE  SubSeq(str, a, b) = SubSeq(other, a, b)
<1> DEFINE p == SubSeq(str, a, b)
           q == SubSeq(other, a, b)
<1>1. p \in Seq(Chars) /\ q \in Seq(Chars) /\ Len(p) = Len(q)
  BY Part
<1>2. ASSUME NEW i \in 1 .. Len(p) PROVE p[i] = q[i]
  <2>1. i \in 1 .. (b - a + 1) /\ a + i - 1 \in a .. b
    BY Part
  <2> QED BY <2>1, Part
<1> HIDE DEF p, q
<1> QED BY <1>1, <1>2

(* A text begins with another where it has its characters. *)
LEMMA PrefixIs ==
  ASSUME NEW str \in Seq(Chars), NEW pre \in Seq(Chars)
  PROVE  IsPrefix(pre, str) <=>
           Len(pre) <= Len(str) /\ \A i \in 1 .. Len(pre) : str[i] = pre[i]
<1> DEFINE n == Len(pre)
<1>1. n \in Nat /\ Len(str) \in Nat
  OBVIOUS
<1>2. SubSeq(pre, 1, n) = pre
  BY SubSeqFull
<1>3. CASE n <= Len(str)
  <2> DEFINE p == SubSeq(str, 1, n)
  <2>1. p \in Seq(Chars) /\ Len(p) = n
    BY <1>1, <1>3, Part
  <2>2. \A i \in 1 .. n : p[i] = str[i]
    BY <1>1, <1>3, Part
  <2> HIDE DEF p
  <2>3. p = pre <=> \A i \in 1 .. n : p[i] = pre[i]
    BY <2>1
  <2>4. IsPrefix(pre, str) <=> p = pre
    BY <1>2, <1>3 DEF IsPrefix, p
  <2> QED BY <2>2, <2>3, <2>4, <1>3
<1>4. CASE ~(n <= Len(str))
  BY <1>4 DEF IsPrefix
<1> QED BY <1>3, <1>4

-----------------------------------------------------------------------------
(* Spans. *)

LEMMA CutsAre ==
  ASSUME NEW str \in Seq(Chars), NEW C
  PROVE  /\ Cuts(str, C) \subseteq 0 .. (Len(str) + 1)
         /\ 0 \in Cuts(str, C) /\ Len(str) + 1 \in Cuts(str, C)
         /\ \A i \in 1 .. Len(str) : i \in Cuts(str, C) <=> str[i] \in C
BY DEF Cuts, Places

(* A span goes from one cut to the next. *)
LEMMA SpanIs ==
  ASSUME NEW str \in Seq(Chars), NEW C, NEW s \in Spans(str, C)
  PROVE  /\ s = <<s[1], s[2]>>
         /\ s[1] \in 0 .. Len(str) /\ s[2] \in 1 .. (Len(str) + 1)
         /\ s[1] < s[2] /\ s[1] \in Cuts(str, C) /\ s[2] \in Cuts(str, C)
         /\ \A c \in Cuts(str, C) : c <= s[1] \/ s[2] <= c
         /\ \A i \in (s[1] + 1) .. (s[2] - 1) : str[i] \notin C
<1>1. /\ s \in Cuts(str, C) \X Cuts(str, C) /\ s[1] < s[2]
      /\ \A c \in Cuts(str, C) : c <= s[1] \/ s[2] <= c
  BY DEF Spans
<1>2. /\ s = <<s[1], s[2]>> /\ s[1] \in Cuts(str, C) /\ s[2] \in Cuts(str, C)
  BY <1>1
<1>3. s[1] \in 0 .. Len(str) /\ s[2] \in 1 .. (Len(str) + 1)
  BY <1>1, <1>2, CutsAre
<1>4. ASSUME NEW i \in (s[1] + 1) .. (s[2] - 1) PROVE str[i] \notin C
  <2>1. i \in 1 .. Len(str) /\ ~(i <= s[1]) /\ ~(s[2] <= i)
    BY <1>3
  <2> QED BY <1>1, <2>1, CutsAre
<1> QED BY <1>1, <1>2, <1>3, <1>4

LEMMA SpanFrom ==
  ASSUME NEW str \in Seq(Chars), NEW C, NEW a \in Cuts(str, C), a <= Len(str)
  PROVE  \E s \in Spans(str, C) : s[1] = a
<1> DEFINE T == {c \in Cuts(str, C) : a < c}
<1>1. T \subseteq Nat /\ T # {}
  BY CutsAre
<1>2. PICK b \in T : \A k \in T : b <= k
  BY <1>1, Least
<1>3. a \in Nat /\ Cuts(str, C) \subseteq Nat
  BY CutsAre
<1>4. \A c \in Cuts(str, C) : c <= a \/ b <= c
  BY <1>2, <1>3
<1>5. <<a, b>> \in Spans(str, C)
  BY <1>2, <1>4 DEF Spans
<1> QED BY <1>5

LEMMA SpanTo ==
  ASSUME NEW str \in Seq(Chars), NEW C, NEW b \in Cuts(str, C), b # 0
  PROVE  \E s \in Spans(str, C) : s[2] = b
<1> DEFINE T == {c \in Cuts(str, C) : c < b}
<1>1. T \subseteq 0 .. (Len(str) + 1) /\ T # {} /\ Len(str) + 1 \in Nat
  BY CutsAre
<1>2. PICK a \in T : \A k \in T : k <= a
  BY <1>1, Greatest
<1>3. b \in Nat /\ Cuts(str, C) \subseteq Nat
  BY CutsAre
<1>4. \A c \in Cuts(str, C) : c <= a \/ b <= c
  BY <1>2, <1>3
<1>5. <<a, b>> \in Spans(str, C)
  BY <1>2, <1>4 DEF Spans
<1> QED BY <1>5

(* No two spans end at the same place. *)
LEMMA OneSpanTo ==
  ASSUME NEW str \in Seq(Chars), NEW C, NEW s \in Spans(str, C),
         NEW t \in Spans(str, C), s[2] = t[2]
  PROVE  s = t
<1>1. /\ s = <<s[1], s[2]>> /\ t = <<t[1], t[2]>>
      /\ s[1] \in Nat /\ t[1] \in Nat /\ s[1] < s[2] /\ t[1] < t[2]
  BY SpanIs
<1>2. s[1] <= t[1] \/ t[2] <= s[1]
  BY SpanIs
<1>3. t[1] <= s[1] \/ s[2] <= t[1]
  BY SpanIs
<1>4. t[2] \in Nat /\ s[2] \in Nat
  BY SpanIs
<1>5. s[1] = t[1]
  BY <1>1, <1>2, <1>3, <1>4
<1> QED BY <1>1, <1>5

(* There are as many places behind a span as the array has entries.        *)
LEMMA EntriesAre ==
  ASSUME NEW str \in Seq(Chars)
  PROVE  LET ends == Places(str, {"&"}) \cup {Len(str) + 1} IN
         /\ IsFiniteSet(ends) /\ Cardinality(ends) = ArrayLen(str)
         /\ ArrayLen(str) \in Nat
         /\ ends = Cuts(str, {"&"}) \ {0}
<1> DEFINE amps == Places(str, {"&"})
<1>1. IsFiniteSet(1 .. Len(str)) /\ amps \in SUBSET (1 .. Len(str))
  BY FS_Interval DEF Places
<1>2. IsFiniteSet(amps) /\ Cardinality(amps) \in Nat
  BY <1>1, FS_Subset, FS_CardinalityType
<1>3. Len(str) + 1 \notin amps /\ 0 \notin amps /\ Len(str) + 1 # 0
  BY <1>1
<1>4. Cuts(str, {"&"}) = amps \cup {0, Len(str) + 1}
  BY DEF Cuts
<1> HIDE DEF amps
<1>5. /\ IsFiniteSet(amps \cup {Len(str) + 1})
      /\ Cardinality(amps \cup {Len(str) + 1}) = Cardinality(amps) + 1
  BY <1>2, <1>3, FS_AddElement
<1>6. ArrayLen(str) = Cardinality(amps) + 1
  BY DEF ArrayLen, amps
<1>7. amps \cup {Len(str) + 1} = Cuts(str, {"&"}) \ {0}
  BY <1>3, <1>4
<1> QED BY <1>2, <1>5, <1>6, <1>7 DEF amps

(* The pieces fit into the array; they fill it when no field is empty.     *)
LEMMA PiecesFit ==
  ASSUME NEW str \in Seq(Chars)
  PROVE  /\ Pieces(str) \in SUBSET (Nat \X Nat)
         /\ IsFiniteSet(Pieces(str)) /\ Cardinality(Pieces(str)) <= ArrayLen(str)
         /\ ArrayLen(str) \in Nat
         /\ (\A s \in Spans(str, {"&"}) : Size(s) > 0)
              => Cardinality(Pieces(str)) = ArrayLen(str)
<1> DEFINE ends == Places(str, {"&"}) \cup {Len(str) + 1}
           f == [s \in Pieces(str) |-> s[2]]
<1>1. /\ IsFiniteSet(ends) /\ Cardinality(ends) = ArrayLen(str)
      /\ ArrayLen(str) \in Nat /\ ends = Cuts(str, {"&"}) \ {0}
  BY EntriesAre
<1>2. Pieces(str) \subseteq Spans(str, {"&"})
  BY DEF Pieces
<1>3. ASSUME NEW s \in Pieces(str)
      PROVE  s \in Nat \X Nat /\ s[2] \in ends
  <2>1. s = <<s[1], s[2]>> /\ s[1] \in Nat /\ s[2] \in Nat /\ s[2] # 0
        /\ s[2] \in Cuts(str, {"&"})
    BY <1>2, SpanIs
  <2> QED BY <2>1, <1>1
<1> HIDE DEF ends
<1>4. f \in [Pieces(str) -> ends]
  BY <1>3
<1>5. ASSUME NEW s \in Pieces(str), NEW t \in Pieces(str), f[s] = f[t]
      PROVE  s = t
  BY <1>2, <1>5, OneSpanTo
<1>6. f \in Injection(Pieces(str), ends)
  BY <1>4, <1>5 DEF Injection, IsInjective
<1>7. /\ IsFiniteSet(Pieces(str)) /\ Cardinality(Pieces(str)) <= Cardinality(ends)
      /\ Cardinality(Pieces(str)) = Cardinality(ends) <=>
           f \in Surjection(Pieces(str), ends)
  BY <1>1, <1>6, FS_Injection
<1>8. ASSUME \A s \in Spans(str, {"&"}) : Size(s) > 0
      PROVE  Cardinality(Pieces(str)) = ArrayLen(str)
  <2>1. Pieces(str) = Spans(str, {"&"})
    BY <1>8 DEF Pieces
  <2>2. ASSUME NEW b \in ends PROVE \E s \in Pieces(str) : f[s] = b
    <3>1. PICK s \in Spans(str, {"&"}) : s[2] = b
      BY <1>1, SpanTo
    <3> QED BY <2>1, <3>1
  <2>3. f \in Surjection(Pieces(str), ends)
    BY <1>4, <2>2 DEF Surjection
  <2> QED BY <1>1, <1>7, <2>3
<1> QED BY <1>1, <1>3, <1>7, <1>8

-----------------------------------------------------------------------------
(* Decoding. *)

LEMMA EndIs ==
  ASSUME NEW text \in Seq(Chars)
  PROVE  /\ EndOfString(text) \in 0 .. Len(text)
         /\ EndOfString(text) < Len(text) => text[EndOfString(text) + 1] = "%00"
         /\ \A i \in 1 .. EndOfString(text) : text[i] # "%00"
<1> DEFINE T == {n \in 0 .. Len(text) : n < Len(text) => text[n + 1] = "%00"}
<1>1. T \subseteq Nat /\ Len(text) \in T /\ Len(text) \in Nat
  OBVIOUS
<1>2. PICK n \in T : \A k \in T : n <= k
  BY <1>1, Least
<1>3. ASSUME NEW i \in 1 .. n PROVE text[i] # "%00"
  <2>1. n \in 0 .. Len(text)
    OBVIOUS
  <2>2. i - 1 \in 0 .. Len(text) /\ (i - 1) + 1 = i /\ ~(n <= i - 1)
    BY <2>1
  <2> QED BY <1>2, <2>2
<1>4. \E m \in 0 .. Len(text) :
        /\ m < Len(text) => text[m + 1] = "%00"
        /\ \A i \in 1 .. m : text[i] # "%00"
  BY <1>3
<1> QED BY <1>4 DEF EndOfString

LEMMA DecodeIs ==
  ASSUME NEW text \in Seq(Chars)
  PROVE  /\ Decode(text) \in Seq(Chars) /\ Len(Decode(text)) = EndOfString(text)
         /\ \A i \in 1 .. EndOfString(text) :
              Decode(text)[i] = IF text[i] = "%26" THEN "&" ELSE text[i]
<1>1. EndOfString(text) \in 0 .. Len(text) /\ Len(text) \in Nat
  BY EndIs
<1>2. \A i \in 1 .. EndOfString(text) : i \in 1 .. Len(text)
  BY <1>1
<1>3. \A i \in 1 .. EndOfString(text) : text[i] \in Chars
  BY <1>2
<1>4. \A i \in 1 .. EndOfString(text) :
        (IF text[i] = "%26" THEN "&" ELSE text[i]) \in Chars
  <2>1. "&" \in Chars
    BY CharsAreTold
  <2> QED BY <1>3, <2>1
<1> QED BY <1>1, <1>4 DEF Decode

(* Without an escape nothing is decoded. *)
LEMMA DecodePlain ==
  ASSUME NEW text \in Seq(Chars), Places(text, Escapes) = {}
  PROVE  Decode(text) = text
<1> DEFINE e == EndOfString(text)
           d == Decode(text)
<1>1. \A i \in 1 .. Len(text) : text[i] # "%00" /\ text[i] # "%26"
  BY DEF Places, Escapes
<1>2. e \in 0 .. Len(text) /\ (e < Len(text) => text[e + 1] = "%00")
  BY EndIs
<1>3. /\ d \in Seq(Chars) /\ Len(d) = e
      /\ \A i \in 1 .. e : d[i] = IF text[i] = "%26" THEN "&" ELSE text[i]
  BY DecodeIs
<1> HIDE DEF e, d
<1>4. e = Len(text)
  BY <1>1, <1>2
<1>5. \A i \in 1 .. Len(text) : d[i] = text[i]
  BY <1>1, <1>3, <1>4
<1>6. d = text
  BY <1>3, <1>4, <1>5
<1> QED BY <1>6 DEF d

-----------------------------------------------------------------------------
(* What is read of the array. *)

(* Once parsed, the array stays as it was made of the body.                *)
Made ==
  IF pc = "parse" THEN username = Nothing /\ password = Nothing
  ELSE strings = Pieces(Decode(body)) /\ len = ArrayLen(Decode(body))

(* A value that was taken is one yueah_get_form_val may return for the     *)
(* array as it is.                                                         *)
Looked(val, key) == val = Nothing \/ val \in FormVals(key)

(* The process dies for nothing else than what its memory may hold.        *)
Sound ==
  /\ TypeOK
  /\ Made
  /\ Looked(username, UsernameKey) /\ Looked(password, PasswordKey)
  /\ pc \in {"password", "connect"} => username # Nothing
  /\ pc = "died" => \E key \in Keys : MayDie(key)

LEMMA Decoded ==
  ASSUME TypeOK
  PROVE  /\ body \in Seq(Chars) /\ Decode(body) \in Seq(Chars)
         /\ Len(Decode(body)) \in 0 .. Len(body)
<1>1. body \in Seq(Chars)
  BY BodiesAreTexts DEF TypeOK
<1> QED BY <1>1, DecodeIs, EndIs

LEMMA KeyIs ==
  ASSUME NEW key \in Keys
  PROVE  /\ key \in Seq(Chars) /\ Len(key) \in Nat \ {0}
         /\ \A i \in 1 .. Len(key) : key[i] \notin Escapes \cup {"&"}
BY KeysAreTexts

(* What may be returned is a text, or out of memory nobody wrote.          *)
LEMMA ValsAreValues ==
  ASSUME TypeOK, Made, pc # "parse", NEW key \in Keys, NEW val \in FormVals(key)
  PROVE  val \in Values /\ val # Nothing
<1> DEFINE d == Decode(body)
<1>1. d \in Seq(Chars)
  BY Decoded
<1>2. CASE val = Garbage
  BY <1>2, NothingIsNoText DEF Values
<1>3. ASSUME NEW s \in KeyIndexes(key), val = Val(s, key)
      PROVE  val \in Seq(Chars)
  <2>1. s \in Spans(d, {"&"})
    BY DEF Made, Pieces, KeyIndexes
  <2>2. s[1] \in Nat /\ s[2] - 1 \in Nat /\ s[2] - 1 <= Len(d)
    BY <1>1, <2>1, SpanIs
  <2>3. s[1] + Len(key) + 2 \in Nat \ {0}
    BY <2>2, KeyIs
  <2> QED BY <1>1, <1>3, <2>2, <2>3, Part DEF Val
<1>4. ASSUME NEW s \in KeyIndexes(key), val = Val(s, key)
      PROVE  val \in Values /\ val # Nothing
  BY <1>3, <1>4, NothingIsNoText DEF Values
<1> QED BY <1>2, <1>4 DEF FormVals

(* What is read depends on the body and the array alone. *)
LEMMA SameArray ==
  ASSUME UNCHANGED <<body, strings, len>>, NEW key
  PROVE  FormVals(key)' = FormVals(key) /\ MayDie(key)' = MayDie(key)
<1> USE DEF FormVals, MayDie, KeyIndexes, MayMatch, MustMatch, TooShort, Val,
            Text, AllSet, IsFirst
<1>1. FormVals(key)' = FormVals(key)
  OBVIOUS
<1>2. MayDie(key)' = MayDie(key)
  OBVIOUS
<1> QED BY <1>1, <1>2

LEMMA InitSound == Init => Sound
<1> SUFFICES ASSUME Init PROVE Sound
  OBVIOUS
<1>1. strings \in SUBSET (Nat \X Nat) /\ Cardinality(strings) <= len
  BY FS_EmptySet DEF Init
<1>2. TypeOK
  BY <1>1 DEF Init, TypeOK, Values
<1> QED BY <1>2 DEF Init, Sound, Made, Looked

LEMMA ParseSound == ASSUME Sound, ParseFormBody PROVE Sound'
<1> DEFINE d == Decode(body)
<1>1. d \in Seq(Chars)
  BY Decoded DEF Sound
<1>2. /\ Pieces(d) \in SUBSET (Nat \X Nat)
      /\ Cardinality(Pieces(d)) <= ArrayLen(d) /\ ArrayLen(d) \in Nat
  BY <1>1, PiecesFit
<1>3. /\ strings' = Pieces(d) /\ len' = ArrayLen(d) /\ pc' = "username"
      /\ UNCHANGED <<body, username, password>>
      /\ username = Nothing /\ password = Nothing
  BY DEF ParseFormBody, Sound, Made
<1>4. TypeOK'
  BY <1>2, <1>3 DEF Sound, TypeOK
<1>5. Made'
  BY <1>3 DEF Made
<1> QED BY <1>3, <1>4, <1>5 DEF Sound, Looked

LEMMA GetUsernameSound == ASSUME Sound, GetUsername PROVE Sound'
<1>1. PICK val \in FormVals(UsernameKey) : username' = val
  BY DEF GetUsername
<1>2. /\ pc = "username" /\ pc' = "password"
      /\ UNCHANGED <<body, strings, len, password>>
  BY DEF GetUsername
<1>3. username' \in Values /\ username' # Nothing
  BY <1>1, <1>2, ValsAreValues DEF Sound, Keys
<1>4. TypeOK'
  BY <1>2, <1>3 DEF Sound, TypeOK
<1>5. Made'
  BY <1>2 DEF Sound, Made
<1> QED BY <1>1, <1>2, <1>3, <1>4, <1>5, SameArray DEF Sound, Looked

LEMMA GetPasswordSound == ASSUME Sound, GetPassword PROVE Sound'
<1>1. PICK val \in FormVals(PasswordKey) : password' = val
  BY DEF GetPassword
<1>2. /\ pc = "password" /\ pc' = "connect"
      /\ UNCHANGED <<body, strings, len, username>>
  BY DEF GetPassword
<1>3. password' \in Values /\ password' # Nothing
  BY <1>1, <1>2, ValsAreValues DEF Sound, Keys
<1>4. TypeOK'
  BY <1>2, <1>3 DEF Sound, TypeOK
<1>5. Made'
  BY <1>2 DEF Sound, Made
<1> QED BY <1>1, <1>2, <1>4, <1>5, SameArray DEF Sound, Looked

LEMMA DieSound ==
  ASSUME Sound, pc # "parse", NEW key \in Keys, Die(key)
  PROVE  Sound'
<1>1. /\ MayDie(key) /\ pc' = "died"
      /\ UNCHANGED <<body, strings, len, username, password>>
  BY DEF Die
<1>2. TypeOK'
  BY <1>1 DEF Sound, TypeOK
<1>3. Made'
  BY <1>1 DEF Sound, Made
<1>4. MayDie(key)'
  BY <1>1, SameArray
<1> QED BY <1>1, <1>2, <1>3, <1>4, SameArray DEF Sound, Looked, Keys

LEMMA StaySound == ASSUME Sound, UNCHANGED vars PROVE Sound'
<1>1. UNCHANGED <<body, strings, len, pc, username, password>>
  BY DEF vars
<1>2. TypeOK'
  BY <1>1 DEF Sound, TypeOK
<1>3. Made'
  BY <1>1 DEF Sound, Made
<1> QED BY <1>1, <1>2, <1>3, SameArray DEF Sound, Looked, Keys

LEMMA AlwaysSound == Spec => []Sound
<1>1. ASSUME Sound, [Next]_vars PROVE Sound'
  <2>1. CASE pc = "username" /\ Die(UsernameKey)
    BY <1>1, <2>1, DieSound DEF Keys
  <2>2. CASE pc = "password" /\ Die(PasswordKey)
    BY <1>1, <2>2, DieSound DEF Keys
  <2> QED
    BY <1>1, <2>1, <2>2, ParseSound, GetUsernameSound, GetPasswordSound,
       StaySound DEF Next
<1> QED BY <1>1, InitSound, PTL DEF Spec

-----------------------------------------------------------------------------
(* The value of a key. *)

(* Where every entry was set, and one begins with the key, one that is     *)
(* settled on and long enough does.                                        *)
LEMMA SettledBegins ==
  ASSUME NEW key, Begins(key) # {}, NEW s \in KeyIndexes(key), ~TooShort(s, key),
         Size(s) \in Int, Len(key) \in Nat
  PROVE  s \in Begins(key)
<1>1. PICK b \in strings : MustMatch(b, key)
  BY DEF Begins, MustMatch
<1>2. s \in strings /\ MayMatch(s, key)
  BY <1>1 DEF KeyIndexes
<1>3. MustMatch(s, key)
  BY <1>2 DEF MayMatch, TooShort
<1> QED BY <1>2, <1>3 DEF Begins, MustMatch

(* So is the value that was found. *)
LEMMA LookedBegins ==
  ASSUME Sound, pc # "parse", AllSet, NEW key \in Keys, Begins(key) # {},
         NEW val, val # Nothing, Looked(val, key)
  PROVE  val \in {Val(s, key) : s \in Begins(key)}
<1>1. PICK s \in KeyIndexes(key) : ~TooShort(s, key) /\ val = Val(s, key)
  BY DEF Looked, FormVals
<1>2. s \in Spans(Decode(body), {"&"})
  BY DEF Sound, Made, Pieces, KeyIndexes
<1>3. Size(s) \in Int
  BY <1>2, Decoded, SpanIs DEF Size, Sound
<1>4. s \in Begins(key)
  BY <1>1, <1>3, KeyIs, SettledBegins
<1> QED BY <1>1, <1>4

(* The field that carries a key is a string of the array, up to its first  *)
(* escape, when no zero ends the body before.                              *)
LEMMA HeadIsPiece ==
  ASSUME TypeOK, NEW key \in Keys, NEW s \in Carriers(key), ~Hidden(s)
  PROVE  \E p \in Pieces(Decode(body)) :
           IsPrefix(key, Text(p)) /\ Val(p, key) = Sent(s, key)
<1> DEFINE d == Decode(body)
           e == Len(d)
           C == Escapes \cup {"&"}
           name == key \o <<"=">>
           k == Len(key)
<1>1. /\ body \in Seq(Chars) /\ d \in Seq(Chars) /\ e \in 0 .. Len(body)
      /\ Len(body) \in Nat /\ e \in Nat
  BY Decoded
<1>2. /\ e < Len(body) => body[e + 1] = "%00"
      /\ \A i \in 1 .. e : body[i] # "%00"
      /\ \A i \in 1 .. e : d[i] = IF body[i] = "%26" THEN "&" ELSE body[i]
  BY <1>1, DecodeIs, EndIs
<1>3. /\ s[1] \in 0 .. Len(body) /\ s[2] \in 1 .. (Len(body) + 1) /\ s[1] < s[2]
      /\ s[2] \in Cuts(body, C) /\ s[1] \in Cuts(body, {"&"})
      /\ \A i \in (s[1] + 1) .. (s[2] - 1) : body[i] \notin C
      /\ IsPrefix(name, Between(body, s))
  BY <1>1, SpanIs DEF Carriers, Heads
<1>4. /\ C = {"%26", "%00", "&"}
  BY DEF Escapes
<1>5. \A i \in 1 .. s[1] : body[i] # "%00"
  BY DEF Hidden
<1>6. /\ \A i \in 1 .. Len(body) : i \in Cuts(body, {"&"}) <=> body[i] = "&"
      /\ \A i \in 1 .. Len(body) : i \in Cuts(body, C) <=> body[i] \in C
      /\ \A i \in 1 .. e : i \in Cuts(d, {"&"}) <=> d[i] = "&"
      /\ Cuts(d, {"&"}) \subseteq 0 .. (e + 1) /\ 0 \in Cuts(d, {"&"})
  BY <1>1, CutsAre
<1> HIDE DEF d, e, C, name, k
<1>7. s[1] <= e
  BY <1>1, <1>2, <1>3, <1>5
<1>8. s[1] \in Cuts(d, {"&"})
  <2>1. CASE s[1] = 0
    BY <2>1, <1>6
  <2>2. CASE s[1] # 0
    <3>1. s[1] \in 1 .. e /\ s[1] \in 1 .. Len(body)
      BY <1>1, <1>3, <1>7, <2>2
    <3>2. body[s[1]] = "&"
      BY <3>1, <1>3, <1>6
    <3>3. d[s[1]] = "&"
      BY <3>1, <3>2, <1>2
    <3> QED BY <3>1, <3>3, <1>6
  <2> QED BY <2>1, <2>2
<1>9. PICK p \in Spans(d, {"&"}) : p[1] = s[1]
  BY <1>1, <1>7, <1>8, SpanFrom DEF e
<1>10. /\ p[2] \in 1 .. (e + 1) /\ p[1] < p[2] /\ p[2] \in Cuts(d, {"&"})
       /\ \A c \in Cuts(d, {"&"}) : c <= p[1] \/ p[2] <= c
  BY <1>1, SpanIs DEF e
<1>11. ~(p[2] < s[2])
  <2> SUFFICES ASSUME p[2] < s[2] PROVE FALSE
    OBVIOUS
  <2>1. p[2] \in (s[1] + 1) .. (s[2] - 1) /\ p[2] \in 1 .. Len(body)
    BY <1>1, <1>3, <1>9, <1>10
  <2>2. body[p[2]] \notin C
    BY <2>1, <1>3
  <2>3. CASE p[2] <= e
    <3>1. p[2] \in 1 .. e
      BY <1>1, <1>10, <2>3
    <3>2. d[p[2]] = "&"
      BY <3>1, <1>6, <1>10
    <3> QED BY <3>1, <3>2, <2>2, <1>2, <1>4
  <2>4. CASE ~(p[2] <= e)
    <3>1. p[2] = e + 1 /\ e < Len(body)
      BY <1>1, <1>3, <1>10, <2>1, <2>4
    <3> QED BY <3>1, <2>2, <1>2, <1>4
  <2> QED BY <2>3, <2>4
<1>12. ~(s[2] < p[2])
  <2> SUFFICES ASSUME s[2] < p[2] PROVE FALSE
    OBVIOUS
  <2>1. s[2] \in 1 .. e /\ s[2] \in 1 .. Len(body)
    BY <1>1, <1>3, <1>10
  <2>2. body[s[2]] \in C
    BY <2>1, <1>3, <1>6
  <2>3. body[s[2]] \in {"%26", "&"}
    BY <2>1, <2>2, <1>2, <1>4
  <2>4. d[s[2]] = "&"
    BY <2>1, <2>3, <1>2
  <2>5. s[2] \in Cuts(d, {"&"})
    BY <2>1, <2>4, <1>6
  <2>6. s[2] <= p[1] \/ p[2] <= s[2]
    BY <2>5, <1>10
  <2> QED BY <2>6, <1>1, <1>3, <1>9, <1>10
<1>13. p[2] = s[2]
  BY <1>1, <1>3, <1>10, <1>11, <1>12
<1>14. /\ s[1] + 1 \in Nat \ {0} /\ s[2] - 1 \in Nat
       /\ s[2] - 1 <= Len(body) /\ s[2] - 1 <= e
  BY <1>1, <1>3, <1>10, <1>13
<1>15. ASSUME NEW i \in (s[1] + 1) .. (s[2] - 1) PROVE d[i] = body[i]
  <2>1. i \in 1 .. e
    BY <1>1, <1>3, <1>14
  <2>2. body[i] # "%26"
    BY <1>3, <1>4
  <2> QED BY <2>1, <2>2, <1>2
<1>16. Text(p) = Between(body, s)
  <2>1. SubSeq(d, s[1] + 1, s[2] - 1) = SubSeq(body, s[1] + 1, s[2] - 1)
    BY <1>1, <1>14, <1>15, SamePart DEF e
  <2> QED BY <2>1, <1>9, <1>13 DEF Text, Between, d
<1>17. /\ k \in Nat \ {0} /\ key \in Seq(Chars) /\ name \in Seq(Chars)
       /\ Len(name) = k + 1 /\ \A i \in 1 .. k : name[i] = key[i]
  BY KeyIs, CharsAreTold DEF name, k
<1> DEFINE str == Between(body, s)
<1>18. /\ str \in Seq(Chars)
       /\ Len(str) = IF s[1] + 1 <= s[2] - 1 THEN s[2] - 1 - (s[1] + 1) + 1 ELSE 0
  BY <1>1, <1>14, Part DEF Between
<1>19. Len(name) <= Len(str) /\ \A i \in 1 .. Len(name) : str[i] = name[i]
  BY <1>3, <1>17, <1>18, PrefixIs
<1> HIDE DEF str
<1>20. k < Len(str) /\ \A i \in 1 .. k : str[i] = key[i]
  BY <1>17, <1>18, <1>19
<1>21. IsPrefix(key, str)
  BY <1>17, <1>18, <1>20, PrefixIs DEF k
<1>22. s[2] - s[1] - 1 > k
  BY <1>3, <1>17, <1>18, <1>20
<1>23. p \in Pieces(d)
  BY <1>3, <1>9, <1>13, <1>17, <1>22 DEF Pieces, Size
<1>24. s[1] + k + 2 \in Nat \ {0}
       /\ \A i \in (s[1] + k + 2) .. (s[2] - 1) : i \in (s[1] + 1) .. (s[2] - 1)
  BY <1>3, <1>17
<1>25. SubSeq(d, s[1] + k + 2, s[2] - 1) = SubSeq(body, s[1] + k + 2, s[2] - 1)
  <2>1. \A i \in (s[1] + k + 2) .. (s[2] - 1) : d[i] = body[i]
    BY <1>15, <1>24
  <2> DEFINE a == s[1] + k + 2
             b == s[2] - 1
  <2>2. a \in Nat \ {0} /\ b \in Nat /\ b <= Len(body) /\ b <= Len(d)
    BY <1>14, <1>24 DEF e
  <2>3. \A i \in a .. b : d[i] = body[i]
    BY <2>1
  <2> HIDE DEF a, b
  <2>4. SubSeq(d, a, b) = SubSeq(body, a, b)
    BY <1>1, <2>2, <2>3, SamePart
  <2> QED BY <2>4 DEF a, b
<1>26. Val(p, key) = Sent(s, key)
  BY <1>9, <1>13, <1>25 DEF Val, Sent, d, k
<1> QED BY <1>16, <1>21, <1>23, <1>26 DEF d, str

(* What was found under a key one field carries is what that field holds.  *)
LEMMA LookedOwn ==
  ASSUME Sound, pc # "parse", AllSet, NEW key \in Keys, NEW s \in Carriers(key),
         ~Hidden(s), Cardinality(Begins(key)) = 1,
         NEW val, val # Nothing, Looked(val, key)
  PROVE  val = Sent(s, key)
<1>1. PICK p \in Pieces(Decode(body)) :
        IsPrefix(key, Text(p)) /\ Val(p, key) = Sent(s, key)
  BY HeadIsPiece DEF Sound
<1>2. p \in Begins(key)
  BY <1>1 DEF Sound, Made, Begins
<1>3. PICK q \in Begins(key) : val = Val(q, key)
  BY <1>2, LookedBegins
<1>4. IsFiniteSet(Begins(key))
  <2>1. IsFiniteSet(strings)
    BY Decoded, PiecesFit DEF Sound, Made
  <2> QED BY <2>1, FS_Subset DEF Begins
<1>5. p = q
  BY <1>2, <1>3, <1>4, FS_Singleton
<1> QED BY <1>1, <1>3, <1>5

-----------------------------------------------------------------------------
(* The theorems. *)

(* Every value the handlers hold is a text, one they have not asked for,   *)
(* or garbage; the pieces of a body always fit into the array made for     *)
(* them (yueah_parse_form_body, response.c:219-237).                       *)
THEOREM FormTypeCorrect == Spec => []TypeOK
BY AlwaysSound, PTL DEF Sound

(* Wherever every field of the body was set and one begins with the key,   *)
(* the value a handler goes on with is that of such a field and never the  *)
(* first one's for want of it (yueah_get_form_val, response.c:262-272).    *)
THEOREM ValuesAreOfKeys == Spec => []ValueOfKey
<1>1. ASSUME Sound PROVE ValueOfKey
  <2>1. pc = "parse" => username = Nothing /\ password = Nothing
    BY <1>1 DEF Sound, Made
  <2> QED
    BY <1>1, <2>1, LookedBegins DEF Sound, ValueOfKey, Keys
<1> QED BY <1>1, AlwaysSound, PTL

(* A value is what the client sent under that name, up to its first        *)
(* escaped ampersand or zero, when one field carries the name and nothing  *)
(* else in the decoded body begins with it (url.c:6, response.c:208-274).  *)
THEOREM ValuesAreOwn == Spec => []OwnValue
<1>1. ASSUME Sound PROVE OwnValue
  <2>1. pc = "parse" => username = Nothing /\ password = Nothing
    BY <1>1 DEF Sound, Made
  <2>2. Looked(username, UsernameKey) /\ Looked(password, PasswordKey)
    BY <1>1 DEF Sound
  <2> QED
    BY <1>1, <2>1, <2>2, LookedOwn DEF OwnValue, Keys
<1> QED BY <1>1, AlwaysSound, PTL

(* A form whose fields are all there, without escapes, and longer than     *)
(* either key is read without a step outside of it: none of its strings is *)
(* too short, and no entry was left unset (response.c:219-276).            *)
THEOREM WholeFormsSurvive == Spec => []Survives
<1>1. ASSUME Sound PROVE Survives
  <2> SUFFICES ASSUME Places(body, Escapes) = {}, pc = "died",
                      \A s \in Spans(body, {"&"}), key \in Keys : Size(s) > Len(key)
               PROVE  FALSE
    BY DEF Survives
  <2>1. body \in Seq(Chars) /\ Decode(body) = body
    BY <1>1, Decoded, DecodePlain DEF Sound
  <2>2. strings = Pieces(body) /\ len = ArrayLen(body)
    BY <1>1, <2>1 DEF Sound, Made
  <2>3. ASSUME NEW s \in Spans(body, {"&"}), NEW key \in Keys
        PROVE  Size(s) > 0 /\ ~TooShort(s, key)
    <3>1. Size(s) > Len(key) /\ Len(key) \in Nat
      BY KeyIs
    <3>2. Size(s) \in Int
      BY <2>1, SpanIs DEF Size
    <3> QED BY <3>1, <3>2 DEF TooShort
  <2>4. AllSet
    BY <2>1, <2>2, <2>3, PiecesFit DEF AllSet, Keys
  <2>5. PICK key \in Keys : MayDie(key)
    BY <1>1 DEF Sound
  <2>6. PICK s \in strings : TooShort(s, key)
    BY <2>4, <2>5 DEF MayDie, KeyIndexes
  <2> QED BY <2>2, <2>3, <2>6 DEF Pieces
<1> QED BY <1>1, AlwaysSound, PTL
=============================================================================
