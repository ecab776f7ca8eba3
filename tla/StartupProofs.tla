--------------------------- MODULE StartupProofs ---------------------------
(***************************************************************************)
(* Theorems about Startup, for every number of processes, starts and       *)
(* saves, and every choice of texts, arguments and environments.           *)
(***************************************************************************)
EXTENDS Startup, SequenceTheorems, WellFoundedInduction, TLAPS

-----------------------------------------------------------------------------
(* Texts, and where a character is found in them. *)

(* The least of some numbers. *)
LEMMA Least ==
  ASSUME NEW T, T \subseteq Nat, T # {}
  PROVE  \E m \in T : \A k \in T : m <= k
<1> DEFINE R == {ss \in Nat \X Nat : ss[1] < ss[2]}
<1>1. IsWellFoundedOn(R, Nat)
  BY NatLessThanWellFounded DEF OpToRel
<1>2. PICK m \in T : \A y \in T : ~(<<y, m>> \in R)
  BY <1>1, WFMin
<1>3. ASSUME NEW k \in T PROVE m <= k
  <2>1. ~(<<k, m>> \in R) /\ k \in Nat /\ m \in Nat
    BY <1>2
  <2> QED BY <2>1
<1> QED BY <1>3

LEMMA LeastIndex ==
  ASSUME NEW T, T \subseteq Nat, T # {}
  PROVE  Min(T) \in T /\ \A k \in T : Min(T) <= k
<1>1. PICK m \in T : \A k \in T : m <= k
  BY Least
<1> QED BY <1>1 DEF Min

LEMMA GreatestIndex ==
  ASSUME NEW n \in Nat, NEW T, T \subseteq 1 .. n, T # {}
  PROVE  Max(T) \in T /\ \A k \in T : k <= Max(T)
<1> DEFINE D == {d \in Nat : n - d \in T}
<1>1. D # {}
  <2>1. PICK k \in T : TRUE
    OBVIOUS
  <2>2. n - k \in Nat /\ n - (n - k) = k
    BY <2>1
  <2> QED BY <2>1, <2>2
<1>2. PICK d \in D : \A k \in D : d <= k
  BY <1>1, Least
<1>3. n - d \in T
  BY <1>2
<1>4. ASSUME NEW k \in T PROVE k <= n - d
  <2>1. k \in 1 .. n /\ n - k \in Nat /\ n - (n - k) = k
    OBVIOUS
  <2>2. d <= n - k
    BY <1>2, <2>1
  <2> QED BY <2>1, <2>2
<1> QED BY <1>3, <1>4 DEF Max

LEMMA FirstInIs ==
  ASSUME NEW str \in Seq(STRING), NEW C
  PROVE  LET i == FirstIn(str, C) IN
         /\ i \in 0 .. Len(str)
         /\ i = 0 => \A k \in 1 .. Len(str) : str[k] \notin C
         /\ i # 0 => str[i] \in C /\ \A k \in 1 .. (i - 1) : str[k] \notin C
<1> DEFINE I == {k \in 1 .. Len(str) : str[k] \in C}
<1>1. FirstIn(str, C) = IF I # {} THEN Min(I) ELSE 0
  BY DEF FirstIn, SelectInSeq
<1>2. CASE I = {}
  BY <1>1, <1>2
<1>3. CASE I # {}
  <2>0. I \subseteq Nat /\ Len(str) \in Nat
    OBVIOUS
  <2> HIDE DEF I
  <2>1. Min(I) \in I /\ \A k \in I : Min(I) <= k
    BY <2>0, <1>3, LeastIndex
  <2> DEFINE i == Min(I)
  <2>2. i \in 1 .. Len(str) /\ str[i] \in C
    BY <2>0, <2>1 DEF I
  <2>3. ASSUME NEW k \in 1 .. (i - 1) PROVE str[k] \notin C
    <3>1. k \in 1 .. Len(str) /\ ~(i <= k)
      BY <2>0, <2>2
    <3> QED BY <3>1, <2>1 DEF I
  <2> QED BY <1>1, <1>3, <2>2, <2>3
<1> QED BY <1>2, <1>3

LEMMA FirstNotInIs ==
  ASSUME NEW str \in Seq(STRING), NEW C
  PROVE  LET i == FirstNotIn(str, C) IN
         /\ i \in 0 .. Len(str)
         /\ i = 0 => \A k \in 1 .. Len(str) : str[k] \in C
         /\ i # 0 => str[i] \notin C /\ \A k \in 1 .. (i - 1) : str[k] \in C
<1> DEFINE I == {k \in 1 .. Len(str) : str[k] \notin C}
<1>1. FirstNotIn(str, C) = IF I # {} THEN Min(I) ELSE 0
  BY DEF FirstNotIn, SelectInSeq
<1>2. CASE I = {}
  BY <1>1, <1>2
<1>3. CASE I # {}
  <2>0. I \subseteq Nat /\ Len(str) \in Nat
    OBVIOUS
  <2> HIDE DEF I
  <2>1. Min(I) \in I /\ \A k \in I : Min(I) <= k
    BY <2>0, <1>3, LeastIndex
  <2> DEFINE i == Min(I)
  <2>2. i \in 1 .. Len(str) /\ str[i] \notin C
    BY <2>0, <2>1 DEF I
  <2>3. ASSUME NEW k \in 1 .. (i - 1) PROVE str[k] \in C
    <3>1. k \in 1 .. Len(str) /\ ~(i <= k)
      BY <2>0, <2>2
    <3> QED BY <3>1, <2>1 DEF I
  <2> QED BY <1>1, <1>3, <2>2, <2>3
<1> QED BY <1>2, <1>3

LEMMA LastNotInIs ==
  ASSUME NEW str \in Seq(STRING), NEW C
  PROVE  LET i == LastNotIn(str, C) IN
         /\ i \in 0 .. Len(str)
         /\ i = 0 => \A k \in 1 .. Len(str) : str[k] \in C
         /\ i # 0 => str[i] \notin C /\ \A k \in (i + 1) .. Len(str) : str[k] \in C
<1> DEFINE I == {k \in 1 .. Len(str) : str[k] \notin C}
<1>1. LastNotIn(str, C) = IF I # {} THEN Max(I) ELSE 0
  BY DEF LastNotIn, SelectLastInSeq
<1>2. CASE I = {}
  BY <1>1, <1>2
<1>3. CASE I # {}
  <2>0. I \subseteq 1 .. Len(str) /\ Len(str) \in Nat
    OBVIOUS
  <2> HIDE DEF I
  <2>1. Max(I) \in I /\ \A k \in I : k <= Max(I)
    BY <2>0, <1>3, GreatestIndex
  <2> DEFINE i == Max(I)
  <2>2. i \in 1 .. Len(str) /\ str[i] \notin C
    BY <2>0, <2>1 DEF I
  <2>3. ASSUME NEW k \in (i + 1) .. Len(str) PROVE str[k] \in C
    <3>1. k \in 1 .. Len(str) /\ ~(k <= i)
      BY <2>0, <2>2
    <3> QED BY <3>1, <2>1 DEF I
  <2> QED BY <1>1, <1>3, <2>2, <2>3
<1> QED BY <1>2, <1>3

(* A part of a text. *)
LEMMA PartOf ==
  ASSUME NEW A, NEW str \in Seq(A), NEW a \in Nat \ {0}, NEW b \in Nat,
         a <= b + 1, b <= Len(str)
  PROVE  /\ SubSeq(str, a, b) \in Seq(A)
         /\ Len(SubSeq(str, a, b)) = b - a + 1
         /\ \A i \in 1 .. (b - a + 1) : SubSeq(str, a, b)[i] = str[a + i - 1]
<1>1. \A i \in a .. b : i \in 1 .. Len(str)
  OBVIOUS
<1>2. \A i \in a .. b : str[i] \in A
  BY <1>1
<1> QED BY <1>1, <1>2, SubSeqProperties

LEMMA Part ==
  ASSUME NEW str \in Seq(STRING), NEW a \in Nat \ {0}, NEW b \in Nat,
         a <= b + 1, b <= Len(str)
  PROVE  /\ SubSeq(str, a, b) \in Seq(STRING)
         /\ Len(SubSeq(str, a, b)) = b - a + 1
         /\ \A i \in 1 .. (b - a + 1) : SubSeq(str, a, b)[i] = str[a + i - 1]
BY PartOf

LEMMA PartOfPart ==
  ASSUME NEW str \in Seq(STRING), NEW a \in Nat \ {0}, NEW b \in Nat,
         NEW c \in Nat \ {0}, NEW d \in Nat,
         a <= b + 1, b <= Len(str), c <= d + 1, d <= b - a + 1
  PROVE  SubSeq(SubSeq(str, a, b), c, d) = SubSeq(str, a + c - 1, a + d - 1)
<1> DEFINE p == SubSeq(str, a, b)
           q == SubSeq(p, c, d)
           r == SubSeq(str, a + c - 1, a + d - 1)
<1>1. p \in Seq(STRING) /\ Len(p) = b - a + 1
      /\ \A i \in 1 .. (b - a + 1) : p[i] = str[a + i - 1]
  BY Part
<1>2. q \in Seq(STRING) /\ Len(q) = d - c + 1
      /\ \A i \in 1 .. (d - c + 1) : q[i] = p[c + i - 1]
  BY <1>1, Part
<1>3. /\ a + c - 1 \in Nat \ {0} /\ a + d - 1 \in Nat
      /\ a + c - 1 <= (a + d - 1) + 1 /\ a + d - 1 <= Len(str)
      /\ (a + d - 1) - (a + c - 1) + 1 = d - c + 1
  OBVIOUS
<1>4. r \in Seq(STRING) /\ Len(r) = d - c + 1
      /\ \A i \in 1 .. (d - c + 1) : r[i] = str[a + c - 1 + i - 1]
  BY <1>3, Part
<1>5. \A i \in 1 .. (d - c + 1) : c + i - 1 \in 1 .. (b - a + 1)
  OBVIOUS
<1> HIDE DEF p, q, r
<1>6. ASSUME NEW i \in 1 .. (d - c + 1) PROVE q[i] = r[i]
  <2>1. q[i] = p[c + i - 1] /\ p[c + i - 1] = str[a + (c + i - 1) - 1]
    BY <1>1, <1>2, <1>5
  <2>2. a + (c + i - 1) - 1 = a + c - 1 + i - 1
    OBVIOUS
  <2> QED BY <2>1, <2>2, <1>4
<1>7. q = r
  BY <1>2, <1>4, <1>6, SeqEqual
<1> QED BY <1>7 DEF p, q, r

(* What finds a character finds it where it is. *)
LEMMA FoundFirst ==
  ASSUME NEW str \in Seq(STRING), NEW C, NEW i \in 1 .. Len(str),
         str[i] \in C, \A k \in 1 .. (i - 1) : str[k] \notin C
  PROVE  FirstIn(str, C) = i
<1> DEFINE f == FirstIn(str, C)
<1>1. /\ f \in 0 .. Len(str)
      /\ f = 0 => \A k \in 1 .. Len(str) : str[k] \notin C
      /\ f # 0 => str[f] \in C /\ \A k \in 1 .. (f - 1) : str[k] \notin C
  BY FirstInIs
<1> HIDE DEF f
<1>2. ~(f < i /\ f # 0) /\ ~(i < f) /\ f # 0
  BY <1>1
<1> QED BY <1>1, <1>2 DEF f

LEMMA FoundLast ==
  ASSUME NEW str \in Seq(STRING), NEW C, NEW i \in 1 .. Len(str),
         str[i] \notin C, \A k \in (i + 1) .. Len(str) : str[k] \in C
  PROVE  LastNotIn(str, C) = i
<1> DEFINE f == LastNotIn(str, C)
<1>1. /\ f \in 0 .. Len(str)
      /\ f = 0 => \A k \in 1 .. Len(str) : str[k] \in C
      /\ f # 0 => str[f] \notin C /\ \A k \in (f + 1) .. Len(str) : str[k] \in C
  BY LastNotInIs
<1> HIDE DEF f
<1>2. ~(f < i /\ f # 0) /\ ~(i < f) /\ f # 0
  BY <1>1
<1> QED BY <1>1, <1>2 DEF f

(* Text that begins with no white space is stripped by trim. *)
LEMMA TrimStrips ==
  ASSUME NEW str \in Seq(STRING), str # <<>>, str[1] \notin Space
  PROVE  Stripped(str) = Trim(str)
<1>1. Len(str) \in Nat /\ 1 \in 1 .. Len(str)
  BY EmptySeq
<1>2. FirstNotIn(str, Space) = 1
  <2> DEFINE f == FirstNotIn(str, Space)
  <2>1. /\ f \in 0 .. Len(str)
        /\ f = 0 => \A k \in 1 .. Len(str) : str[k] \in Space
        /\ f # 0 => \A k \in 1 .. (f - 1) : str[k] \in Space
    BY FirstNotInIs
  <2> HIDE DEF f
  <2>2. f # 0 /\ ~(1 < f)
    BY <1>1, <2>1
  <2> QED BY <2>1, <2>2 DEF f
<1> DEFINE l == LastNotIn(str, Space)
<1>3. l # 0
  BY <1>1, LastNotInIs
<1>4. Stripped(str) = SubSeq(str, 1, l)
  <2>1. Stripped(str) = IF FirstNotIn(str, Space) = 0 THEN <<>>
                        ELSE SubSeq(str, FirstNotIn(str, Space), l)
    BY DEF Stripped
  <2> HIDE DEF l
  <2> QED BY <1>2, <2>1
<1>5. Trim(str) = SubSeq(str, 1, IF l = 0 THEN 1 ELSE l)
  BY DEF Trim
<1> HIDE DEF l
<1> QED BY <1>3, <1>4, <1>5

(* Where the parts of a line lie. *)
LEMMA LineParts ==
  ASSUME NEW line \in Seq(STRING), IsLine(line)
  PROVE  /\ Len(line) \in Nat \ {0} /\ line # <<>>
         /\ EqualsAt(line) \in 0 .. Len(line)
         /\ EqualsAt(line) = 0 => \A k \in 1 .. Len(line) : line[k] # "="
         /\ EqualsAt(line) # 0 => line[EqualsAt(line)] = "="
                /\ \A k \in 1 .. (EqualsAt(line) - 1) : line[k] # "="
         /\ EqualsAt(line) > 1 =>
              \E end \in (EqualsAt(line) + 1) .. (Len(line) + 1) :
                /\ ValuePart(line) = SubSeq(line, EqualsAt(line) + 1, end - 1)
                /\ \A k \in end .. Len(line) : line[k] = "\n"
                /\ end \in {Len(line), Len(line) + 1}
                /\ \A k \in (EqualsAt(line) + 1) .. (end - 1) : line[k] # "\n"
<1>1. Len(line) \in Nat \ {0} /\ line # <<>>
  BY EmptySeq DEF IsLine
<1> DEFINE eq == EqualsAt(line)
           C == {"="}
<1>2. /\ eq \in 0 .. Len(line)
      /\ eq = 0 => \A k \in 1 .. Len(line) : line[k] # "="
      /\ eq # 0 => line[eq] = "=" /\ \A k \in 1 .. (eq - 1) : line[k] # "="
  <2>1. LET i == FirstIn(line, C) IN
         /\ i \in 0 .. Len(line)
         /\ i = 0 => \A k \in 1 .. Len(line) : line[k] \notin C
         /\ i # 0 => line[i] \in C /\ \A k \in 1 .. (i - 1) : line[k] \notin C
    BY FirstInIs
  <2>2. eq = FirstIn(line, C)
    BY DEF EqualsAt
  <2> QED BY <2>1, <2>2
<1>3. ASSUME eq > 1
      PROVE  \E end \in (eq + 1) .. (Len(line) + 1) :
                /\ ValuePart(line) = SubSeq(line, eq + 1, end - 1)
                /\ \A k \in end .. Len(line) : line[k] = "\n"
                /\ end \in {Len(line), Len(line) + 1}
                /\ \A k \in (eq + 1) .. (end - 1) : line[k] # "\n"
  <2> DEFINE rest == SubSeq(line, eq + 1, Len(line))
             N == {"\n"}
             e == FirstIn(rest, N)
  <2>0. ValuePart(line) = IF e = 0 THEN rest ELSE SubSeq(rest, 1, e - 1)
    <3>1. ~(EqualsAt(line) <= 1)
      BY <1>2, <1>3
    <3> QED BY <3>1 DEF ValuePart
  <2> HIDE DEF eq
  <2>1. eq \in Nat \ {0} /\ eq + 1 \in Nat \ {0} /\ eq + 1 <= Len(line) + 1
    BY <1>1, <1>2, <1>3
  <2>2. /\ rest \in Seq(STRING) /\ Len(rest) = Len(line) - (eq + 1) + 1
        /\ \A i \in 1 .. (Len(line) - (eq + 1) + 1) : rest[i] = line[eq + 1 + i - 1]
    BY <2>1, <1>1, Part
  <2> DEFINE m == Len(line) - eq
  <2>3. /\ m \in Nat /\ Len(rest) = m /\ \A i \in 1 .. m : rest[i] = line[eq + i]
    BY <2>1, <2>2, <1>1
  <2> HIDE DEF rest
  <2>4. /\ e \in 0 .. m
        /\ e = 0 => \A k \in 1 .. m : rest[k] \notin N
        /\ e # 0 => rest[e] \in N /\ \A k \in 1 .. (e - 1) : rest[k] \notin N
    BY <2>2, <2>3, FirstInIs
  <2> HIDE DEF e
  <2>5. CASE e = 0
    <3>1. \A k \in (eq + 1) .. Len(line) : line[k] # "\n"
      <4> TAKE k \in (eq + 1) .. Len(line)
      <4>1. k - eq \in 1 .. m /\ eq + (k - eq) = k
        BY <2>1, <1>1
      <4> QED BY <4>1, <2>3, <2>4, <2>5
    <3>2. Len(line) + 1 \in (eq + 1) .. (Len(line) + 1) /\ (Len(line) + 1) - 1 = Len(line)
      BY <2>1, <1>1
    <3>3. ValuePart(line) = SubSeq(line, eq + 1, (Len(line) + 1) - 1)
      BY <2>0, <2>5, <3>2 DEF rest
    <3>4. \A k \in (Len(line) + 1) .. Len(line) : line[k] = "\n"
      BY <1>1
    <3>5. \A k \in (eq + 1) .. ((Len(line) + 1) - 1) : line[k] # "\n"
      BY <3>1, <3>2
    <3> QED BY <3>2, <3>3, <3>4, <3>5
  <2>6. CASE e # 0
    <3>1. rest[e] = line[eq + e] /\ line[eq + e] = "\n" /\ eq + e \in 1 .. Len(line)
      BY <2>1, <2>3, <2>4, <2>6, <1>1
    <3>2. eq + e = Len(line)
      <4>1. ~(eq + e \in 1 .. (Len(line) - 1))
        BY <3>1 DEF IsLine
      <4> QED BY <4>1, <3>1, <1>1
    <3>3. SubSeq(rest, 1, e - 1) = SubSeq(line, (eq + 1) + 1 - 1, (eq + 1) + (e - 1) - 1)
      BY <2>1, <2>3, <2>4, <2>6, <1>1, PartOfPart DEF rest
    <3>4. (eq + 1) + 1 - 1 = eq + 1 /\ (eq + 1) + (e - 1) - 1 = Len(line) - 1
      BY <3>2, <2>1, <2>4, <1>1
    <3>5. ValuePart(line) = SubSeq(line, eq + 1, Len(line) - 1)
      BY <2>0, <2>6, <3>3, <3>4
    <3>6. \A k \in (eq + 1) .. (Len(line) - 1) : line[k] # "\n"
      BY <2>1, <1>1 DEF IsLine
    <3>7. Len(line) \in (eq + 1) .. (Len(line) + 1)
      BY <3>2, <2>1, <2>4, <2>6
    <3>8. \A k \in Len(line) .. Len(line) : line[k] = "\n"
      BY <3>1, <3>2
    <3> QED BY <3>5, <3>6, <3>7, <3>8
  <2> QED BY <2>4, <2>5, <2>6
<1> QED BY <1>1, <1>2, <1>3

(* What is left of a text without the white space around it.               *)
LEMMA StrippedIs ==
  ASSUME NEW str \in Seq(STRING)
  PROVE  \/ Stripped(str) = <<>> /\ \A k \in 1 .. Len(str) : str[k] \in Space
         \/ \E f, l \in 1 .. Len(str) :
              /\ f <= l /\ Stripped(str) = SubSeq(str, f, l)
              /\ str[f] \notin Space /\ \A k \in 1 .. (f - 1) : str[k] \in Space
              /\ str[l] \notin Space
              /\ \A k \in (l + 1) .. Len(str) : str[k] \in Space
<1> DEFINE n == Len(str)
           f == FirstNotIn(str, Space)
           l == LastNotIn(str, Space)
<1>1. /\ f \in 0 .. n
      /\ f = 0 => \A k \in 1 .. n : str[k] \in Space
      /\ f # 0 => str[f] \notin Space /\ \A k \in 1 .. (f - 1) : str[k] \in Space
  BY FirstNotInIs
<1>2. /\ l \in 0 .. n
      /\ l = 0 => \A k \in 1 .. n : str[k] \in Space
      /\ l # 0 => str[l] \notin Space /\ \A k \in (l + 1) .. n : str[k] \in Space
  BY LastNotInIs
<1>3. Stripped(str) = IF f = 0 THEN <<>> ELSE SubSeq(str, f, l)
  BY DEF Stripped
<1>4. n \in Nat
  OBVIOUS
<1> HIDE DEF n, f, l
<1>5. CASE f = 0
  BY <1>1, <1>3, <1>5 DEF n
<1>6. CASE f # 0
  <2>1. f \in 1 .. n /\ l # 0 /\ ~(l < f)
    BY <1>1, <1>2, <1>4, <1>6
  <2>2. f \in 1 .. n /\ l \in 1 .. n /\ f <= l /\ Stripped(str) = SubSeq(str, f, l)
    BY <1>2, <1>3, <1>4, <2>1
  <2> QED BY <1>1, <1>2, <1>6, <2>1, <2>2 DEF n
<1> QED BY <1>5, <1>6

LEMMA StrippedBetween ==
  ASSUME NEW str \in Seq(STRING), NEW f \in 1 .. Len(str), NEW l \in 1 .. Len(str),
         str[f] \notin Space, \A k \in 1 .. (f - 1) : str[k] \in Space,
         str[l] \notin Space, \A k \in (l + 1) .. Len(str) : str[k] \in Space
  PROVE  Stripped(str) = SubSeq(str, f, l)
<1>1. PICK g, m \in 1 .. Len(str) :
        /\ g <= m /\ Stripped(str) = SubSeq(str, g, m)
        /\ str[g] \notin Space /\ \A k \in 1 .. (g - 1) : str[k] \in Space
        /\ str[m] \notin Space /\ \A k \in (m + 1) .. Len(str) : str[k] \in Space
  BY StrippedIs
<1>2. ~(g < f) /\ ~(f < g) /\ ~(m < l) /\ ~(l < m)
  BY <1>1
<1>3. g = f /\ m = l
  BY <1>2
<1> QED BY <1>1, <1>3

(* Text that begins with no white space is stripped at its end only. *)
LEMMA StrippedFront ==
  ASSUME NEW str \in Seq(STRING), str # <<>>, str[1] \notin Space
  PROVE  \E l \in 1 .. Len(str) :
           /\ Stripped(str) = SubSeq(str, 1, l) /\ str[l] \notin Space
           /\ \A k \in (l + 1) .. Len(str) : str[k] \in Space
           /\ Stripped(str) # <<>> /\ Stripped(str)[1] = str[1]
<1>1. Len(str) \in Nat \ {0} /\ 1 \in 1 .. Len(str)
  BY EmptySeq
<1>2. PICK g, l \in 1 .. Len(str) :
        /\ g <= l /\ Stripped(str) = SubSeq(str, g, l)
        /\ str[g] \notin Space /\ \A k \in 1 .. (g - 1) : str[k] \in Space
        /\ str[l] \notin Space /\ \A k \in (l + 1) .. Len(str) : str[k] \in Space
  BY <1>1, StrippedIs
<1>3. ~(1 < g)
  BY <1>1, <1>2
<1>4. g = 1
  BY <1>3
<1>5. /\ SubSeq(str, 1, l) \in Seq(STRING) /\ Len(SubSeq(str, 1, l)) = l - 1 + 1
      /\ \A i \in 1 .. (l - 1 + 1) : SubSeq(str, 1, l)[i] = str[1 + i - 1]
  BY <1>1, Part
<1>6. 1 \in 1 .. (l - 1 + 1) /\ 1 + 1 - 1 = 1 /\ l - 1 + 1 # 0
  BY <1>1
<1>7. Stripped(str)[1] = str[1] /\ Stripped(str) # <<>>
  BY <1>2, <1>4, <1>5, <1>6, EmptySeq
<1> QED BY <1>2, <1>4, <1>7

(* What parse_line makes of a line that leaves it room, puts no white      *)
(* space before either part and uses no single quotes is what the line     *)
(* means.                                                                  *)
LEMMA LineAsMeant ==
  ASSUME NEW line \in Seq(STRING), IsLine(line), Plain(line)
  PROVE  Meant(line) =
           IF Sets(line) THEN {<<KeyOf(line), ValueOf(line)>>} ELSE {}
<1> DEFINE n == Len(line)
           eq == EqualsAt(line)
           text == Stripped(line)
           a == EqualsAt(text)
           word == Stripped(SubSeq(text, a + 1, Len(text)))
           value == Unquoted(word)
           key == Stripped(SubSeq(text, 1, a - 1))
<1>a. Meant(line) = IF text = <<>> \/ text[1] = "#" \/ a <= 1 \/ value = <<>>
                    THEN {} ELSE {<<ToUpper(key), value>>}
  BY DEF Meant
<1>b. n \in Nat \ {0} /\ line # <<>> /\ eq \in 0 .. n
  BY LineParts
<1>c. /\ eq = 0 => \A k \in 1 .. n : line[k] # "="
      /\ eq # 0 => line[eq] = "=" /\ \A k \in 1 .. (eq - 1) : line[k] # "="
  BY LineParts
<1> HIDE DEF n, eq, text, a, value, key, word
<1>1. CASE Ignored(line)
  <2>1. ~Sets(line)
    BY <1>1 DEF Sets, BothParts
  <2>2. CASE line[1] = "#"
    <3>1. line[1] \notin Space
      BY <2>2 DEF Space
    <3>2. text[1] = "#"
      BY <2>2, <3>1, <1>b, StrippedFront DEF text
    <3> QED BY <1>a, <2>1, <3>2
  <2>3. CASE line[1] = "\n"
    <3>1. n = 1
      <4>1. ~(1 \in 1 .. (n - 1))
        BY <2>3 DEF IsLine, n
      <4> QED BY <4>1, <1>b
    <3>2. line[1] \in Space
      BY <2>3 DEF Space
    <3>3. text = <<>>
      <4>1. \A k \in 1 .. n : k = 1
        BY <3>1
      <4> QED BY <4>1, <3>2, StrippedIs DEF text, n
    <3> QED BY <1>a, <2>1, <3>3
  <2> QED BY <1>1, <2>2, <2>3 DEF Ignored
<1>2. CASE ~Ignored(line) /\ ~BothParts(line)
  <2>1. ~Sets(line)
    BY <1>2 DEF Sets
  <2>2. CASE eq = 0
    <3>1. \A k \in 1 .. n : line[k] # "="
      BY <1>c, <2>2
    <3>2. CASE text = <<>>
      BY <1>a, <2>1, <3>2
    <3>3. CASE text # <<>>
      <4>1. PICK f, l \in 1 .. n : f <= l /\ text = SubSeq(line, f, l)
        BY <3>3, StrippedIs DEF text, n
      <4>2. /\ text \in Seq(STRING) /\ Len(text) = l - f + 1
            /\ \A i \in 1 .. (l - f + 1) : text[i] = line[f + i - 1]
        BY <4>1, <1>b, Part DEF n
      <4>3. \A i \in 1 .. Len(text) : text[i] \notin {"="}
        <5> TAKE i \in 1 .. Len(text)
        <5>1. f + i - 1 \in 1 .. n /\ i \in 1 .. (l - f + 1)
          BY <4>1, <4>2, <1>b
        <5> QED BY <5>1, <4>2, <3>1
      <4>4. a = 0
        <5>1. a = FirstIn(text, {"="})
          BY DEF a, EqualsAt
        <5>2. a \in 0 .. Len(text) /\ (a # 0 => text[a] \in {"="})
          BY <5>1, <4>2, FirstInIs
        <5>3. Len(text) \in Nat
          BY <4>2
        <5> QED BY <5>2, <5>3, <4>3
      <4>5. a <= 1
        BY <4>4
      <4> QED BY <1>a, <2>1, <4>5
    <3> QED BY <3>2, <3>3
  <2>3. CASE eq = 1
    <3>a. line[1] = "="
      BY <1>c, <2>3
    <3>1. line[1] = "=" /\ line[1] \notin Space
      BY <3>a DEF Space
    <3>2. PICK l \in 1 .. n : /\ text = SubSeq(line, 1, l)
                             /\ text # <<>> /\ text[1] = line[1]
      BY <3>1, <1>b, StrippedFront DEF text, n
    <3>3. text \in Seq(STRING) /\ Len(text) = l - 1 + 1
      BY <3>2, <1>b, Part DEF n
    <3>4. 1 \in 1 .. Len(text) /\ \A k \in 1 .. (1 - 1) : text[k] \notin {"="}
      BY <3>3
    <3>b. text[1] \in {"="}
      BY <3>1, <3>2
    <3>5. a = 1
      BY <3>b, <3>3, <3>4, FoundFirst DEF a, EqualsAt
    <3>6. a <= 1
      BY <3>5
    <3> QED BY <1>a, <2>1, <3>6
  <2>4. CASE eq > 1
    <3>1. ValuePart(line) = <<>>
      <4>1. KeyPart(line) = SubSeq(line, 1, eq - 1)
        BY <2>4, <1>b DEF KeyPart, eq
      <4>2. Len(SubSeq(line, 1, eq - 1)) = eq - 1 - 1 + 1
        BY <2>4, <1>b, Part DEF n
      <4>3. eq - 1 - 1 + 1 # 0
        BY <2>4, <1>b
      <4>4. KeyPart(line) # <<>>
        BY <4>1, <4>2, <4>3, EmptySeq
      <4> QED BY <1>2, <4>4 DEF BothParts
    <3>2. PICK end \in (eq + 1) .. (n + 1) :
            /\ ValuePart(line) = SubSeq(line, eq + 1, end - 1)
            /\ \A k \in end .. n : line[k] = "\n"
      BY <2>4, LineParts DEF eq, n
    <3>3. end = eq + 1
      <4>1. Len(SubSeq(line, eq + 1, end - 1)) = (end - 1) - (eq + 1) + 1
        BY <1>b, Part DEF n
      <4> QED BY <3>1, <3>2, <4>1, <1>b, EmptySeq
    <3>4. \A k \in (eq + 1) .. n : line[k] \in Space
      BY <3>2, <3>3 DEF Space
    <3>a. line[eq] = "=" /\ eq \in 1 .. n
      BY <1>b, <1>c, <2>4
    <3>5. line[eq] = "=" /\ line[eq] \notin Space /\ eq \in 1 .. n
      BY <3>a DEF Space
    <3>6. PICK f, l \in 1 .. n :
             /\ f <= l /\ text = SubSeq(line, f, l) /\ line[l] \notin Space
             /\ \A k \in 1 .. (f - 1) : line[k] \in Space
             /\ \A k \in (l + 1) .. n : line[k] \in Space
      BY <3>5, StrippedIs DEF text, n
    <3>7. l = eq
      <4>1. ~(l < eq) /\ ~(eq < l)
        BY <3>4, <3>5, <3>6, <1>b
      <4> QED BY <4>1, <3>5, <3>6
    <3> DEFINE m == eq - f + 1
    <3>8. m \in Nat \ {0}
      BY <3>6, <3>7, <1>b
    <3>9. /\ text \in Seq(STRING) /\ Len(text) = m
          /\ \A i \in 1 .. m : text[i] = line[f + i - 1]
      BY <3>6, <3>7, <1>b, Part DEF n
    <3>10. a = m
      <4>1. m \in 1 .. Len(text) /\ text[m] \in {"="}
        <5>1. f + m - 1 = eq
          BY <3>6, <3>7, <1>b
        <5> QED BY <3>5, <3>8, <3>9, <5>1
      <4>2. ASSUME NEW k \in 1 .. (m - 1) PROVE text[k] \notin {"="}
        <5>1. k \in 1 .. m /\ f + k - 1 \in 1 .. (eq - 1)
          BY <3>6, <3>7, <1>b
        <5> QED BY <5>1, <3>9, <1>c, <2>4
      <4> HIDE DEF m
      <4> QED BY <3>9, <4>1, <4>2, FoundFirst DEF a, EqualsAt
    <3>11. SubSeq(text, a + 1, Len(text)) = <<>>
      BY <3>8, <3>9, <3>10, SubSeqEmpty
    <3>12. word = <<>>
      <4>1. <<>> \in Seq(STRING) /\ Len(<<>>) = 0
        BY EmptySeq
      <4>2. Stripped(<<>>) = <<>>
        <5>1. \A k \in 1 .. Len(<<>>) : FALSE
          BY <4>1
        <5> QED BY <4>1, <5>1, StrippedIs
      <4> QED BY <3>11, <4>2 DEF word
    <3>13. value = <<>>
      BY <3>12, EmptySeq DEF value, Unquoted
    <3> QED BY <1>a, <2>1, <3>13
  <2> QED BY <1>b, <2>2, <2>3, <2>4
<1>3. CASE BothParts(line)
  <2> DEFINE K == KeyPart(line)
             V == ValuePart(line)
  <2>1. /\ K # <<>> /\ V # <<>> /\ V[1] # "'" /\ line[1] # "#"
        /\ K[1] \notin Space /\ V[1] \notin Space
    BY <1>3 DEF Plain, Hangs, TrimHangs, BothParts, Ignored
  <2>2. eq > 1
    BY <2>1, <1>b DEF ValuePart, eq
  <2>3. K = SubSeq(line, 1, eq - 1)
    BY <2>2, <1>b DEF KeyPart, eq
  <2>4. PICK end \in (eq + 1) .. (n + 1) :
          /\ V = SubSeq(line, eq + 1, end - 1)
          /\ \A k \in end .. n : line[k] = "\n"
    BY <2>2, LineParts DEF eq, n
  <2> HIDE DEF K, V
  <2>5. /\ K \in Seq(STRING) /\ K[1] = line[1]
    <3>1. /\ K \in Seq(STRING)
          /\ \A i \in 1 .. (eq - 1 - 1 + 1) : K[i] = line[1 + i - 1]
      BY <2>2, <2>3, <1>b, Part DEF n
    <3>2. 1 \in 1 .. (eq - 1 - 1 + 1) /\ 1 + 1 - 1 = 1
      BY <2>2, <1>b
    <3> QED BY <3>1, <3>2
  <2> DEFINE v == (end - 1) - eq
  <2>6. /\ V \in Seq(STRING) /\ Len(V) = v /\ v \in Nat \ {0}
        /\ \A i \in 1 .. v : V[i] = line[eq + i]
    <3>1. /\ V \in Seq(STRING) /\ Len(V) = (end - 1) - (eq + 1) + 1
          /\ \A i \in 1 .. ((end - 1) - (eq + 1) + 1) : V[i] = line[(eq + 1) + i - 1]
      BY <2>2, <2>4, <1>b, Part DEF n
    <3>2. (end - 1) - (eq + 1) + 1 = v /\ v \in Nat
      BY <2>2, <2>4, <1>b
    <3>3. \A i \in 1 .. v : (eq + 1) + i - 1 = eq + i
      BY <2>2, <1>b
    <3>4. v # 0
      BY <2>1, <3>1, <3>2, EmptySeq
    <3> HIDE DEF v
    <3> QED BY <3>1, <3>2, <3>3, <3>4
  <2>7. line[1] \notin Space /\ line[eq + 1] \notin Space /\ line[eq + 1] # "'"
        /\ V[1] = line[eq + 1]
    <3>1. 1 \in 1 .. v
      BY <2>6
    <3>2. V[1] = line[eq + 1]
      BY <2>6, <3>1
    <3> QED BY <2>1, <2>5, <3>2
  <2>8. PICK l \in 1 .. n :
          /\ text = SubSeq(line, 1, l) /\ line[l] \notin Space
          /\ \A k \in (l + 1) .. n : line[k] \in Space
          /\ text # <<>> /\ text[1] = line[1]
    BY <2>7, <1>b, StrippedFront DEF text, n
  <2>9. l \in (eq + 1) .. (end - 1) /\ eq + 1 \in 1 .. n /\ eq \in 2 .. n
    <3>1. eq + 1 \in 1 .. n
      BY <2>2, <2>4, <2>6, <1>b
    <3>2. ~(eq + 1 > l)
      BY <3>1, <2>7, <2>8, <1>b
    <3>3. \A k \in end .. n : line[k] \in Space
      BY <2>4 DEF Space
    <3>4. ~(l >= end)
      BY <3>3, <2>8, <2>4, <1>b
    <3> QED BY <3>1, <3>2, <3>4, <2>2, <2>4, <2>8, <1>b
  <2>10. /\ text \in Seq(STRING) /\ Len(text) = l
         /\ \A i \in 1 .. l : text[i] = line[i]
    <3>1. /\ text \in Seq(STRING) /\ Len(text) = l - 1 + 1
          /\ \A i \in 1 .. (l - 1 + 1) : text[i] = line[1 + i - 1]
      BY <2>8, <1>b, Part DEF n
    <3>2. l - 1 + 1 = l /\ \A i \in 1 .. l : 1 + i - 1 = i
      BY <2>8, <1>b
    <3> QED BY <3>1, <3>2
  <2>11. a = eq
    <3>1. eq \in 1 .. Len(text) /\ text[eq] = line[eq]
      BY <2>9, <2>10, <1>b
    <3>2. text[eq] \in {"="}
      BY <3>1, <1>c, <2>9
    <3>3. ASSUME NEW k \in 1 .. (eq - 1) PROVE text[k] \notin {"="}
      <4>1. k \in 1 .. l
        BY <2>9, <1>b
      <4> QED BY <4>1, <2>9, <2>10, <1>c
    <3> QED BY <2>10, <3>1, <3>2, <3>3, FoundFirst DEF a, EqualsAt
  <2> DEFINE W == SubSeq(line, eq + 1, l)
             w == l - eq
  <2>12. /\ W \in Seq(STRING) /\ Len(W) = w /\ w \in 1 .. v
         /\ \A i \in 1 .. w : W[i] = line[eq + i]
    <3>1. eq + 1 \in Nat \ {0} /\ l \in Nat /\ eq + 1 <= l + 1 /\ l <= Len(line)
      BY <2>8, <2>9, <1>b DEF n
    <3>2. /\ W \in Seq(STRING) /\ Len(W) = l - (eq + 1) + 1
          /\ \A i \in 1 .. (l - (eq + 1) + 1) : W[i] = line[(eq + 1) + i - 1]
      BY <3>1, Part
    <3>3. l - (eq + 1) + 1 = w /\ w \in 1 .. v
      BY <2>8, <2>9, <1>b
    <3>4. \A i \in 1 .. w : (eq + 1) + i - 1 = eq + i
      BY <2>8, <2>9, <1>b
    <3> HIDE DEF w, W
    <3> QED BY <3>2, <3>3, <3>4
  <2>13. SubSeq(text, a + 1, Len(text)) = W
    <3>1. SubSeq(SubSeq(line, 1, l), eq + 1, l) = SubSeq(line, 1 + (eq + 1) - 1, 1 + l - 1)
      BY <2>8, <2>9, <1>b, PartOfPart DEF n
    <3>2. 1 + (eq + 1) - 1 = eq + 1 /\ 1 + l - 1 = l
      BY <2>8, <2>9, <1>b
    <3> QED BY <2>8, <2>10, <2>11, <3>1, <3>2
  <2>14. SubSeq(V, 1, w) = W
    <3>1. SubSeq(SubSeq(line, eq + 1, end - 1), 1, w)
            = SubSeq(line, (eq + 1) + 1 - 1, (eq + 1) + w - 1)
      BY <2>4, <2>6, <2>8, <2>9, <2>12, <1>b, PartOfPart DEF n
    <3>2. (eq + 1) + 1 - 1 = eq + 1 /\ (eq + 1) + w - 1 = l
      BY <2>8, <2>9, <1>b
    <3> QED BY <2>4, <3>1, <3>2
  <2>a. w \in Nat \ {0} /\ eq + w = l /\ v \in Nat \ {0}
    BY <2>6, <2>8, <2>9, <2>12, <1>b
  <2> HIDE DEF W, w, v
  <2>15. W[1] = line[eq + 1] /\ W[w] = line[l] /\ V[w] = line[l]
    <3>1. 1 \in 1 .. w /\ w \in 1 .. w /\ w \in 1 .. v
      BY <2>a, <2>12
    <3> QED BY <2>6, <2>12, <2>a, <3>1
  <2>16. Stripped(W) = W
    <3>1. 1 \in 1 .. Len(W) /\ w \in 1 .. Len(W)
      BY <2>12, <2>a
    <3>2. /\ W[1] \notin Space /\ W[w] \notin Space
          /\ \A k \in 1 .. (1 - 1) : W[k] \in Space
          /\ \A k \in (w + 1) .. Len(W) : W[k] \in Space
      BY <2>7, <2>8, <2>12, <2>15, <2>a
    <3>3. Stripped(W) = SubSeq(W, 1, w)
      BY <2>12, <3>1, <3>2, StrippedBetween
    <3> QED BY <2>12, <3>3, SubSeqFull
  <2>17. Trim(V) = W
    <3>1. Stripped(V) = Trim(V)
      BY <2>1, <2>6, TrimStrips
    <3>2. 1 \in 1 .. Len(V) /\ w \in 1 .. Len(V)
      BY <2>6, <2>12, <2>a
    <3>3. ASSUME NEW k \in (w + 1) .. Len(V) PROVE V[k] \in Space
      <4>1. k \in 1 .. v /\ eq + k \in (l + 1) .. n
        BY <2>4, <2>6, <2>9, <2>a, <1>b DEF v
      <4> QED BY <4>1, <2>6, <2>8
    <3>4. \A k \in 1 .. (1 - 1) : V[k] \in Space
      OBVIOUS
    <3>5. V[1] \notin Space /\ V[w] \notin Space
      BY <2>1, <2>8, <2>15
    <3>6. Stripped(V) = SubSeq(V, 1, w)
      BY <2>6, <3>2, <3>3, <3>4, <3>5, StrippedBetween
    <3> QED BY <2>14, <3>1, <3>6
  <2>18. value = ValueOf(line)
    <3>1. word = W
      BY <2>13, <2>16 DEF word
    <3>2. ValueOf(line) = RemoveQuotes(W)
      BY <2>17 DEF ValueOf, V
    <3>3. W[1] # "'"
      BY <2>7, <2>15
    <3>4. Unquoted(W) = RemoveQuotes(W)
      BY <3>3 DEF Unquoted, RemoveQuotes
    <3> QED BY <3>1, <3>2, <3>4 DEF value
  <2>19. key = Trim(K)
    <3>1. SubSeq(SubSeq(line, 1, l), 1, eq - 1) = SubSeq(line, 1 + 1 - 1, 1 + (eq - 1) - 1)
      BY <2>8, <2>9, <1>b, PartOfPart DEF n
    <3>2. 1 + 1 - 1 = 1 /\ 1 + (eq - 1) - 1 = eq - 1
      BY <1>b
    <3>3. SubSeq(text, 1, a - 1) = K
      BY <2>3, <2>8, <2>11, <3>1, <3>2
    <3> QED BY <2>1, <2>5, <3>3, TrimStrips DEF key
  <2>20. ToUpper(key) = KeyOf(line)
    BY <2>19 DEF KeyOf, K
  <2>21. text # <<>> /\ text[1] # "#" /\ ~(a <= 1)
    BY <2>1, <2>2, <2>8, <2>11, <1>b
  <2>22. Sets(line) <=> value # <<>>
    BY <1>3, <2>18 DEF Sets
  <2> QED BY <1>a, <2>18, <2>20, <2>21, <2>22
<1> QED BY <1>1, <1>2, <1>3

-----------------------------------------------------------------------------
(* Reading .env.                                                           *)

(* The places of a file, and those fgets comes to before another one. *)
Files == Dotenvs \ {Missing, Directory}
Places(d) ==
  {x \in [line : DOMAIN d, piece : Nat] : x.piece * Room < Len(d[x.line])}
Before(x, y) ==
  x.line < y.line \/ (x.line = y.line /\ x.piece < y.piece)
End(d) == [line |-> Len(d) + 1, piece |-> 0]

(* The pieces before a place that set a variable, and the environment they *)
(* make: the last of them wins.                                            *)
Setting(d, v, y) ==
  {x \in Places(d) :
    Before(x, y) /\ Sets(Piece(d, x)) /\ KeyOf(Piece(d, x)) = v}
LastOf(S) == CHOOSE x \in S : \A z \in S : z = x \/ Before(z, x)
EnvAt(d, e, y) ==
  [v \in Variables |->
    IF Setting(d, v, y) = {} THEN e[v]
    ELSE ValueOf(Piece(d, LastOf(Setting(d, v, y))))]

LEMMA FilesAreLines ==
  ASSUME NEW d \in Files
  PROVE  /\ d \in Seq(Seq(STRING)) /\ DOMAIN d = 1 .. Len(d) /\ Len(d) \in Nat
         /\ \A i \in 1 .. Len(d) :
              d[i] \in Seq(STRING) /\ IsLine(d[i]) /\ Len(d[i]) \in Nat \ {0}
<1>1. d \in Seq(Seq(STRING)) /\ \A i \in DOMAIN d : IsLine(d[i])
  BY Texts DEF Files
<1>2. DOMAIN d = 1 .. Len(d) /\ Len(d) \in Nat
  BY <1>1
<1>3. ASSUME NEW i \in 1 .. Len(d)
      PROVE  d[i] \in Seq(STRING) /\ IsLine(d[i]) /\ Len(d[i]) \in Nat \ {0}
  <2>1. d[i] \in Seq(STRING) /\ IsLine(d[i])
    BY <1>1, <1>2, ElementOfSeq
  <2> QED BY <2>1, EmptySeq DEF IsLine
<1> QED BY <1>1, <1>2, <1>3

LEMMA RoomIs == Room \in Nat \ {0}
BY Widths DEF Room

LEMMA Rooms ==
  ASSUME NEW k \in Nat, NEW m \in Nat
  PROVE  /\ k * Room \in Nat /\ (k + 1) * Room = k * Room + Room
         /\ m >= k => m * Room >= k * Room
<1>1. \A r \in Nat : /\ k * r \in Nat /\ (k + 1) * r = k * r + r
                     /\ m >= k => m * r >= k * r
  <2> TAKE r \in Nat
  <2>1. k * r \in Nat /\ (k + 1) * r = k * r + r
    OBVIOUS
  <2>2. ASSUME m >= k PROVE m * r >= k * r
    <3>1. m - k \in Nat /\ m = k + (m - k)
      BY <2>2
    <3>2. \A a, b \in Nat : (a + b) * r = a * r + b * r /\ b * r \in Nat /\ a * r \in Nat
      OBVIOUS
    <3> DEFINE c == m - k
    <3>3. c \in Nat /\ m = k + c
      BY <3>1
    <3> HIDE DEF c
    <3>4. m * r = k * r + c * r /\ c * r \in Nat /\ k * r \in Nat
      BY <3>2, <3>3
    <3> QED BY <3>4
  <2> QED BY <2>1, <2>2
<1> QED BY <1>1, RoomIs

(* A piece of a line is a line. *)
LEMMA PieceIsLine ==
  ASSUME NEW d \in Files, NEW x \in Places(d)
  PROVE  Piece(d, x) \in Seq(STRING) /\ IsLine(Piece(d, x))
<1> DEFINE s == d[x.line]
           n == Len(s)
           lo == x.piece * Room
           hi == IF IsLast(d, x) THEN n ELSE (x.piece + 1) * Room
<1>1. /\ x.line \in 1 .. Len(d) /\ x.piece \in Nat /\ lo < n
      /\ s \in Seq(STRING) /\ IsLine(s) /\ n \in Nat
  BY FilesAreLines DEF Places
<1>2. lo \in Nat /\ (x.piece + 1) * Room = lo + Room
  BY <1>1, Rooms
<1>3. Piece(d, x) = SubSeq(s, lo + 1, hi)
  BY DEF Piece
<1> HIDE DEF lo
<1>4. hi \in Nat /\ lo + 1 <= hi /\ hi <= n
  BY <1>1, <1>2, RoomIs DEF IsLast
<1> HIDE DEF hi, n
<1>5. lo + 1 \in Nat \ {0} /\ lo + 1 <= hi + 1 /\ hi <= Len(s)
  BY <1>2, <1>4 DEF n
<1> HIDE DEF s
<1>6. /\ Piece(d, x) \in Seq(STRING) /\ Len(Piece(d, x)) = hi - (lo + 1) + 1
      /\ \A i \in 1 .. (hi - (lo + 1) + 1) : Piece(d, x)[i] = s[lo + 1 + i - 1]
  BY <1>1, <1>3, <1>4, <1>5, Part
<1>7. Piece(d, x) # <<>>
  BY <1>2, <1>4, <1>6, EmptySeq
<1>8. ASSUME NEW i \in 1 .. (Len(Piece(d, x)) - 1) PROVE Piece(d, x)[i] # "\n"
  <2>1. /\ i \in 1 .. (hi - (lo + 1) + 1)
        /\ lo + 1 + i - 1 \in 1 .. (n - 1)
    BY <1>1, <1>2, <1>4, <1>6
  <2> QED BY <2>1, <1>1, <1>6 DEF IsLine, n
<1> QED BY <1>6, <1>7, <1>8 DEF IsLine

(* What parse_line finds is text. *)
LEMMA ValueIsText ==
  ASSUME NEW line \in Seq(STRING), IsLine(line), Sets(line)
  PROVE  ValueOf(line) \in Seq(STRING)
<1>1. ValuePart(line) # <<>> /\ EqualsAt(line) > 1
  <2>1. ValuePart(line) # <<>>
    BY DEF Sets, BothParts
  <2> QED BY <2>1, LineParts DEF ValuePart
<1>2. ValuePart(line) \in Seq(STRING)
  <2>1. PICK end \in (EqualsAt(line) + 1) .. (Len(line) + 1) :
          ValuePart(line) = SubSeq(line, EqualsAt(line) + 1, end - 1)
    BY <1>1, LineParts
  <2>2. EqualsAt(line) + 1 \in Nat \ {0} /\ end - 1 \in Nat
        /\ EqualsAt(line) + 1 <= (end - 1) + 1 /\ end - 1 <= Len(line)
    BY <2>1, LineParts
  <2> QED BY <2>1, <2>2, Part
<1> DEFINE V == ValuePart(line)
           T == Trim(V)
<1>3. T \in Seq(STRING)
  <2> DEFINE l == LastNotIn(V, Space)
             m == IF l = 0 THEN 1 ELSE l
  <2>1. Len(V) \in Nat \ {0}
    BY <1>1, <1>2, EmptySeq
  <2>2. l \in 0 .. Len(V)
    BY <1>2, LastNotInIs
  <2>3. T = SubSeq(V, 1, m)
    BY DEF Trim
  <2> HIDE DEF l, V, T
  <2>4. m \in Nat /\ 1 <= m + 1 /\ m <= Len(V)
    BY <2>1, <2>2
  <2> HIDE DEF m
  <2> QED BY <1>2, <2>3, <2>4, Part DEF V
<1>4. RemoveQuotes(T) \in Seq(STRING)
  <2> HIDE DEF T
  <2>1. CASE Len(T) >= 2
    <3>1. Len(T) - 1 \in Nat /\ 2 <= (Len(T) - 1) + 1 /\ Len(T) - 1 <= Len(T)
      BY <1>3, <2>1
    <3>2. SubSeq(T, 2, Len(T) - 1) \in Seq(STRING)
      BY <1>3, <3>1, Part
    <3> QED BY <1>3, <3>2 DEF RemoveQuotes
  <2>2. CASE ~(Len(T) >= 2)
    BY <1>3, <2>2 DEF RemoveQuotes
  <2> QED BY <2>1, <2>2
<1> QED BY <1>4 DEF ValueOf

(* Where fgets is: at a place of the file, or at its end. *)
Fits(d, y) == y \in Places(d) \/ y = End(d)

LEMMA TopFits == ASSUME NEW d \in Files PROVE Fits(d, Top)
<1>1. CASE Len(d) = 0
  BY <1>1 DEF Fits, End, Top
<1>2. CASE Len(d) # 0
  <2>1. 1 \in DOMAIN d /\ Len(d[1]) > 0 /\ Len(d[1]) \in Nat
    BY <1>2, FilesAreLines
  <2>2. 0 * Room = 0
    BY RoomIs
  <2> QED BY <2>1, <2>2 DEF Fits, Top, Places
<1> QED BY <1>1, <1>2

LEMMA NextFits ==
  ASSUME NEW d \in Files, NEW y \in Places(d) PROVE Fits(d, NextPlace(d, y))
<1>1. y.line \in 1 .. Len(d) /\ y.piece \in Nat /\ y \in [line : DOMAIN d, piece : Nat]
  BY FilesAreLines DEF Places
<1>2. CASE IsLast(d, y)
  <2>1. NextPlace(d, y) = [line |-> y.line + 1, piece |-> 0]
    BY <1>2 DEF NextPlace
  <2>2. CASE y.line = Len(d)
    BY <2>1, <2>2 DEF Fits, End
  <2>3. CASE y.line # Len(d)
    <3>a. y.line + 1 \in 1 .. Len(d)
      BY <1>1, <2>3, FilesAreLines
    <3>1. y.line + 1 \in DOMAIN d /\ Len(d[y.line + 1]) > 0
      BY <3>a, FilesAreLines
    <3>2. 0 * Room = 0
      BY RoomIs
    <3> QED BY <2>1, <3>1, <3>2 DEF Fits, Places
  <2> QED BY <2>2, <2>3
<1>3. CASE ~IsLast(d, y)
  <2>1. NextPlace(d, y) = [line |-> y.line, piece |-> y.piece + 1]
    BY <1>1, <1>3 DEF NextPlace
  <2>2. (y.piece + 1) * Room < Len(d[y.line])
    BY <1>1, <1>3, Rooms, RoomIs, FilesAreLines DEF IsLast
  <2> QED BY <1>1, <2>1, <2>2, FilesAreLines DEF Fits, Places
<1> QED BY <1>2, <1>3

(* What is before the next place is what was before this one, and it. *)
LEMMA BeforeNext ==
  ASSUME NEW d \in Files, NEW y \in Places(d), NEW x \in Places(d)
  PROVE  Before(x, NextPlace(d, y)) <=> (Before(x, y) \/ x = y)
<1>1. /\ y.line \in 1 .. Len(d) /\ y.piece \in Nat /\ Len(d) \in Nat
      /\ x.line \in 1 .. Len(d) /\ x.piece \in Nat
      /\ x.piece * Room < Len(d[x.line]) /\ Len(d[x.line]) \in Nat
  BY FilesAreLines DEF Places
<1>2. (x.line = y.line /\ x.piece = y.piece) <=> x = y
  BY DEF Places
<1>3. CASE IsLast(d, y)
  <2>1. NextPlace(d, y).line = y.line + 1 /\ NextPlace(d, y).piece = 0
    BY <1>3 DEF NextPlace
  <2>2. x.line = y.line => x.piece <= y.piece
    <3>1. y.piece + 1 \in Nat
      BY <1>1
    <3>2. /\ x.piece * Room \in Nat /\ (y.piece + 1) * Room \in Nat
          /\ x.piece >= y.piece + 1 => x.piece * Room >= (y.piece + 1) * Room
      BY <1>1, <3>1, Rooms
    <3>3. x.line = y.line => x.piece * Room < (y.piece + 1) * Room
      BY <1>1, <1>3, <3>2 DEF IsLast
    <3> QED BY <1>1, <3>2, <3>3
  <2>3. Before(x, NextPlace(d, y)) <=> x.line <= y.line
    BY <1>1, <2>1 DEF Before
  <2>4. x.line <= y.line <=> (Before(x, y) \/ (x.line = y.line /\ x.piece = y.piece))
    BY <1>1, <2>2 DEF Before
  <2> QED BY <1>2, <2>3, <2>4
<1>4. CASE ~IsLast(d, y)
  <2>1. NextPlace(d, y).line = y.line /\ NextPlace(d, y).piece = y.piece + 1
    BY <1>4 DEF NextPlace, Places
  <2>2. Before(x, NextPlace(d, y))
          <=> (Before(x, y) \/ (x.line = y.line /\ x.piece = y.piece))
    BY <1>1, <2>1 DEF Before
  <2> QED BY <1>2, <2>2
<1> QED BY <1>3, <1>4

(* Places lie one behind the other, so the last of some is one only. *)
LEMMA OneLast ==
  ASSUME NEW d \in Files, NEW S \in SUBSET Places(d), NEW y \in S,
         \A z \in S : z = y \/ Before(z, y)
  PROVE  LastOf(S) = y
<1>1. ASSUME NEW x \in S, \A z \in S : z = x \/ Before(z, x) PROVE x = y
  <2>1. /\ x.line \in Nat /\ x.piece \in Nat /\ y.line \in Nat /\ y.piece \in Nat
    BY FilesAreLines DEF Places
  <2>2. x = y \/ (Before(x, y) /\ Before(y, x))
    BY <1>1
  <2> QED BY <2>1, <2>2 DEF Before
<1> QED BY <1>1 DEF LastOf

(* What one line more makes of the environment. *)
LEMMA NextEnv ==
  ASSUME NEW d \in Files, NEW y \in Places(d), NEW e
  PROVE  EnvAt(d, e, NextPlace(d, y)) =
           IF Sets(Piece(d, y)) THEN SetEnv(EnvAt(d, e, y), Piece(d, y))
           ELSE EnvAt(d, e, y)
<1> DEFINE n == NextPlace(d, y)
           sets(v) == Sets(Piece(d, y)) /\ KeyOf(Piece(d, y)) = v
<1>1. ASSUME NEW v \in Variables, sets(v)
      PROVE  EnvAt(d, e, n)[v] = ValueOf(Piece(d, y))
  <2>1. y \in Setting(d, v, n)
    BY <1>1, BeforeNext DEF Setting
  <2>2. \A z \in Setting(d, v, n) : z = y \/ Before(z, y)
    BY BeforeNext DEF Setting
  <2>3. LastOf(Setting(d, v, n)) = y
    BY <2>1, <2>2, OneLast DEF Setting
  <2> QED BY <2>1, <2>3 DEF EnvAt
<1>2. ASSUME NEW v \in Variables, ~sets(v)
      PROVE  EnvAt(d, e, n)[v] = EnvAt(d, e, y)[v]
  <2>1. Setting(d, v, n) = Setting(d, v, y)
    BY <1>2, BeforeNext DEF Setting
  <2> QED BY <2>1 DEF EnvAt
<1> HIDE DEF n
<1>3. /\ EnvAt(d, e, n) = [v \in Variables |-> EnvAt(d, e, n)[v]]
      /\ EnvAt(d, e, y) = [v \in Variables |-> EnvAt(d, e, y)[v]]
  BY DEF EnvAt
<1>4. CASE Sets(Piece(d, y))
  <2>1. \A v \in Variables :
          EnvAt(d, e, n)[v] = SetEnv(EnvAt(d, e, y), Piece(d, y))[v]
    BY <1>1, <1>2, <1>4 DEF SetEnv
  <2> QED BY <1>3, <1>4, <2>1 DEF SetEnv, n
<1>5. CASE ~Sets(Piece(d, y))
  BY <1>2, <1>3, <1>5 DEF n
<1> QED BY <1>4, <1>5

LEMMA TopEnv ==
  ASSUME NEW d \in Files, NEW e \in Environs PROVE EnvAt(d, e, Top) = e
<1>1. \A x \in Places(d) : ~Before(x, Top)
  BY FilesAreLines DEF Places, Before, Top
<1>2. \A v \in Variables : Setting(d, v, Top) = {}
  BY <1>1 DEF Setting
<1> QED BY <1>2 DEF EnvAt, Environs

LEMMA NextEnvTyped ==
  ASSUME NEW d \in Files, NEW y \in Places(d), NEW e \in Environs, Sets(Piece(d, y))
  PROVE  SetEnv(e, Piece(d, y)) \in Environs
<1>1. ValueOf(Piece(d, y)) \in Seq(STRING)
  BY PieceIsLine, ValueIsText
<1> QED BY <1>1 DEF SetEnv, Environs

(* A file read to its end, if there is one. *)
Delivered(d, e) == IF d = Missing THEN e ELSE EnvAt(d, e, End(d))

(* A plain file is read by whole lines. *)
LEMMA PlainPieces ==
  ASSUME NEW d \in PlainDotenvs \ {Missing}
  PROVE  /\ d \in Files
         /\ Places(d) = [line : DOMAIN d, piece : {0}]
         /\ \A x \in Places(d) : Piece(d, x) = d[x.line] /\ Plain(d[x.line])
<1>1. d \in Files /\ \A i \in DOMAIN d : Len(d[i]) < LineSize /\ Plain(d[i])
  BY DEF PlainDotenvs, Files
<1>2. \A i \in DOMAIN d : Len(d[i]) \in Nat \ {0} /\ Len(d[i]) <= Room
                          /\ d[i] \in Seq(STRING)
  BY <1>1, FilesAreLines, Widths DEF Room
<1>3. ASSUME NEW x \in Places(d) PROVE x.piece = 0
  <2>1. x.line \in DOMAIN d /\ x.piece \in Nat /\ x.piece * Room < Len(d[x.line])
    BY DEF Places
  <2>2. x.piece >= 1 => x.piece * Room >= 1 * Room
    BY <2>1, Rooms
  <2>3. 1 * Room = Room
    BY RoomIs
  <2>4. x.piece * Room \in Nat
    BY <2>1, Rooms
  <2> QED BY <2>1, <2>2, <2>3, <2>4, <1>2, RoomIs
<1>4. Places(d) \subseteq [line : DOMAIN d, piece : {0}]
  BY <1>3 DEF Places
<1>5. [line : DOMAIN d, piece : {0}] \subseteq Places(d)
  <2>1. 0 * Room = 0
    BY RoomIs
  <2> QED BY <1>2, <2>1 DEF Places
<1>6. ASSUME NEW x \in Places(d) PROVE Piece(d, x) = d[x.line]
  <2>1. x.piece = 0 /\ x.line \in DOMAIN d
    BY <1>3 DEF Places
  <2>2. 0 * Room = 0 /\ (0 + 1) * Room = Room
    BY RoomIs
  <2>3. IsLast(d, x)
    BY <1>2, <2>1, <2>2, RoomIs DEF IsLast
  <2>4. Piece(d, x) = SubSeq(d[x.line], 1, Len(d[x.line]))
    BY <2>1, <2>2, <2>3 DEF Piece
  <2> QED BY <1>2, <2>1, <2>4, SubSeqFull
<1> QED BY <1>1, <1>4, <1>5, <1>6 DEF Places

-----------------------------------------------------------------------------
(* The least one needs to know of the variables. *)
Shape ==
  /\ pc \in [Processes -> Labels]
  /\ conf = [p \in Processes |-> conf[p]]
  /\ asSaved \subseteq Processes
  /\ raced \in BOOLEAN

(* What a start holds before it has a configuration is the defaults. *)
HoldsDefaults ==
  \A p \in Processes :
    pc[p] \in {"read", "find", "mkdir", "open", "write"} => conf[p] = Defaults

(* config.json is only where its directory is. *)
InDirectory ==
  /\ configDir # "dir" => config = Absent
  /\ \A p \in Processes : pc[p] \in {"open", "write"} => configDir = "dir"

(* While the operator's text is there nobody is about to write another. *)
SaveStays ==
  (~raced /\ saved \in ConfigTexts) =>
    config = saved /\ configDir = "dir" /\ AboutToWrite = {}

(* While somebody is about to write, whoever has a configuration has the   *)
(* defaults, and so has the file, if it can be read.                       *)
WritersAgree ==
  ~raced =>
    /\ (AboutToWrite # {} /\ Readable) => config = Written(Defaults)
    /\ \A p \in asSaved :
         (AboutToWrite # {} \/ config = Partial) => conf[p] = Defaults

Kept ==
  Shape /\ HoldsDefaults /\ InDirectory /\ SaveStays /\ WritersAgree
        /\ ConfigurationKept

-----------------------------------------------------------------------------
(* What write_config makes of the defaults is read as the defaults. *)
LEMMA DefaultsReadBack == Parsed(Written(Defaults)) = Defaults
<1> DEFINE w == <<"b", "o", "t", "h">>
<1>1. LogWord("Both") = w /\ Written(Defaults) = [log |-> w, port |-> DefaultPort]
  BY Widths DEF Written, Defaults, Ports, LogWord
<1>2. DefaultPort % (MaxPort + 1) = DefaultPort
  BY Widths DEF Ports
<1>3. LogType(w) = "Both"
  <2>1. DOMAIN w = 1 .. 4
    OBVIOUS
  <2>2. DOMAIN ToUpper(w) = 1 .. 4
    BY <2>1 DEF ToUpper
  <2>3. Len(ToUpper(w)) \in Nat
    BY <2>2
  <2>4. IsPrefix(ToUpper(w), ToUpper(w))
    BY <2>3 DEF IsPrefix
  <2> QED BY <1>1, <2>4 DEF LogType
<1> QED BY <1>1, <1>2, <1>3 DEF Parsed, Defaults

LEMMA WrittenIsReadable ==
  Written(Defaults) \notin {Absent, Partial, Broken} /\ Absent # Partial
  BY Distinct

LEMMA TextsAreReadable ==
  ASSUME NEW text \in ConfigTexts PROVE text \notin {Absent, Partial, Broken}
  BY Distinct

LEMMA InitKept == Init => Kept
<1> SUFFICES ASSUME Init PROVE Kept
  OBVIOUS
<1>1. AboutToWrite = {} /\ asSaved = {} /\ saved \notin ConfigTexts
  BY Distinct DEF Init, AboutToWrite
<1> QED BY <1>1 DEF Init, Kept, Shape, Labels, HoldsDefaults, InDirectory, SaveStays,
                    WritersAgree, ConfigurationKept

-----------------------------------------------------------------------------
(* The operator. *)
LEMMA StartKept == ASSUME Kept, NEW p \in Processes, Start(p) PROVE Kept'
<1>1. pc[p] \in {"off", "exited"} /\ UNCHANGED <<configDir, config, saved, raced>>
  BY DEF Start, Down, disk
<1>2. AboutToWrite' = AboutToWrite /\ Readable' = Readable
  BY <1>1 DEF Start, AboutToWrite, Readable, Kept, Shape, Labels
<1>3. (Shape /\ HoldsDefaults /\ InDirectory)'
  BY <1>1 DEF Kept, Start, Shape, Labels, HoldsDefaults, InDirectory
<1>4. \A q \in asSaved' : q \in asSaved /\ conf'[q] = conf[q]
  BY DEF Start, Kept, Shape, Labels
<1>5. (SaveStays /\ WritersAgree /\ ConfigurationKept)'
  BY <1>1, <1>2, <1>4 DEF Kept, SaveStays, WritersAgree, ConfigurationKept
<1> QED BY <1>3, <1>5 DEF Kept

LEMMA CrashKept == ASSUME Kept, NEW p \in Processes, Crash(p) PROVE Kept'
<1>1. UNCHANGED <<configDir, config, saved, raced>>
  BY DEF Crash, disk
<1>2. AboutToWrite' \subseteq AboutToWrite /\ Readable' = Readable
  BY <1>1 DEF Crash, AboutToWrite, Readable, Kept, Shape, Labels
<1>3. (Shape /\ HoldsDefaults /\ InDirectory)'
  BY <1>1 DEF Kept, Crash, Shape, Labels, HoldsDefaults, InDirectory
<1>4. \A q \in asSaved' : q \in asSaved /\ conf'[q] = conf[q]
  BY DEF Crash, Kept, Shape, Labels
<1>5. (SaveStays /\ WritersAgree /\ ConfigurationKept)'
  BY <1>1, <1>2, <1>4 DEF Kept, SaveStays, WritersAgree, ConfigurationKept
<1> QED BY <1>3, <1>5 DEF Kept

LEMMA SaveKept ==
  ASSUME Kept, NEW text \in ConfigTexts \cup {Broken}, SaveConfig(text)
  PROVE  Kept'
<1>1. UNCHANGED <<pc, conf>>
  BY DEF SaveConfig, local
<1>2. AboutToWrite' = AboutToWrite
  BY <1>1 DEF AboutToWrite
<1> QED BY <1>1, <1>2 DEF Kept, SaveConfig, Shape, Labels, HoldsDefaults, InDirectory,
            SaveStays, WritersAgree, ConfigurationKept

-----------------------------------------------------------------------------
(* The steps that read and write the configuration. *)
LEMMA ReadConfigKept == ASSUME Kept, NEW p \in Processes, ReadConfig(p) PROVE Kept'
<1>1. UNCHANGED <<configDir, config, saved, raced>> /\ Readable' = Readable
  BY DEF ReadConfig, disk, Readable
<1>2. CASE Readable
  <2>1. /\ conf' = [conf EXCEPT ![p] = Parsed(config)]
        /\ asSaved' = asSaved \cup {p} /\ pc' = [pc EXCEPT ![p] = "logs"]
    BY <1>2 DEF ReadConfig, Goto
  <2>2. AboutToWrite' = AboutToWrite
    BY <2>1 DEF ReadConfig, AboutToWrite, Kept, Shape, Labels
  <2>3. conf'[p] = Parsed(config) /\ \A q \in Processes \ {p} : conf'[q] = conf[q]
    BY <2>1 DEF Kept, Shape, Labels
  <2>4. (Shape /\ HoldsDefaults /\ InDirectory /\ SaveStays)'
    BY <1>1, <2>1, <2>2 DEF Kept, Shape, Labels, HoldsDefaults, InDirectory, SaveStays
  <2>5. WritersAgree'
    BY <1>1, <1>2, <2>1, <2>2, <2>3, DefaultsReadBack
    DEF Kept, WritersAgree, Readable, Shape, Labels
  <2>6. ConfigurationKept'
    BY <1>1, <1>2, <2>1, <2>3 DEF Kept, ConfigurationKept, Shape, Labels
  <2> QED BY <2>4, <2>5, <2>6 DEF Kept
<1>3. CASE ~Readable
  <2>1. UNCHANGED <<conf, asSaved>> /\ pc' = [pc EXCEPT ![p] = "find"] /\ pc[p] = "read"
    BY <1>3 DEF ReadConfig, Goto
  <2>2. ~raced => saved \notin ConfigTexts
    BY <1>3, TextsAreReadable DEF Kept, SaveStays, Readable
  <2>3. ~raced => \A q \in asSaved : conf[q] = Defaults
    BY <1>3 DEF Kept, ConfigurationKept, WritersAgree
  <2>4. (Shape /\ HoldsDefaults /\ InDirectory)'
    BY <1>1, <2>1 DEF Kept, Shape, Labels, HoldsDefaults, InDirectory
  <2>5. (SaveStays /\ WritersAgree /\ ConfigurationKept)'
    BY <1>1, <1>3, <2>1, <2>2, <2>3
    DEF Kept, SaveStays, WritersAgree, ConfigurationKept
  <2> QED BY <2>4, <2>5 DEF Kept
<1> QED BY <1>2, <1>3

LEMMA MakeConfigDirKept ==
  ASSUME Kept, NEW p \in Processes, MakeConfigDir(p) PROVE Kept'
<1>1. UNCHANGED <<config, conf, saved, raced, asSaved>> /\ pc[p] = "mkdir"
  BY DEF MakeConfigDir, history
<1>2. /\ p \in AboutToWrite /\ AboutToWrite' \subseteq AboutToWrite
      /\ ~raced => saved \notin ConfigTexts
  BY <1>1 DEF MakeConfigDir, AboutToWrite, Goto, Exit, Kept, Shape, Labels, SaveStays
<1>3. CASE configDir = "absent"
  <2>1. config = Absent /\ configDir' = "dir" /\ pc' = [pc EXCEPT ![p] = "open"]
    BY <1>3 DEF MakeConfigDir, Goto, Kept, InDirectory
  <2>2. ~raced => asSaved = {}
    BY <1>3, <2>1, WrittenIsReadable DEF Kept, ConfigurationKept, Readable
  <2> QED BY <1>1, <1>2, <2>1, <2>2 DEF Kept, Shape, Labels, HoldsDefaults,
              InDirectory, SaveStays, WritersAgree, ConfigurationKept, Readable
<1>4. CASE configDir # "absent"
  <2>1. configDir' = configDir /\ pc' = [pc EXCEPT ![p] = "exited"]
    BY <1>4 DEF MakeConfigDir, Goto, Exit
  <2>2. Readable' = Readable
    BY <1>1, <2>1 DEF Readable
  <2> QED BY <1>1, <1>2, <2>1, <2>2 DEF Kept, Shape, Labels, HoldsDefaults,
              InDirectory, SaveStays, WritersAgree, ConfigurationKept
<1> QED BY <1>3, <1>4

LEMMA OpenConfigKept == ASSUME Kept, NEW p \in Processes, OpenConfig(p) PROVE Kept'
<1>1. /\ UNCHANGED <<configDir, conf, saved, raced, asSaved>> /\ pc[p] = "open"
      /\ config' = Partial /\ pc' = [pc EXCEPT ![p] = "write"]
  BY DEF OpenConfig, history, Goto
<1>2. /\ p \in AboutToWrite /\ configDir = "dir"
      /\ ~raced => saved \notin ConfigTexts
  BY <1>1 DEF AboutToWrite, Kept, InDirectory, SaveStays
<1>3. ~Readable'
  BY <1>1 DEF Readable
<1> QED BY <1>1, <1>2, <1>3 DEF Kept, Shape, Labels, HoldsDefaults,
            InDirectory, SaveStays, WritersAgree, ConfigurationKept

LEMMA WriteConfigKept ==
  ASSUME Kept, NEW p \in Processes, WriteConfig(p) PROVE Kept'
<1>1. /\ UNCHANGED <<configDir, conf, saved, raced>> /\ pc[p] = "write"
      /\ pc' = [pc EXCEPT ![p] = "logs"] /\ asSaved' = asSaved \cup {p}
  BY DEF WriteConfig, Goto
<1>2. conf[p] = Defaults /\ configDir = "dir"
  BY <1>1 DEF Kept, HoldsDefaults, InDirectory
<1>3. config' = Written(Defaults) /\ Readable'
  BY <1>1, <1>2, WrittenIsReadable DEF WriteConfig, Readable
<1>4. ~raced => saved \notin ConfigTexts /\ \A q \in asSaved' : conf[q] = Defaults
  BY <1>1, <1>2 DEF AboutToWrite, Kept, SaveStays, WritersAgree
<1>5. (Shape /\ HoldsDefaults /\ InDirectory)'
  BY <1>1, <1>2 DEF Kept, Shape, Labels, HoldsDefaults, InDirectory
<1>6. (SaveStays /\ WritersAgree /\ ConfigurationKept)'
  BY <1>1, <1>3, <1>4, DefaultsReadBack DEF SaveStays, WritersAgree, ConfigurationKept
<1> QED BY <1>5, <1>6 DEF Kept

-----------------------------------------------------------------------------
(* Steps that move a start on behind its configuration, or a little before *)
(* it writes.                                                              *)
Onward ==
  /\ UNCHANGED <<configDir, config, conf, saved, raced, asSaved>>
  /\ \/ UNCHANGED pc
     \/ \E p \in Processes :
          \/ /\ pc[p] \in {"logs", "args", "listen", "dotenv", "line"}
             /\ \E l \in {"args", "exited", "listen", "dotenv", "line", "stuck",
                          "serving"} : pc' = [pc EXCEPT ![p] = l]
          \/ /\ pc[p] = "find"
             /\ \/ configDir = "dir" /\ pc' = [pc EXCEPT ![p] = "open"]
                \/ pc' = [pc EXCEPT ![p] = "mkdir"]

LEMMA OnwardKept == ASSUME Kept, Onward PROVE Kept'
<1>1. AboutToWrite' = AboutToWrite /\ Readable' = Readable
  BY DEF Onward, AboutToWrite, Readable, Kept, Shape, Labels
<1>2. (Shape /\ HoldsDefaults /\ InDirectory)'
  BY DEF Onward, Kept, Shape, Labels, HoldsDefaults, InDirectory
<1>3. (SaveStays /\ WritersAgree /\ ConfigurationKept)'
  BY <1>1 DEF Onward, Kept, SaveStays, WritersAgree, ConfigurationKept
<1> QED BY <1>2, <1>3 DEF Kept

LEMMA StepsOnward ==
  ASSUME NEW p \in Processes,
         \/ FindConfigDir(p) \/ OpenLogs(p) \/ ParseArgs(p) \/ CreateListener(p)
         \/ OpenDotenv(p) \/ ReadLine(p) \/ HangInLine(p) \/ OverflowInLine(p)
         \/ AllRead(p) \/ Login(p) \/ \E v \in Variables : LoginMakesKey(p, v)
  PROVE  Onward
<1> USE DEF Onward, Goto, Exit, disk, history, local
<1>1. CASE FindConfigDir(p)  BY <1>1 DEF FindConfigDir
<1>2. CASE OpenLogs(p)  BY <1>2 DEF OpenLogs
<1>3. CASE ParseArgs(p)  BY <1>3 DEF ParseArgs
<1>4. CASE CreateListener(p)  BY <1>4 DEF CreateListener
<1>5. CASE OpenDotenv(p)  BY <1>5 DEF OpenDotenv
<1>6. CASE ReadLine(p) \/ HangInLine(p) \/ OverflowInLine(p) \/ AllRead(p)
  BY <1>6 DEF Reads, ReadLine, HangInLine, OverflowInLine, AllRead
<1>7. CASE Login(p) \/ \E v \in Variables : LoginMakesKey(p, v)
  BY <1>7 DEF Login, LoginMakesKey
<1> QED BY <1>1, <1>2, <1>3, <1>4, <1>5, <1>6, <1>7

LEMMA NextKept == ASSUME Kept, [Next]_vars PROVE Kept'
<1>1. CASE UNCHANGED vars
  BY <1>1, OnwardKept DEF vars, disk, local, history, Onward
<1>2. ASSUME NEW p \in Processes, Step(p) PROVE Kept'
  BY <1>2, ReadConfigKept, MakeConfigDirKept, OpenConfigKept, WriteConfigKept,
     StepsOnward, OnwardKept DEF Step
<1>3. ASSUME NEW p \in Processes,
             Login(p) \/ \E v \in Variables : LoginMakesKey(p, v)
      PROVE  Kept'
  BY <1>3, StepsOnward, OnwardKept
<1> QED BY <1>1, <1>2, <1>3, StartKept, CrashKept, SaveKept DEF Next

(* A configuration the operator saved is not overwritten, and every start  *)
(* takes the configuration the next one will take (config.c:40-240),       *)
(* however many processes start, save and crash at once, unless the save   *)
(* fell between a start's failed look and its write.                       *)
THEOREM SavesAreKept == Spec => []ConfigurationKept
<1>1. Kept => ConfigurationKept
  BY DEF Kept
<1> QED BY InitKept, NextKept, <1>1, PTL DEF Spec

-----------------------------------------------------------------------------
(* What a process knows of its environment. *)
Early == {"read", "find", "mkdir", "open", "write", "logs", "args", "listen",
          "dotenv"}

InOrder(p) ==
  /\ pc[p] = "listen" => ~BadArgument(p)
  /\ pc[p] \in Early => place[p] = Top /\ env[p] = inherited[p]
  /\ pc[p] = "line" =>
       /\ loaded[p] \in Files /\ Fits(loaded[p], place[p])
       /\ env[p] = EnvAt(loaded[p], inherited[p], place[p])
  /\ pc[p] = "serving" =>
       /\ loaded[p] \in Files \cup {Missing}
       /\ env[p] = Delivered(loaded[p], inherited[p])
ReadsInOrder == \A p \in Processes : InOrder(p)

Typed == TypeOK /\ ReadsInOrder

LEMMA ConstantsAreTyped ==
  /\ Nothing \in Environs /\ Environments \subseteq Environs
  /\ Defaults \in Configs /\ Top \in [line : Nat, piece : Nat]
BY Texts, Widths DEF Nothing, Environs, Defaults, Configs, Top, Ports

LEMMA InitTyped == Init => Typed
<1> SUFFICES ASSUME Init PROVE Typed
  OBVIOUS
<1>1. TypeOK
  <2>1. /\ keyFile \in [Variables -> 0 .. MaxKeys]
        /\ starts \in 0 .. MaxStarts /\ saves \in 0 .. MaxSaves
    BY Bounds DEF Init
  <2>2. /\ pc \in [Processes -> Labels] /\ arg \in [Processes -> Arguments \cup {{}}]
        /\ conf \in [Processes -> Configs] /\ at \in [Processes -> Ports \cup {Unset}]
        /\ env \in [Processes -> Environs] /\ inherited \in [Processes -> Environs]
        /\ loaded \in [Processes -> Dotenvs \cup {Missing}]
        /\ place \in [Processes -> [line : Nat, piece : Nat]]
    BY ConstantsAreTyped DEF Init, Labels
  <2> QED BY <2>1, <2>2 DEF Init, TypeOK
<1>2. ReadsInOrder
  BY DEF Init, ReadsInOrder, InOrder, Early
<1> QED BY <1>1, <1>2 DEF Typed

LEMMA StartTyped == ASSUME Typed, NEW p \in Processes, Start(p) PROVE Typed'
<1>1. PICK a \in Arguments, e \in Environments :
        /\ arg' = [arg EXCEPT ![p] = a]
        /\ inherited' = [inherited EXCEPT ![p] = e]
        /\ env' = [env EXCEPT ![p] = e]
  BY DEF Start
<1>2. e \in Environs
  BY ConstantsAreTyped
<1>3. TypeOK'
  <2>1. /\ pc' \in [Processes -> Labels] /\ arg' \in [Processes -> Arguments \cup {{}}]
        /\ conf' \in [Processes -> Configs] /\ at' \in [Processes -> Ports \cup {Unset}]
        /\ env' \in [Processes -> Environs] /\ inherited' \in [Processes -> Environs]
        /\ loaded' \in [Processes -> Dotenvs \cup {Missing}]
        /\ place' \in [Processes -> [line : Nat, piece : Nat]]
    BY <1>1, <1>2, ConstantsAreTyped DEF Start, Typed, TypeOK, Labels
  <2>2. starts' \in 0 .. MaxStarts /\ alone' \subseteq Processes
        /\ asSaved' \subseteq Processes
    BY Bounds DEF Start, Typed, TypeOK
  <2> QED BY <2>1, <2>2 DEF Start, Typed, TypeOK, disk
<1>4. ReadsInOrder'
  <2>1. InOrder(p)'
    BY <1>1 DEF Start, Typed, TypeOK, InOrder, Early
  <2>2. ASSUME NEW q \in Processes \ {p} PROVE InOrder(q)'
    <3>1. /\ pc'[q] = pc[q] /\ env'[q] = env[q] /\ inherited'[q] = inherited[q]
          /\ arg'[q] = arg[q] /\ loaded'[q] = loaded[q] /\ place'[q] = place[q]
      BY <1>1 DEF Start, Typed, TypeOK
    <3> QED BY <3>1 DEF Typed, ReadsInOrder, InOrder, BadArgument
  <2> QED BY <2>1, <2>2 DEF ReadsInOrder
<1> QED BY <1>3, <1>4 DEF Typed

LEMMA CrashTyped == ASSUME Typed, NEW p \in Processes, Crash(p) PROVE Typed'
<1>1. TypeOK'
  BY ConstantsAreTyped DEF Crash, Typed, TypeOK, Labels, Down, disk
<1>2. ReadsInOrder'
  <2>1. InOrder(p)'
    BY DEF Crash, Typed, TypeOK, InOrder, Early
  <2>2. ASSUME NEW q \in Processes \ {p} PROVE InOrder(q)'
    <3>1. /\ pc'[q] = pc[q] /\ env'[q] = env[q] /\ inherited'[q] = inherited[q]
          /\ arg'[q] = arg[q] /\ loaded'[q] = loaded[q] /\ place'[q] = place[q]
      BY DEF Crash, Typed, TypeOK
    <3> QED BY <3>1 DEF Typed, ReadsInOrder, InOrder, BadArgument
  <2> QED BY <2>1, <2>2 DEF ReadsInOrder
<1> QED BY <1>1, <1>2 DEF Typed

LEMMA SaveTyped ==
  ASSUME Typed, NEW text \in ConfigTexts \cup {Broken}, SaveConfig(text)
  PROVE  Typed'
<1>1. TypeOK'
  <2>1. saves' \in 0 .. MaxSaves
    BY Bounds DEF SaveConfig, Typed, TypeOK
  <2>2. raced' \in BOOLEAN /\ alone' \subseteq Processes /\ asSaved' \subseteq Processes
    BY DEF SaveConfig, Typed, TypeOK
  <2>3. saved' \in ConfigTexts \cup {Absent, Broken}
        /\ config' \in {Absent, Partial, Broken, Written(Defaults)} \cup ConfigTexts
        /\ configDir' = "dir"
    BY DEF SaveConfig
  <2> QED BY <2>1, <2>2, <2>3 DEF SaveConfig, Typed, TypeOK, local
<1>2. ReadsInOrder'
  BY DEF SaveConfig, Typed, ReadsInOrder, InOrder, BadArgument, local
<1> QED BY <1>1, <1>2 DEF Typed

(* Steps of a process that change nothing its environment depends on. *)
LEMMA OthersInOrder ==
  ASSUME Typed, NEW p \in Processes, NEW l \in Labels,
         pc' = [pc EXCEPT ![p] = l],
         UNCHANGED <<arg, env, inherited, loaded, place>>,
         l = "listen" => ~BadArgument(p),
         l \in Early => pc[p] \in Early,
         l # "line", l # "serving"
  PROVE  ReadsInOrder'
BY DEF Typed, TypeOK, ReadsInOrder, InOrder, BadArgument

LEMMA PortTyped ==
  ASSUME Typed, NEW p \in Processes, pc[p] = "listen" PROVE Port(p) \in Ports
<1>1. arg[p] \subseteq Ports
  <2>1. arg[p] \subseteq Nat /\ ~BadArgument(p)
    BY Texts DEF Typed, TypeOK, ReadsInOrder, InOrder
  <2> QED BY <2>1 DEF BadArgument
<1>2. conf[p].port \in Ports
  BY DEF Typed, TypeOK, Configs
<1> QED BY <1>1, <1>2 DEF Port

LEMMA ParsedTyped ==
  ASSUME NEW text \in ConfigTexts \cup {Written(Defaults)}
  PROVE  Parsed(text) \in Configs
<1>1. text.port \in Nat
  BY Texts, Widths DEF Written, Defaults, Ports
<1>2. \A n, m \in Nat : n % (m + 1) \in 0 .. m
  OBVIOUS
<1>3. text.port % (MaxPort + 1) \in Ports
  BY <1>1, <1>2, Widths DEF Ports
<1>4. LogType(text.log) \in {"Both", "File", "Console"}
  BY DEF LogType
<1> QED BY <1>3, <1>4 DEF Parsed, Configs

LEMMA ConfigTyped ==
  ASSUME Typed, Kept, NEW p \in Processes,
         \/ ReadConfig(p) \/ FindConfigDir(p) \/ MakeConfigDir(p)
         \/ OpenConfig(p) \/ WriteConfig(p) \/ OpenLogs(p) \/ ParseArgs(p)
         \/ CreateListener(p)
  PROVE  Typed'
<1> USE DEF Goto, Exit, disk, history
<1>1. CASE ReadConfig(p)
  <2>1. CASE Readable
    <3>1. config \in ConfigTexts \cup {Written(Defaults)}
      BY <2>1 DEF Readable, Typed, TypeOK
    <3>2. Parsed(config) \in Configs
      BY <3>1, ParsedTyped
    <3>3. TypeOK'
      BY <1>1, <2>1, <3>2 DEF ReadConfig, Typed, TypeOK, Labels
    <3>4. ReadsInOrder'
      BY <1>1, <2>1, OthersInOrder DEF ReadConfig, Labels, Early
    <3> QED BY <3>3, <3>4 DEF Typed
  <2>2. CASE ~Readable
    <3>1. TypeOK'
      BY <1>1, <2>2 DEF ReadConfig, Typed, TypeOK, Labels
    <3>2. ReadsInOrder'
      BY <1>1, <2>2, OthersInOrder DEF ReadConfig, Labels, Early
    <3> QED BY <3>1, <3>2 DEF Typed
  <2> QED BY <2>1, <2>2
<1>2. CASE FindConfigDir(p)
  <2>1. TypeOK'
    BY <1>2 DEF FindConfigDir, Typed, TypeOK, Labels
  <2>2. ReadsInOrder'
    BY <1>2, OthersInOrder DEF FindConfigDir, Labels, Early
  <2> QED BY <2>1, <2>2 DEF Typed
<1>3. CASE MakeConfigDir(p)
  <2>1. TypeOK'
    BY <1>3 DEF MakeConfigDir, Typed, TypeOK, Labels
  <2>2. ReadsInOrder'
    BY <1>3, OthersInOrder DEF MakeConfigDir, Labels, Early
  <2> QED BY <2>1, <2>2 DEF Typed
<1>4. CASE OpenConfig(p)
  <2>1. configDir = "dir"
    BY <1>4 DEF OpenConfig, Kept, InDirectory
  <2>2. TypeOK'
    BY <1>4, <2>1 DEF OpenConfig, Typed, TypeOK, Labels
  <2>3. ReadsInOrder'
    BY <1>4, OthersInOrder DEF OpenConfig, Labels, Early
  <2> QED BY <2>2, <2>3 DEF Typed
<1>5. CASE WriteConfig(p)
  <2>1. configDir = "dir" /\ conf[p] = Defaults
    BY <1>5 DEF WriteConfig, Kept, InDirectory, HoldsDefaults
  <2>2. TypeOK'
    BY <1>5, <2>1 DEF WriteConfig, Typed, TypeOK, Labels
  <2>3. ReadsInOrder'
    BY <1>5, OthersInOrder DEF WriteConfig, Labels, Early
  <2> QED BY <2>2, <2>3 DEF Typed
<1>6. CASE OpenLogs(p)
  <2>1. TypeOK'
    BY <1>6 DEF OpenLogs, Typed, TypeOK, Labels
  <2>2. ReadsInOrder'
    BY <1>6, OthersInOrder DEF OpenLogs, Labels, Early
  <2> QED BY <2>1, <2>2 DEF Typed
<1>7. CASE ParseArgs(p)
  <2>1. TypeOK'
    BY <1>7 DEF ParseArgs, Typed, TypeOK, Labels
  <2>2. ReadsInOrder'
    BY <1>7, OthersInOrder DEF ParseArgs, Labels, Early
  <2> QED BY <2>1, <2>2 DEF Typed
<1>8. CASE CreateListener(p)
  <2>1. Port(p) \in Ports
    BY <1>8, PortTyped DEF CreateListener
  <2>2. TypeOK'
    BY <1>8, <2>1 DEF CreateListener, Typed, TypeOK, Labels
  <2>3. ReadsInOrder'
    BY <1>8, OthersInOrder DEF CreateListener, Labels, Early
  <2> QED BY <2>2, <2>3 DEF Typed
<1> QED BY <1>1, <1>2, <1>3, <1>4, <1>5, <1>6, <1>7, <1>8

LEMMA DotenvTyped ==
  ASSUME Typed, NEW p \in Processes,
         OpenDotenv(p) \/ ReadLine(p) \/ HangInLine(p) \/ OverflowInLine(p)
         \/ AllRead(p)
  PROVE  Typed'
<1> USE DEF Goto, Exit, disk, history
<1>1. CASE OpenDotenv(p)
  <2>1. PICK d \in Dotenvs :
          /\ loaded' = [loaded EXCEPT ![p] = d]
          /\ \/ d = Missing /\ pc' = [pc EXCEPT ![p] = "serving"]
             \/ d = Directory /\ pc' = [pc EXCEPT ![p] = "stuck"]
             \/ d \notin {Missing, Directory} /\ pc' = [pc EXCEPT ![p] = "line"]
    BY <1>1 DEF OpenDotenv
  <2>2. TypeOK'
    BY <1>1, <2>1 DEF OpenDotenv, Typed, TypeOK, Labels
  <2>3. InOrder(p)'
    <3>1. /\ loaded'[p] = d /\ inherited[p] \in Environs
          /\ place[p] = Top /\ env[p] = inherited[p]
          /\ UNCHANGED <<place, env, inherited>>
      BY <1>1, <2>1 DEF OpenDotenv, Typed, TypeOK, ReadsInOrder, InOrder, Early
    <3>2. CASE d = Missing
      <4>1. pc'[p] = "serving"
        BY <2>1, <3>2, Texts DEF Typed, TypeOK
      <4> QED BY <3>1, <3>2, <4>1 DEF InOrder, Delivered, Early
    <3>3. CASE d = Directory
      <4>1. pc'[p] = "stuck"
        BY <2>1, <3>3, Texts DEF Typed, TypeOK
      <4> QED BY <4>1 DEF InOrder, Early
    <3>4. CASE d \notin {Missing, Directory}
      <4>1. pc'[p] = "line" /\ d \in Files
        BY <2>1, <3>4 DEF Typed, TypeOK, Files
      <4>2. Fits(d, Top) /\ EnvAt(d, inherited[p], Top) = inherited[p]
        BY <3>1, <4>1, TopFits, TopEnv
      <4> QED BY <3>1, <4>1, <4>2 DEF InOrder, Early
    <3> QED BY <3>2, <3>3, <3>4
  <2>4. ASSUME NEW q \in Processes \ {p} PROVE InOrder(q)'
    <3>1. /\ pc'[q] = pc[q] /\ loaded'[q] = loaded[q]
          /\ UNCHANGED <<env, inherited, arg, place>>
      BY <1>1, <2>1 DEF OpenDotenv, Typed, TypeOK
    <3> QED BY <3>1 DEF Typed, ReadsInOrder, InOrder, BadArgument
  <2> QED BY <2>2, <2>3, <2>4 DEF Typed, ReadsInOrder
<1>2. CASE ReadLine(p)
  <2> DEFINE d == loaded[p]
             y == place[p]
  <2>1. /\ d \in Files /\ y \in Places(d) /\ Line(p) = Piece(d, y)
        /\ env[p] = EnvAt(d, inherited[p], y) /\ pc[p] = "line"
    <3>1. /\ pc[p] = "line" /\ y.line <= Len(d) /\ d \in Files /\ Fits(d, y)
          /\ env[p] = EnvAt(d, inherited[p], y)
      BY <1>2 DEF ReadLine, Reads, Typed, ReadsInOrder, InOrder
    <3>2. y # End(d)
      BY <3>1, FilesAreLines DEF End
    <3> QED BY <3>1, <3>2 DEF Fits, Line
  <2>2. /\ env' = [env EXCEPT ![p] = IF Sets(Piece(d, y))
                                      THEN SetEnv(env[p], Piece(d, y)) ELSE env[p]]
        /\ place' = [place EXCEPT ![p] = NextPlace(d, y)]
        /\ UNCHANGED <<pc, arg, inherited, loaded>>
    BY <1>2, <2>1 DEF ReadLine
  <2>3. env[p] \in Environs
    BY DEF Typed, TypeOK
  <2>4. env'[p] \in Environs /\ env'[p] = EnvAt(d, inherited[p], NextPlace(d, y))
    <3>1. env'[p] = IF Sets(Piece(d, y)) THEN SetEnv(env[p], Piece(d, y)) ELSE env[p]
      BY <2>2 DEF Typed, TypeOK
    <3> QED BY <2>1, <2>3, <3>1, NextEnv, NextEnvTyped
  <2>5. NextPlace(d, y) \in [line : Nat, piece : Nat]
    BY <2>1, FilesAreLines DEF NextPlace, Places
  <2>6. place'[p] = NextPlace(d, y) /\ Fits(d, NextPlace(d, y))
    BY <2>1, <2>2, NextFits DEF Typed, TypeOK
  <2> HIDE DEF d, y
  <2>7. env' \in [Processes -> Environs]
        /\ place' \in [Processes -> [line : Nat, piece : Nat]]
    BY <2>2, <2>4, <2>5 DEF Typed, TypeOK
  <2>8. TypeOK'
    BY <1>2, <2>7 DEF ReadLine, Typed, TypeOK
  <2>9. InOrder(p)'
    BY <2>1, <2>2, <2>4, <2>6 DEF InOrder, Early, d
  <2>10. ASSUME NEW q \in Processes \ {p} PROVE InOrder(q)'
    <3>1. env'[q] = env[q] /\ place'[q] = place[q]
      BY <2>2 DEF Typed, TypeOK
    <3> QED BY <2>2, <3>1 DEF Typed, ReadsInOrder, InOrder, BadArgument
  <2> QED BY <2>8, <2>9, <2>10 DEF Typed, ReadsInOrder
<1>3. CASE HangInLine(p)
  <2>1. TypeOK'
    BY <1>3 DEF HangInLine, Typed, TypeOK, Labels
  <2>2. ReadsInOrder'
    BY <1>3, OthersInOrder DEF HangInLine, Labels, Early
  <2> QED BY <2>1, <2>2 DEF Typed
<1>4. CASE OverflowInLine(p)
  <2>1. TypeOK'
    BY <1>4 DEF OverflowInLine, Typed, TypeOK, Labels
  <2>2. ReadsInOrder'
    BY <1>4, OthersInOrder DEF OverflowInLine, Labels, Early
  <2> QED BY <2>1, <2>2 DEF Typed
<1>5. CASE AllRead(p)
  <2>1. TypeOK'
    BY <1>5 DEF AllRead, Typed, TypeOK, Labels
  <2>2. /\ loaded[p] \in Files /\ place[p] = End(loaded[p])
        /\ env[p] = EnvAt(loaded[p], inherited[p], place[p])
    <3>1. /\ loaded[p] \in Files /\ Fits(loaded[p], place[p])
          /\ ~(place[p].line <= Len(loaded[p]))
          /\ env[p] = EnvAt(loaded[p], inherited[p], place[p])
      BY <1>5 DEF AllRead, Reads, Typed, ReadsInOrder, InOrder
    <3>2. place[p] \notin Places(loaded[p])
      BY <3>1, FilesAreLines DEF Places
    <3> QED BY <3>1, <3>2 DEF Fits
  <2>3. InOrder(p)'
    <3>1. pc'[p] = "serving" /\ UNCHANGED <<arg, env, inherited, loaded, place>>
      BY <1>5 DEF AllRead, Typed, TypeOK
    <3>2. loaded[p] # Missing
      BY <2>2 DEF Files
    <3> QED BY <2>2, <3>1, <3>2 DEF InOrder, Early, Delivered
  <2>4. ASSUME NEW q \in Processes \ {p} PROVE InOrder(q)'
    <3>1. pc'[q] = pc[q] /\ UNCHANGED <<arg, env, inherited, loaded, place>>
      BY <1>5 DEF AllRead, Typed, TypeOK
    <3> QED BY <3>1 DEF Typed, ReadsInOrder, InOrder, BadArgument
  <2> QED BY <2>1, <2>3, <2>4 DEF Typed, ReadsInOrder
<1> QED BY <1>1, <1>2, <1>3, <1>4, <1>5

LEMMA LoginTyped ==
  ASSUME Typed, NEW p \in Processes,
         Login(p) \/ \E v \in Variables : LoginMakesKey(p, v)
  PROVE  Typed'
<1>1. CASE Login(p)
  <2>1. TypeOK'
    BY <1>1 DEF Login, Typed, TypeOK, disk, local, history
  <2>2. ReadsInOrder'
    BY <1>1 DEF Login, Typed, ReadsInOrder, InOrder, BadArgument, local
  <2> QED BY <2>1, <2>2 DEF Typed
<1>2. CASE \E v \in Variables : LoginMakesKey(p, v)
  <2>1. PICK v \in Variables : LoginMakesKey(p, v)
    BY <1>2
  <2>2. keyFile' \in [Variables -> 0 .. MaxKeys]
    BY <2>1, Bounds DEF LoginMakesKey, Typed, TypeOK
  <2>3. TypeOK'
    BY <2>1, <2>2 DEF LoginMakesKey, Typed, TypeOK, disk, local, history
  <2>4. ReadsInOrder'
    BY <2>1 DEF LoginMakesKey, Typed, ReadsInOrder, InOrder, BadArgument, local
  <2> QED BY <2>3, <2>4 DEF Typed
<1> QED BY <1>1, <1>2

LEMMA NextTyped == ASSUME Typed, Kept, [Next]_vars PROVE Typed'
<1>1. CASE UNCHANGED vars
  BY <1>1 DEF vars, disk, local, history, Typed, TypeOK, ReadsInOrder, InOrder,
              BadArgument
<1>2. ASSUME NEW p \in Processes, Step(p) PROVE Typed'
  BY <1>2, ConfigTyped, DotenvTyped DEF Step
<1> QED BY <1>1, <1>2, StartTyped, CrashTyped, SaveTyped, LoginTyped DEF Next

(* Whatever is started, saved, crashed and read, every variable has a value *)
(* of its kind: config.json is missing, cut off, misspelt, a text the       *)
(* operator may save or the defaults, every port fits its width, and what   *)
(* parse_line puts into the environment is text (config.c:39-240,           *)
(* main.c:115-284, dotenv.c:8-104).                                         *)
THEOREM StartupTypeCorrect == Spec => []TypeOK
<1>1. Typed => TypeOK
  BY DEF Typed
<1> QED BY InitKept, NextKept, InitTyped, NextTyped, <1>1, PTL DEF Spec

-----------------------------------------------------------------------------
(* The last line that means a variable gives it its value. *)
LEMMA DeliveredAsMeant ==
  ASSUME NEW d \in PlainDotenvs, NEW e, NEW v \in Variables
  PROVE  Delivered(d, e)[v] \in EnvironmentMeant(d, e, v) \/ d = Missing
<1> SUFFICES ASSUME d # Missing
             PROVE  Delivered(d, e)[v] \in EnvironmentMeant(d, e, v)
  OBVIOUS
<1> DEFINE values(i) == {pair[2] : pair \in {m \in Meant(d[i]) : m[1] = v}}
           sets(i) == Sets(d[i]) /\ KeyOf(d[i]) = v
           setting == {i \in DOMAIN d : values(i) # {}}
           S == Setting(d, v, End(d))
           x(i) == [line |-> i, piece |-> 0]
<1>1. /\ d \in Files /\ Places(d) = [line : DOMAIN d, piece : {0}]
      /\ \A z \in Places(d) : Piece(d, z) = d[z.line] /\ Plain(d[z.line])
  BY PlainPieces
<1>2. DOMAIN d = 1 .. Len(d) /\ Len(d) \in Nat
  BY <1>1, FilesAreLines
<1>3. ASSUME NEW i \in DOMAIN d
      PROVE  values(i) = IF sets(i) THEN {ValueOf(d[i])} ELSE {}
  <2>1. Plain(d[i])
    <3>1. x(i) \in Places(d)
      BY <1>1
    <3> QED BY <1>1, <3>1
  <2>2. Meant(d[i]) = IF Sets(d[i]) THEN {<<KeyOf(d[i]), ValueOf(d[i])>>} ELSE {}
    BY <1>1, <1>2, <2>1, FilesAreLines, LineAsMeant
  <2>3. CASE sets(i)
    <3>1. {m \in Meant(d[i]) : m[1] = v} = {<<v, ValueOf(d[i])>>}
      BY <2>2, <2>3
    <3> DEFINE P == {m \in Meant(d[i]) : m[1] = v}
               w == ValueOf(d[i])
    <3>2. P = {<<v, w>>}
      BY <3>1
    <3> HIDE DEF P, w
    <3>3. {pair[2] : pair \in P} = {w}
      BY <3>2
    <3> QED BY <2>3, <3>3 DEF P, w
  <2>4. CASE ~sets(i)
    <3>1. {m \in Meant(d[i]) : m[1] = v} = {}
      BY <2>2, <2>4
    <3> QED BY <2>4, <3>1
  <2> QED BY <2>3, <2>4
<1>4. setting = {i \in DOMAIN d : sets(i)}
  BY <1>3
<1>5. S = {z \in Places(d) : sets(z.line)}
  <2>1. \A z \in Places(d) : Before(z, End(d))
    BY <1>1, <1>2 DEF Before, End
  <2> QED BY <1>1, <2>1 DEF Setting
<1> HIDE DEF S, setting
<1>6. CASE setting = {}
  <2>1. S = {}
    BY <1>1, <1>4, <1>5, <1>6
  <2>2. Delivered(d, e)[v] = e[v]
    BY <2>1 DEF Delivered, EnvAt, S
  <2>3. EnvironmentMeant(d, e, v) = {e[v]}
    BY <1>6 DEF EnvironmentMeant, setting
  <2> QED BY <2>2, <2>3
<1>7. CASE setting # {}
  <2>1. /\ setting \subseteq 1 .. Len(d)
    BY <1>2, <1>4
  <2> DEFINE i == CHOOSE i \in setting : \A j \in setting : j <= i
             top == x(i)
  <2>2. i \in setting /\ \A j \in setting : j <= i
    BY <1>2, <1>7, <2>1, GreatestIndex
  <2> HIDE DEF i
  <2>3. i \in DOMAIN d /\ sets(i)
    BY <1>4, <2>2
  <2>4. top \in S
    BY <1>1, <1>5, <2>3
  <2>5. ASSUME NEW z \in S PROVE z = top \/ Before(z, top)
    <3>1. z \in [line : DOMAIN d, piece : {0}] /\ sets(z.line)
      BY <1>1, <1>5
    <3>2. z.line <= i /\ z = [line |-> z.line, piece |-> 0]
      BY <1>4, <2>2, <3>1
    <3>3. z.line = i \/ z.line < i
      BY <1>2, <2>3, <3>1, <3>2
    <3> QED BY <3>2, <3>3 DEF Before
  <2>6. LastOf(S) = top
    <3>1. S \in SUBSET Places(d)
      BY <1>5
    <3> HIDE DEF top
    <3> QED BY <1>1, <2>4, <2>5, <3>1, OneLast
  <2>7. Delivered(d, e)[v] = ValueOf(d[i])
    <3>1. Piece(d, top) = d[i] /\ S # {}
      BY <1>1, <2>3, <2>4
    <3>2. Delivered(d, e)[v] = ValueOf(Piece(d, LastOf(S)))
      BY <3>1 DEF Delivered, EnvAt, S
    <3> QED BY <2>6, <3>1, <3>2
  <2>8. values(i) = {ValueOf(d[i])}
    BY <1>3, <2>3
  <2>9. EnvironmentMeant(d, e, v) = values(i)
    <3>1. (IF d = Missing THEN {} ELSE {j \in DOMAIN d : values(j) # {}}) = setting
      BY DEF setting
    <3>2. EnvironmentMeant(d, e, v) =
            IF setting = {} THEN {e[v]}
            ELSE values(CHOOSE j \in setting : \A k \in setting : k <= j)
      BY <3>1 DEF EnvironmentMeant
    <3> QED BY <1>7, <3>2 DEF i
  <2> QED BY <2>7, <2>8, <2>9
<1> QED BY <1>6, <1>7

LEMMA ServesAsWritten == ASSUME Typed PROVE EnvironmentAsWritten
<1> SUFFICES ASSUME NEW p \in Processes, pc[p] = "serving",
                    loaded[p] \in PlainDotenvs, NEW v \in Variables
             PROVE  env[p][v] \in EnvironmentMeant(loaded[p], inherited[p], v)
  BY DEF EnvironmentAsWritten
<1>1. env[p] = Delivered(loaded[p], inherited[p])
  BY DEF Typed, ReadsInOrder, InOrder
<1>2. CASE loaded[p] = Missing
  BY <1>1, <1>2 DEF Delivered, EnvironmentMeant
<1>3. CASE loaded[p] # Missing
  BY <1>1, <1>3, DeliveredAsMeant
<1> QED BY <1>2, <1>3

(* Once it serves, a process whose .env has only plain lines has for each   *)
(* variable what the last line that means it says, read as its author      *)
(* meant it, and where there is none what it inherited: whatever the lines, *)
(* their number and their length (dotenv.c:8-104).                          *)
THEOREM EnvironmentIsAsWritten == Spec => []EnvironmentAsWritten
BY InitKept, NextKept, InitTyped, NextTyped, ServesAsWritten, PTL DEF Spec

-----------------------------------------------------------------------------
(* Keys. *)
Letters == STRING \cup {toupper[c] : c \in DOMAIN toupper}

LEMMA UpperIsText ==
  ASSUME NEW str \in Seq(STRING)
  PROVE  /\ ToUpper(str) \in Seq(Letters) /\ Len(ToUpper(str)) = Len(str)
         /\ \A i \in 1 .. Len(str) :
              ToUpper(str)[i] =
                IF str[i] \in DOMAIN toupper THEN toupper[str[i]] ELSE str[i]
<1>1. DOMAIN str = 1 .. Len(str) /\ Len(str) \in Nat
  OBVIOUS
<1>2. \A i \in 1 .. Len(str) : ToUpper(str)[i] =
                IF str[i] \in DOMAIN toupper THEN toupper[str[i]] ELSE str[i]
  BY <1>1 DEF ToUpper
<1>3. ToUpper(str) \in [1 .. Len(str) -> Letters]
  <2>1. \A i \in 1 .. Len(str) : str[i] \in STRING
    OBVIOUS
  <2> QED BY <1>1, <2>1 DEF ToUpper, Letters
<1> QED BY <1>1, <1>2, <1>3

LEMMA UpperOfPart ==
  ASSUME NEW str \in Seq(STRING), NEW n \in Nat, n <= Len(str)
  PROVE  ToUpper(SubSeq(str, 1, n)) = SubSeq(ToUpper(str), 1, n)
<1> DEFINE s == SubSeq(str, 1, n)
           u == ToUpper(str)
           t == SubSeq(u, 1, n)
<1>1. s \in Seq(STRING) /\ Len(s) = n - 1 + 1
      /\ \A i \in 1 .. (n - 1 + 1) : s[i] = str[1 + i - 1]
  BY Part
<1>2. u \in Seq(Letters) /\ Len(u) = Len(str)
  BY UpperIsText
<1>3. t \in Seq(Letters) /\ Len(t) = n - 1 + 1
      /\ \A i \in 1 .. (n - 1 + 1) : t[i] = u[1 + i - 1]
  <2> HIDE DEF u
  <2> QED BY <1>2, PartOf
<1>4. n - 1 + 1 = n /\ \A i \in 1 .. n : 1 + i - 1 = i
  OBVIOUS
<1> HIDE DEF s, t
<1>5. ToUpper(s) \in Seq(Letters) /\ Len(ToUpper(s)) = n
  BY <1>1, <1>4, UpperIsText
<1>6. ASSUME NEW i \in 1 .. n PROVE ToUpper(s)[i] = t[i]
  <2>1. s[i] = str[i] /\ t[i] = u[i] /\ i \in 1 .. Len(s) /\ i \in 1 .. Len(str)
    BY <1>1, <1>3, <1>4
  <2> QED BY <1>1, <2>1, UpperIsText
<1>7. ToUpper(s) = t
  BY <1>3, <1>4, <1>5, <1>6, SeqEqual
<1> QED BY <1>7 DEF s, t

(* What an environment names as a key. *)
NamedIn(e, v) ==
  IF e[v] = Unset THEN <<>> ELSE SubSeq(ToUpper(e[v]), 1, 2 * KeyBytes)

(* A key that is used is the one its variable names. *)
LEMMA KeyIsNamed ==
  ASSUME Typed, NEW p \in Processes, NEW v \in Variables, NEW k \in JwtKey(p, v)
  PROVE  k = NamedIn(env[p], v)
<1> DEFINE K == 2 * KeyBytes
           value == IF env[p][v] = Unset THEN <<>> ELSE env[p][v]
           other == FirstNotIn(value, Hex)
<1>1. K \in Nat \ {0}
  BY Widths
<1>2. k = ToUpper(Digits(p, v)) /\ Len(Digits(p, v)) = K
  BY DEF JwtKey, Usable
<1>3. env[p] \in Environs /\ value \in Seq(STRING)
  BY EmptySeq DEF Typed, TypeOK, Environs
<1>4. Digits(p, v) = IF other = 0 THEN value ELSE SubSeq(value, 1, other - 1)
  BY DEF Digits
<1>5. other \in 0 .. Len(value) /\ Len(value) \in Nat
  BY <1>3, FirstNotInIs
<1> HIDE DEF other, K
<1>6. value # <<>>
  <2>1. SUFFICES ASSUME value = <<>> PROVE FALSE
    OBVIOUS
  <2>2. Len(value) = 0
    BY <2>1, EmptySeq
  <2>3. other = 0
    BY <1>5, <2>2
  <2> QED BY <1>1, <1>2, <1>4, <2>2, <2>3
<1>7. env[p][v] # Unset
  BY <1>6
<1>a. NamedIn(env[p], v) = SubSeq(ToUpper(value), 1, K)
  BY <1>7 DEF NamedIn, K
<1> HIDE DEF value
<1>8. CASE other = 0
  <2>1. ToUpper(value) \in Seq(Letters) /\ Len(ToUpper(value)) = K
    BY <1>2, <1>3, <1>4, <1>8, UpperIsText
  <2> QED BY <1>2, <1>4, <1>8, <1>a, <2>1, SubSeqFull
<1>9. CASE other # 0
  <2>1. Len(SubSeq(value, 1, other - 1)) = (other - 1) - 1 + 1
    BY <1>3, <1>5, <1>9, Part
  <2>2. other - 1 = K
    BY <1>2, <1>4, <1>5, <1>9, <2>1
  <2> QED BY <1>1, <1>2, <1>3, <1>4, <1>5, <1>9, <1>a, <2>2, UpperOfPart
<1> QED BY <1>8, <1>9

(* Every token was made with the keys its .env and inheritance name. *)
MintedWithNamed ==
  \A t \in minted :
    /\ t.access = NamedIn(Delivered(t.dotenv, t.env), AccessKey)
    /\ t.refresh = NamedIn(Delivered(t.dotenv, t.env), RefreshKey)

LEMMA NextMinted ==
  ASSUME Typed, MintedWithNamed, [Next]_vars PROVE MintedWithNamed'
<1>1. CASE UNCHANGED minted
  BY <1>1 DEF MintedWithNamed
<1>2. ASSUME NEW p \in Processes, Login(p) PROVE MintedWithNamed'
  <2>1. PICK a \in JwtKey(p, AccessKey), r \in JwtKey(p, RefreshKey) :
          minted' = minted \cup {[access |-> a, refresh |-> r,
                                  dotenv |-> loaded[p], env |-> inherited[p]]}
    BY <1>2 DEF Login
  <2>2. env[p] = Delivered(loaded[p], inherited[p])
    BY <1>2 DEF Login, Typed, ReadsInOrder, InOrder
  <2>3. a = NamedIn(env[p], AccessKey) /\ r = NamedIn(env[p], RefreshKey)
    BY KeyIsNamed DEF Variables
  <2> QED BY <2>1, <2>2, <2>3 DEF MintedWithNamed
<1>3. ASSUME NEW p \in Processes, Step(p) PROVE UNCHANGED minted
  BY <1>3 DEF Step, ReadConfig, FindConfigDir, MakeConfigDir, OpenConfig,
     WriteConfig, OpenLogs, ParseArgs, CreateListener, OpenDotenv, ReadLine,
     HangInLine, OverflowInLine, AllRead
<1> QED BY <1>1, <1>2, <1>3 DEF Next, Start, Crash, SaveConfig, LoginMakesKey, vars

LEMMA MintedOutlive ==
  ASSUME Typed, MintedWithNamed PROVE TokensOutlive
<1> SUFFICES ASSUME NEW p \in Processes, NEW t \in minted, pc[p] = "serving",
                    loaded[p] = t.dotenv, inherited[p] = t.env
             PROVE  t.access = Named(p, AccessKey) /\ t.refresh = Named(p, RefreshKey)
  BY DEF TokensOutlive
<1>1. env[p] = Delivered(t.dotenv, t.env)
  BY DEF Typed, ReadsInOrder, InOrder
<1> QED BY <1>1 DEF MintedWithNamed, Named, NamedIn

(* A token outlives its process: every process that serves with the same    *)
(* .env and the same inheritance verifies with the keys the token was made  *)
(* with, whatever either file says, and none of them is a key that was made *)
(* for want of one (jwt.c:77-129, dotenv.c:68-104).                         *)
THEOREM TokensOutliveProcesses == Spec => []TokensOutlive
<1>1. Init => MintedWithNamed
  BY DEF Init, MintedWithNamed
<1> QED BY InitKept, NextKept, InitTyped, NextTyped, <1>1, NextMinted,
           MintedOutlive, PTL DEF Spec

-----------------------------------------------------------------------------
(* A start that nobody comes in between of.                                *)

Waiting == {"off", "exited"} \cup (Early \ {"dotenv"})

(* Nobody else is up, only who listens has a port, and the directory a     *)
(* start did not find is still not there.                                  *)
Lonely ==
  /\ \A p \in alone : Processes \ {p} \subseteq Down
  /\ \A p \in Processes : pc[p] \in Waiting => at[p] = Unset
  /\ \A p \in alone : pc[p] = "mkdir" => configDir \in {"absent", "file"}
  /\ LoneStartServes

LEMMA InitLonely == Init => Lonely
BY DEF Init, Lonely, LoneStartServes

LEMMA StartLonely ==
  ASSUME Typed, Lonely, NEW p \in Processes, Start(p) PROVE Lonely'
<1>1. /\ pc' = [pc EXCEPT ![p] = "read"] /\ UNCHANGED <<configDir, at>>
      /\ alone' = IF Down = Processes THEN {p} ELSE {}
      /\ p \in Down
  BY DEF Start, disk
<1>2. pc'[p] = "read" /\ \A q \in Processes \ {p} : pc'[q] = pc[q]
  BY <1>1 DEF Typed, TypeOK
<1>3. \A q \in alone' : Processes \ {q} \subseteq Down'
  BY <1>1, <1>2 DEF Down
<1>4. \A q \in Processes : pc'[q] \in Waiting => at'[q] = Unset
  BY <1>1, <1>2 DEF Lonely, Down, Waiting
<1>5. \A q \in alone' : pc'[q] = "mkdir" => configDir' \in {"absent", "file"}
  BY <1>1, <1>2
<1>6. LoneStartServes'
  BY <1>1, <1>2 DEF LoneStartServes, Excused
<1> QED BY <1>3, <1>4, <1>5, <1>6 DEF Lonely

LEMMA CrashLonely ==
  ASSUME Typed, Lonely, NEW p \in Processes, Crash(p) PROVE Lonely'
<1>1. /\ pc' = [pc EXCEPT ![p] = "off"] /\ at' = [at EXCEPT ![p] = Unset]
      /\ alone' = alone \ {p} /\ UNCHANGED configDir
      /\ arg' = [arg EXCEPT ![p] = {}] /\ loaded' = [loaded EXCEPT ![p] = Missing]
  BY DEF Crash, disk
<1>2. /\ pc'[p] = "off" /\ at'[p] = Unset
      /\ \A q \in Processes \ {p} :
           /\ pc'[q] = pc[q] /\ at'[q] = at[q] /\ arg'[q] = arg[q]
           /\ loaded'[q] = loaded[q]
  BY <1>1 DEF Typed, TypeOK
<1>3. \A q \in alone' : Processes \ {q} \subseteq Down'
  BY <1>1, <1>2 DEF Lonely, Down
<1>4. \A q \in Processes : pc'[q] \in Waiting => at'[q] = Unset
  BY <1>2 DEF Lonely
<1>5. \A q \in alone' : pc'[q] = "mkdir" => configDir' \in {"absent", "file"}
  BY <1>1, <1>2 DEF Lonely, Typed, TypeOK
<1>6. LoneStartServes'
  BY <1>1, <1>2 DEF Lonely, LoneStartServes, Excused, BadArgument
<1> QED BY <1>3, <1>4, <1>5, <1>6 DEF Lonely

LEMMA SaveLonely ==
  ASSUME Typed, Lonely, NEW text \in ConfigTexts \cup {Broken}, SaveConfig(text)
  PROVE  Lonely'
<1>1. /\ configDir # "file" /\ alone' = alone \ AboutToWrite
      /\ UNCHANGED <<pc, at, arg, loaded>>
  BY DEF SaveConfig, local
<1>2. \A q \in alone' : pc[q] # "mkdir"
  BY <1>1 DEF AboutToWrite, Typed, TypeOK
<1>3. LoneStartServes'
  BY <1>1 DEF Lonely, LoneStartServes, Excused, BadArgument
<1>4. Down' = Down
  BY <1>1 DEF Down
<1> QED BY <1>1, <1>2, <1>3, <1>4 DEF Lonely

(* A step of p alone: only its label changes, and its port.                *)
LEMMA StepLonely ==
  ASSUME Typed, Lonely, NEW p \in Processes, p \notin Down,
         NEW l \in Labels \ {"off"}, pc' = [pc EXCEPT ![p] = l],
         UNCHANGED <<arg, alone>>,
         \A q \in Processes \ {p} : at'[q] = at[q] /\ loaded'[q] = loaded[q],
         l \in Waiting => at'[p] = Unset,
         p \in alone /\ l = "mkdir" => configDir' \in {"absent", "file"},
         l \in {"exited", "stuck"} => Excused(p)',
         configDir = "file" => configDir' = "file"
  PROVE  Lonely'
<1>1. pc'[p] = l /\ \A q \in Processes \ {p} : pc'[q] = pc[q]
  BY DEF Typed, TypeOK
<1>2. \A q \in alone : q = p
  BY DEF Lonely
<1>3. \A q \in alone' : Processes \ {q} \subseteq Down'
  BY <1>1, <1>2 DEF Lonely, Down
<1>4. \A q \in Processes : pc'[q] \in Waiting => at'[q] = Unset
  BY <1>1 DEF Lonely
<1>5. \A q \in alone' : pc'[q] = "mkdir" => configDir' \in {"absent", "file"}
  BY <1>1, <1>2
<1>6. LoneStartServes'
  BY <1>1, <1>2 DEF LoneStartServes, Excused
<1> QED BY <1>3, <1>4, <1>5, <1>6 DEF Lonely

LEMMA ConfigLonely ==
  ASSUME Typed, Lonely, NEW p \in Processes,
         \/ ReadConfig(p) \/ FindConfigDir(p) \/ MakeConfigDir(p)
         \/ OpenConfig(p) \/ WriteConfig(p) \/ OpenLogs(p)
  PROVE  Lonely'
<1> USE DEF Goto, Exit, disk, history
<1>1. pc[p] \in Waiting /\ p \notin Down /\ at[p] = Unset
  <2>1. pc[p] \in {"read", "find", "mkdir", "open", "write", "logs"}
    BY DEF ReadConfig, FindConfigDir, MakeConfigDir, OpenConfig, WriteConfig, OpenLogs
  <2> QED BY <2>1 DEF Waiting, Early, Down, Lonely
<1> USE DEF Labels
<1>2. CASE ReadConfig(p)
  BY <1>1, <1>2, StepLonely DEF ReadConfig
<1>3. CASE FindConfigDir(p)
  <2>1. CASE configDir = "dir"
    BY <1>1, <1>3, <2>1, StepLonely DEF FindConfigDir
  <2>2. CASE configDir # "dir"
    <3>1. configDir \in {"absent", "file"}
      BY <2>2 DEF Typed, TypeOK
    <3> QED BY <1>1, <1>3, <2>2, <3>1, StepLonely DEF FindConfigDir
  <2> QED BY <2>1, <2>2
<1>4. CASE MakeConfigDir(p)
  <2>1. CASE configDir = "absent"
    BY <1>1, <1>4, <2>1, StepLonely DEF MakeConfigDir
  <2>2. CASE configDir # "absent"
    <3>1. /\ pc' = [pc EXCEPT ![p] = "exited"] /\ at' = [at EXCEPT ![p] = Unset]
          /\ UNCHANGED <<configDir, arg, alone, loaded>> /\ pc[p] = "mkdir"
      BY <1>4, <2>2 DEF MakeConfigDir
    <3>2. Excused(p)'
      BY <2>2, <3>1 DEF Lonely, Excused
    <3>3. at'[p] = Unset /\ \A q \in Processes \ {p} : at'[q] = at[q]
      BY <3>1 DEF Typed, TypeOK
    <3> QED BY <1>1, <3>1, <3>2, <3>3, StepLonely
  <2> QED BY <2>1, <2>2
<1>5. CASE OpenConfig(p)
  BY <1>1, <1>5, StepLonely DEF OpenConfig
<1>6. CASE WriteConfig(p)
  BY <1>1, <1>6, StepLonely DEF WriteConfig
<1>7. CASE OpenLogs(p)
  BY <1>1, <1>7, StepLonely DEF OpenLogs
<1> QED BY <1>2, <1>3, <1>4, <1>5, <1>6, <1>7

LEMMA ListenLonely ==
  ASSUME Typed, Lonely, NEW p \in Processes, ParseArgs(p) \/ CreateListener(p)
  PROVE  Lonely'
<1> USE DEF Goto, Exit, disk, history, Labels
<1>1. pc[p] \in Waiting /\ p \notin Down /\ at[p] = Unset
  BY DEF ParseArgs, CreateListener, Waiting, Early, Down, Lonely
<1>2. CASE ParseArgs(p)
  <2>1. CASE BadArgument(p)
    <3>1. /\ pc' = [pc EXCEPT ![p] = "exited"] /\ at' = [at EXCEPT ![p] = Unset]
          /\ UNCHANGED <<configDir, arg, alone, loaded>>
      BY <1>2, <2>1 DEF ParseArgs
    <3>2. Excused(p)'
      BY <2>1, <3>1 DEF Excused, BadArgument
    <3>3. at'[p] = Unset /\ \A q \in Processes \ {p} : at'[q] = at[q]
      BY <3>1 DEF Typed, TypeOK
    <3> QED BY <1>1, <3>1, <3>2, <3>3, StepLonely
  <2>2. CASE ~BadArgument(p)
    BY <1>1, <1>2, <2>2, StepLonely DEF ParseArgs
  <2> QED BY <2>1, <2>2
<1>3. CASE CreateListener(p)
  <2>1. Port(p) \in Ports
    BY <1>3, PortTyped DEF CreateListener
  <2>2. CASE Port(p) # 0 /\ \E q \in Processes : at[q] = Port(p)
    <3>1. /\ pc' = [pc EXCEPT ![p] = "exited"] /\ at' = [at EXCEPT ![p] = Unset]
          /\ UNCHANGED <<configDir, arg, alone, loaded>>
      BY <1>3, <2>2 DEF CreateListener
    <3>2. PICK q \in Processes : at[q] = Port(p)
      BY <2>2
    <3>3. q # p /\ at[q] # Unset
      BY <1>1, <2>1, <3>2, Texts
    <3>4. q \notin Down
      BY <3>3 DEF Lonely, Down, Waiting
    <3>5. Excused(p)'
      BY <3>1, <3>3, <3>4 DEF Lonely, Excused
    <3>6. at'[p] = Unset /\ \A r \in Processes \ {p} : at'[r] = at[r]
      BY <3>1 DEF Typed, TypeOK
    <3> QED BY <1>1, <3>1, <3>5, <3>6, StepLonely
  <2>3. CASE ~(Port(p) # 0 /\ \E q \in Processes : at[q] = Port(p))
    <3>1. /\ pc' = [pc EXCEPT ![p] = "dotenv"] /\ at' = [at EXCEPT ![p] = Port(p)]
          /\ UNCHANGED <<configDir, arg, alone, loaded>>
      BY <1>3, <2>3 DEF CreateListener
    <3>2. \A r \in Processes \ {p} : at'[r] = at[r]
      BY <3>1 DEF Typed, TypeOK
    <3> QED BY <1>1, <3>1, <3>2, StepLonely DEF Waiting
  <2> QED BY <2>2, <2>3
<1> QED BY <1>2, <1>3

LEMMA DotenvLonely ==
  ASSUME Typed, Lonely, NEW p \in Processes,
         OpenDotenv(p) \/ ReadLine(p) \/ HangInLine(p) \/ OverflowInLine(p)
         \/ AllRead(p)
  PROVE  Lonely'
<1> USE DEF Goto, Exit, disk, history, Labels
<1>1. pc[p] \in {"dotenv", "line"} /\ p \notin Down
  BY DEF OpenDotenv, ReadLine, HangInLine, OverflowInLine, AllRead, Reads, Down
<1>2. CASE OpenDotenv(p)
  <2>1. PICK d \in Dotenvs :
          /\ loaded' = [loaded EXCEPT ![p] = d]
          /\ \/ d = Missing /\ pc' = [pc EXCEPT ![p] = "serving"]
             \/ d = Directory /\ pc' = [pc EXCEPT ![p] = "stuck"]
             \/ d \notin {Missing, Directory} /\ pc' = [pc EXCEPT ![p] = "line"]
    BY <1>2 DEF OpenDotenv
  <2>2. loaded'[p] = d /\ \A q \in Processes \ {p} : loaded'[q] = loaded[q]
    BY <2>1 DEF Typed, TypeOK
  <2>3. UNCHANGED <<configDir, arg, alone, at>>
    BY <1>2 DEF OpenDotenv
  <2>4. CASE d = Directory
    <3>1. d \notin PlainDotenvs \cup {Missing}
      BY <2>4, Texts DEF PlainDotenvs
    <3>2. Excused(p)'
      BY <2>2, <3>1 DEF Excused, PlainDotenvs
    <3>3. pc' = [pc EXCEPT ![p] = "stuck"]
      BY <2>1, <2>4, Texts
    <3> QED BY <1>1, <2>2, <2>3, <3>2, <3>3, StepLonely DEF Waiting, Early
  <2>5. CASE d # Directory
    <3>1. PICK l \in {"serving", "line"} : pc' = [pc EXCEPT ![p] = l]
      BY <2>1, <2>5
    <3> QED BY <1>1, <2>2, <2>3, <3>1, StepLonely DEF Waiting, Early
  <2> QED BY <2>4, <2>5
<1>3. CASE ReadLine(p)
  <2>1. UNCHANGED <<configDir, arg, alone, at, pc, loaded>>
    BY <1>3 DEF ReadLine
  <2>2. LoneStartServes'
    BY <2>1 DEF Lonely, LoneStartServes, Excused, BadArgument, PlainDotenvs
  <2> QED BY <2>1, <2>2 DEF Lonely, Down
<1>4. CASE HangInLine(p) \/ OverflowInLine(p)
  <2>1. loaded[p] \in Files /\ place[p] \in Places(loaded[p])
    <3>1. /\ pc[p] = "line" /\ place[p].line <= Len(loaded[p])
          /\ loaded[p] \in Files /\ Fits(loaded[p], place[p])
      BY <1>4 DEF HangInLine, OverflowInLine, Reads, Typed, ReadsInOrder, InOrder
    <3>2. place[p] # End(loaded[p])
      BY <3>1, FilesAreLines DEF End
    <3> QED BY <3>1, <3>2 DEF Fits
  <2>2. loaded[p] \notin PlainDotenvs \cup {Missing}
    <3>1. loaded[p] # Missing
      BY <2>1 DEF Files
    <3>2. ASSUME loaded[p] \in PlainDotenvs PROVE FALSE
      <4>1. Plain(Piece(loaded[p], place[p]))
        BY <2>1, <3>1, <3>2, PlainPieces
      <4> QED BY <1>4, <4>1 DEF HangInLine, OverflowInLine, Plain, Line
    <3> QED BY <3>1, <3>2
  <2>3. CASE HangInLine(p)
    <3>1. /\ pc' = [pc EXCEPT ![p] = "stuck"]
          /\ UNCHANGED <<configDir, arg, alone, at, loaded>>
      BY <2>3 DEF HangInLine
    <3>2. Excused(p)'
      BY <2>2, <3>1 DEF Excused, PlainDotenvs
    <3> QED BY <1>1, <3>1, <3>2, StepLonely DEF Waiting, Early
  <2>4. CASE OverflowInLine(p)
    <3>1. /\ pc' = [pc EXCEPT ![p] = "exited"] /\ at' = [at EXCEPT ![p] = Unset]
          /\ UNCHANGED <<configDir, arg, alone, loaded>>
      BY <2>4 DEF OverflowInLine
    <3>2. Excused(p)'
      BY <2>2, <3>1 DEF Excused, PlainDotenvs
    <3>3. at'[p] = Unset /\ \A q \in Processes \ {p} : at'[q] = at[q]
      BY <3>1 DEF Typed, TypeOK
    <3> QED BY <1>1, <3>1, <3>2, <3>3, StepLonely
  <2> QED BY <1>4, <2>3, <2>4
<1>5. CASE AllRead(p)
  <2>1. /\ pc' = [pc EXCEPT ![p] = "serving"]
        /\ UNCHANGED <<configDir, arg, alone, at, loaded>>
    BY <1>5 DEF AllRead
  <2> QED BY <1>1, <2>1, StepLonely DEF Waiting, Early
<1> QED BY <1>2, <1>3, <1>4, <1>5

LEMMA NextLonely == ASSUME Typed, Lonely, [Next]_vars PROVE Lonely'
<1>1. CASE UNCHANGED <<configDir, arg, alone, at, pc, loaded>>
  BY <1>1 DEF Lonely, Down, LoneStartServes, Excused, BadArgument, PlainDotenvs
<1>2. ASSUME NEW p \in Processes, Step(p) PROVE Lonely'
  BY <1>2, ConfigLonely, ListenLonely, DotenvLonely DEF Step
<1>3. ASSUME NEW p \in Processes,
             Login(p) \/ \E v \in Variables : LoginMakesKey(p, v)
      PROVE  Lonely'
  BY <1>1, <1>3 DEF Login, LoginMakesKey, disk, local, history
<1>4. CASE UNCHANGED vars
  BY <1>1, <1>4 DEF vars, disk, local, history
<1> QED BY <1>2, <1>3, <1>4, StartLonely, CrashLonely, SaveLonely DEF Next

(* A start that meets no other process comes to serve, or is still on its   *)
(* way: whatever starts before it left half written, it ends or hangs only  *)
(* over a wrong argument, a file at ./config or a line of .env that is not  *)
(* plain (main.c:115-284, config.c:70-74).                                  *)
THEOREM LoneStartsServe == Spec => []LoneStartServes
<1>1. Lonely => LoneStartServes
  BY DEF Lonely
<1> QED BY InitKept, NextKept, InitTyped, NextTyped, InitLonely, NextLonely, <1>1,
           PTL DEF Spec
=============================================================================
