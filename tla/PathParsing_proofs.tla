------------------------- MODULE PathParsing_proofs -------------------------
(***************************************************************************)
(* Theorems about PathParsing for paths of every length over every set of  *)
(* characters, and buffers of every size.                                  *)
(***************************************************************************)
EXTENDS PathParsing, TLAPS, WellFoundedInduction, SequenceTheorems

USE PathAssumption

(***************************************************************************)
(* strchr and strrchr: what the two CHOOSEs return.                        *)
(***************************************************************************)

\* A non-empty set of naturals has a least element.
LEMMA LeastNat ==
    ASSUME NEW S \in SUBSET Nat, S # {}
    PROVE  \E x \in S : \A y \in S : x <= y
<1>1. \E x \in S : \A y \in S : ~(<<y, x>> \in OpToRel(<, Nat))
  BY NatLessThanWellFounded, WFMin, Zenon
<1>2. PICK x \in S : \A y \in S : ~(<<y, x>> \in OpToRel(<, Nat))
  BY <1>1
<1>3. \A y \in S : x <= y
  <2> SUFFICES ASSUME NEW y \in S PROVE x <= y
    OBVIOUS
  <2>1. ~(y < x)
    BY <1>2 DEF OpToRel
  <2> QED
    BY <2>1
<1> QED
  BY <1>3

\* SlashFrom finds the first slash from an index on, or 0 if there is none.
LEMMA SlashFromFinds ==
    ASSUME NEW s \in Seq(Chars), NEW from \in Nat \ {0}
    PROVE  \/ /\ SlashFrom(s, from) = 0
              /\ \A j \in from .. Len(s) : s[j] # Slash
           \/ /\ SlashFrom(s, from) \in from .. Len(s)
              /\ s[SlashFrom(s, from)] = Slash
              /\ \A j \in from .. (SlashFrom(s, from) - 1) : s[j] # Slash
<1> DEFINE S == {i \in from .. Len(s) : s[i] = Slash}
           First(i) == i \in from .. Len(s) /\ s[i] = Slash /\ \A j \in from .. (i - 1) : s[j] # Slash
<1>0. Len(s) \in Nat
  OBVIOUS
<1>1. CASE S = {}
  <2>1. \A j \in from .. Len(s) : s[j] # Slash
    BY <1>1
  <2> QED
    BY <2>1 DEF SlashFrom
<1>2. CASE S # {}
  <2>1. S \in SUBSET Nat
    BY <1>0
  <2>2. PICK x \in S : \A y \in S : x <= y
    BY <1>2, <2>1, LeastNat
  <2>3. First(x)
    <3> SUFFICES ASSUME NEW j \in from .. (x - 1), s[j] = Slash PROVE FALSE
      OBVIOUS
    <3>1. j \in S /\ j < x
      BY <1>0
    <3> QED
      BY <3>1, <2>2, <1>0
  <2>4. SlashFrom(s, from) =
            CHOOSE i \in from .. Len(s) : s[i] = Slash /\ \A j \in from .. (i - 1) : s[j] # Slash
    BY <1>2 DEF SlashFrom
  <2>5. First(SlashFrom(s, from))
    BY <2>3, <2>4, Zenon
  <2> QED
    BY <2>5
<1> QED
  BY <1>1, <1>2

\* There is only one first slash.
LEMMA SlashFromIs ==
    ASSUME NEW s \in Seq(Chars), NEW from \in Nat \ {0}, NEW i \in from .. (Len(s) + 1),
           i <= Len(s) => s[i] = Slash,
           \A j \in from .. (i - 1) : s[j] # Slash
    PROVE  SlashFrom(s, from) = IF i <= Len(s) THEN i ELSE 0
<1> DEFINE f == SlashFrom(s, from)
<1> HIDE DEF f
<1>0. Len(s) \in Nat
  OBVIOUS
<1>1. \/ f = 0 /\ \A j \in from .. Len(s) : s[j] # Slash
      \/ f \in from .. Len(s) /\ s[f] = Slash /\ \A j \in from .. (f - 1) : s[j] # Slash
  BY SlashFromFinds DEF f
<1>2. CASE i <= Len(s)
  <2>1. ~(f = 0 /\ \A j \in from .. Len(s) : s[j] # Slash)
    BY <1>2, <1>0
  <2>2. f = i
    BY <2>1, <1>1, <1>2, <1>0
  <2> QED
    BY <2>2, <1>2 DEF f
<1>3. CASE i > Len(s)
  <2>1. f = 0
    BY <1>1, <1>3, <1>0
  <2> QED
    BY <2>1, <1>3, <1>0 DEF f
<1> QED
  BY <1>2, <1>3, <1>0

\* LastSlash finds the last slash of a string that has one.
LEMMA LastSlashFinds ==
    ASSUME NEW s \in Seq(Chars), \E i \in DOMAIN s : s[i] = Slash
    PROVE  /\ LastSlash(s) \in 1 .. Len(s)
           /\ s[LastSlash(s)] = Slash
           /\ \A j \in (LastSlash(s) + 1) .. Len(s) : s[j] # Slash
<1> DEFINE n == Len(s)
           S == {k \in 0 .. n : k < n /\ s[n - k] = Slash}
<1>0. n \in Nat /\ DOMAIN s = 1 .. n
  OBVIOUS
<1>1. S \in SUBSET Nat
  BY <1>0
<1>2. S # {}
  <2>1. PICK i \in 1 .. n : s[i] = Slash
    BY <1>0
  <2>2. n - i \in S
    <3>1. n - i \in 0 .. n /\ n - i < n /\ n - (n - i) = i
      BY <1>0
    <3> QED
      BY <3>1, <2>1
  <2> QED
    BY <2>2
<1>3. PICK x \in S : \A y \in S : x <= y
  BY <1>1, <1>2, LeastNat
<1> DEFINE last == n - x
<1>4. last \in 1 .. n /\ s[last] = Slash
  BY <1>3, <1>0
<1>5. \A j \in (last + 1) .. n : s[j] # Slash
  <2> SUFFICES ASSUME NEW j \in (last + 1) .. n, s[j] = Slash PROVE FALSE
    OBVIOUS
  <2>0. x \in Nat /\ j \in Int /\ j <= n /\ last + 1 <= j
    BY <1>0
  <2>1. n - j \in 0 .. n /\ n - j < n /\ n - (n - j) = j
    BY <1>0, <2>0, <1>4
  <2>2. n - j \in S
    BY <2>1
  <2>3. x <= n - j
    BY <2>2, <1>3
  <2> QED
    BY <2>3, <2>0, <1>0
<1>6. \E i \in DOMAIN s : s[i] = Slash /\ \A j \in (i + 1) .. Len(s) : s[j] # Slash
  BY <1>4, <1>5, <1>0
<1>7. /\ LastSlash(s) \in DOMAIN s
      /\ s[LastSlash(s)] = Slash /\ \A j \in (LastSlash(s) + 1) .. Len(s) : s[j] # Slash
  BY <1>6, Zenon DEF LastSlash
<1> QED
  BY <1>7, <1>0

(***************************************************************************)
(* The reading of a path as names.                                         *)
(***************************************************************************)

\* No names are none.
LEMMA EnumeratesNone ==
    ASSUME NEW s
    PROVE  Enumerates(<<>>, s, {})
<1>1. DOMAIN <<>> = {}
  OBVIOUS
<1>2. <<>> \in [DOMAIN <<>> -> {}]
  BY <1>1
<1>3. /\ \A k, l \in DOMAIN <<>> : k < l => <<>>[k] < <<>>[l]
      /\ \A i \in {} : \E k \in DOMAIN <<>> : <<>>[k] = i
      /\ \A k \in DOMAIN <<>> : <<>>[k] = NameAt(s, <<>>[k])
  BY <1>1
<1> QED
  BY <1>2, <1>3, Zenon DEF Enumerates

\* One more name, behind the others.
LEMMA EnumeratesOneMore ==
    ASSUME NEW T, NEW names \in Seq(T), NEW s, NEW starts \in SUBSET Nat, NEW i \in Nat,
           Enumerates(names, s, starts), \A j \in starts : j < i
    PROVE  Enumerates(Append(names, NameAt(s, i)), s, starts \cup {i})
<1> DEFINE n == Len(names)
           more == Append(names, NameAt(s, i))
<1>0. n \in Nat /\ DOMAIN names = 1 .. n
  OBVIOUS
<1>1. PICK at \in [1 .. n -> starts] :
        /\ \A k, l \in 1 .. n : k < l => at[k] < at[l]
        /\ \A j \in starts : \E k \in 1 .. n : at[k] = j
        /\ \A k \in 1 .. n : names[k] = NameAt(s, at[k])
  BY <1>0, Zenon DEF Enumerates
<1> DEFINE next == [k \in 1 .. (n + 1) |-> IF k <= n THEN at[k] ELSE i]
<1>2. DOMAIN more = 1 .. (n + 1) /\ more[n + 1] = NameAt(s, i) /\ \A k \in 1 .. n : more[k] = names[k]
  <2> DEFINE x == NameAt(s, i)
  <2> HIDE DEF x
  <2>1. names \in Seq(T \cup {x}) /\ x \in T \cup {x}
    OBVIOUS
  <2>2. /\ Len(Append(names, x)) = n + 1 /\ Append(names, x) \in Seq(T \cup {x})
        /\ Append(names, x)[n + 1] = x /\ \A k \in 1 .. n : Append(names, x)[k] = names[k]
    BY <2>1, AppendProperties
  <2> QED
    BY <2>2, <1>0 DEF x
<1>3. next \in [1 .. (n + 1) -> starts \cup {i}]
  BY <1>0, <1>1
<1>4. \A k, l \in 1 .. (n + 1) : k < l => next[k] < next[l]
  <2> SUFFICES ASSUME NEW k \in 1 .. (n + 1), NEW l \in 1 .. (n + 1), k < l
               PROVE  next[k] < next[l]
    OBVIOUS
  <2>1. k \in 1 .. n /\ next[k] = at[k] /\ at[k] \in starts
    BY <1>0, <1>1
  <2>2. CASE l \in 1 .. n
    <3>1. next[l] = at[l]
      BY <2>2, <1>0
    <3>2. at[k] < at[l]
      BY <2>1, <2>2, <1>1
    <3> QED
      BY <3>1, <3>2, <2>1
  <2>3. CASE l = n + 1
    <3>1. next[l] = i
      BY <2>3, <1>0
    <3>2. at[k] < i
      BY <2>1
    <3> QED
      BY <3>1, <3>2, <2>1
  <2> QED
    BY <2>2, <2>3, <1>0
<1>5. \A j \in starts \cup {i} : \E k \in 1 .. (n + 1) : next[k] = j
  <2>1. \A j \in starts : \E k \in 1 .. (n + 1) : next[k] = j
    <3> TAKE j \in starts
    <3>1. PICK k \in 1 .. n : at[k] = j
      BY <1>1
    <3>2. k \in 1 .. (n + 1) /\ next[k] = j
      BY <3>1, <1>0
    <3> QED
      BY <3>2
  <2>2. n + 1 \in 1 .. (n + 1) /\ next[n + 1] = i
    BY <1>0
  <2> QED
    BY <2>1, <2>2
<1>6. \A k \in 1 .. (n + 1) : more[k] = NameAt(s, next[k])
  <2> TAKE k \in 1 .. (n + 1)
  <2>1. CASE k \in 1 .. n
    <3>1. next[k] = at[k]
      BY <2>1, <1>0
    <3>2. more[k] = names[k] /\ names[k] = NameAt(s, at[k])
      BY <1>1, <1>2, <2>1
    <3> QED
      BY <3>1, <3>2, Zenon
  <2>2. CASE k = n + 1
    <3>1. next[k] = i
      BY <2>2, <1>0
    <3> QED
      BY <3>1, <2>2, <1>2, Zenon
  <2> QED
    BY <2>1, <2>2, <1>0
<1> HIDE DEF next, more
<1>7. next \in [DOMAIN more -> starts \cup {i}]
  BY <1>2, <1>3
<1>8. Enumerates(more, s, starts \cup {i})
  <2>1. DOMAIN more = 1 .. (n + 1)
    BY <1>2
  <2>2. \A k, l \in DOMAIN more : k < l => next[k] < next[l]
    BY <2>1, <1>4, Zenon
  <2>3. \A j \in starts \cup {i} : \E k \in DOMAIN more : next[k] = j
    BY <2>1, <1>5, Zenon
  <2>4. \A k \in DOMAIN more : more[k] = NameAt(s, next[k])
    BY <2>1, <1>6, Zenon
  <2> QED
    BY <1>7, <2>2, <2>3, <2>4, Zenon DEF Enumerates
<1> QED
  BY <1>8 DEF more

\* A name of the string ends in front of the next slash.
LEMMA NameBetween ==
    ASSUME NEW s \in Seq(Chars), NEW i \in 1 .. Len(s), NEW c \in (i + 1) .. (Len(s) + 1),
           c <= Len(s) => s[c] = Slash,
           \A j \in i .. (c - 1) : s[j] # Slash
    PROVE  NameAt(s, i) = SubSeq(s, i, c - 1) /\ Len(NameAt(s, i)) = c - i
<1>0. Len(s) \in Nat /\ \A j \in 1 .. Len(s) : s[j] \in Chars
  OBVIOUS
<1>1. i \in Nat \ {0} /\ c \in i .. (Len(s) + 1) /\ c # 0
  BY <1>0
<1>2. SlashFrom(s, i) = IF c <= Len(s) THEN c ELSE 0
  BY <1>1, SlashFromIs
<1>3. NameAt(s, i) = SubSeq(s, i, c - 1)
  BY <1>0, <1>1, <1>2 DEF NameAt
<1>4. Len(SubSeq(s, i, c - 1)) = (c - 1) - i + 1
  <2>1. i \in Int /\ c - 1 \in Int /\ i <= c - 1 /\ \A j \in i .. (c - 1) : s[j] \in Chars
    BY <1>0
  <2>2. Len(SubSeq(s, i, c - 1)) = IF i <= c - 1 THEN (c - 1) - i + 1 ELSE 0
    BY <2>1, SubSeqProperties
  <2> QED
    BY <2>1, <2>2
<1>5. (c - 1) - i + 1 = c - i
  BY <1>0
<1> QED
  BY <1>3, <1>4, <1>5

(* parse_path, asked for the part r of a path s from a slash at a to its   *)
(* end or to another slash at b: the name in front ends before c, where    *)
(* the walk goes on.                                                       *)
FirstNameEnds(r, s, a, b, c) ==
    /\ r = <<Slash>> <=> a = b
    /\ c <= b => s[c] = Slash
    /\ \A j \in (a + 1) .. (c - 1) : s[j] # Slash
    /\ SlashFrom(r, 1) = 1
    /\ SlashFrom(r, 2) = (IF c <= b THEN c - a + 1 ELSE 0)
    /\ NameLength(r) = c - a - 1
    /\ ComponentOf(r) = SubSeq(s, a + 1, c - 1)
    /\ c <= b => SubSeq(r, c - a + 1, Len(r)) = SubSeq(s, c, b)

LEMMA NameInFront ==
    ASSUME NEW s \in Seq(Chars), NEW a \in 1 .. Len(s), NEW b \in a .. Len(s), s[a] = Slash,
           NEW r, r = SubSeq(s, a, b)
    PROVE  \E c \in (a + 1) .. (b + 1) : FirstNameEnds(r, s, a, b, c)
<1>0. Len(s) \in Nat /\ \A j \in 1 .. Len(s) : s[j] \in Chars
  OBVIOUS
<1>1. /\ r \in Seq(Chars)
      /\ Len(r) = b - a + 1
      /\ \A k \in 1 .. (b - a + 1) : r[k] = s[a + k - 1]
  <2>1. a \in Int /\ b \in Int /\ a <= b /\ \A j \in a .. b : s[j] \in Chars
    BY <1>0
  <2>2. /\ SubSeq(s, a, b) \in Seq(Chars)
        /\ Len(SubSeq(s, a, b)) = IF a <= b THEN b - a + 1 ELSE 0
        /\ \A k \in 1 .. b - a + 1 : SubSeq(s, a, b)[k] = s[a + k - 1]
    BY <2>1, SubSeqProperties
  <2> QED
    BY <2>1, <2>2
<1>2. r[1] = Slash
  <2>1. 1 \in 1 .. (b - a + 1) /\ a + 1 - 1 = a
    BY <1>0
  <2> QED
    BY <2>1, <1>1
<1>3. SlashFrom(r, 1) = 1
  <2>1. 1 \in 1 .. (Len(r) + 1) /\ 1 <= Len(r) /\ \A j \in 1 .. (1 - 1) : r[j] # Slash
    BY <1>0, <1>1
  <2>2. 1 \in Nat \ {0} /\ (1 <= Len(r) => r[1] = Slash)
    BY <1>2
  <2>3. SlashFrom(r, 1) = IF 1 <= Len(r) THEN 1 ELSE 0
    BY <2>1, <2>2, <1>1, SlashFromIs, Zenon
  <2> QED
    BY <2>1, <2>3
<1>4. (r = <<Slash>>) <=> a = b
  <2>1. CASE a = b
    <3>1. Len(r) = 1 /\ r[1] = Slash
      BY <2>1, <1>0, <1>1, <1>2
    <3>2. <<Slash>> \in Seq(Chars) /\ Len(<<Slash>>) = 1 /\ <<Slash>>[1] = Slash
      BY DEF Chars
    <3>3. \A i \in 1 .. Len(r) : r[i] = <<Slash>>[i]
      BY <3>1, <3>2
    <3>4. r = <<Slash>>
      BY <3>1, <3>2, <3>3, <1>1, SeqEqual
    <3> QED
      BY <3>4, <2>1
  <2>2. CASE a # b
    <3>1. Len(r) # 1
      BY <2>2, <1>0, <1>1
    <3> QED
      BY <3>1, <2>2
  <2> QED
    BY <2>1, <2>2
<1>5. PICK e \in 2 .. (Len(r) + 1) :
        /\ e <= Len(r) => r[e] = Slash
        /\ \A j \in 2 .. (e - 1) : r[j] # Slash
        /\ SlashFrom(r, 2) = IF e <= Len(r) THEN e ELSE 0
  <2>0. Len(r) \in Nat \ {0}
    BY <1>0, <1>1
  <2> DEFINE f == SlashFrom(r, 2)
  <2> HIDE DEF f
  <2>1. \/ f = 0 /\ \A j \in 2 .. Len(r) : r[j] # Slash
        \/ f \in 2 .. Len(r) /\ r[f] = Slash /\ \A j \in 2 .. (f - 1) : r[j] # Slash
    <3>1. 2 \in Nat \ {0}
      OBVIOUS
    <3>2. \/ /\ SlashFrom(r, 2) = 0
             /\ \A j \in 2 .. Len(r) : r[j] # Slash
          \/ /\ SlashFrom(r, 2) \in 2 .. Len(r)
             /\ r[SlashFrom(r, 2)] = Slash
             /\ \A j \in 2 .. (SlashFrom(r, 2) - 1) : r[j] # Slash
      BY <3>1, <1>1, SlashFromFinds, Zenon
    <3> QED
      BY <3>2 DEF f
  <2>2. CASE f = 0 /\ \A j \in 2 .. Len(r) : r[j] # Slash
    <3>1. Len(r) + 1 \in 2 .. (Len(r) + 1) /\ ~(Len(r) + 1 <= Len(r)) /\ (Len(r) + 1) - 1 = Len(r)
      BY <2>0
    <3> QED
      BY <3>1, <2>2 DEF f
  <2>3. CASE f \in 2 .. Len(r) /\ r[f] = Slash /\ \A j \in 2 .. (f - 1) : r[j] # Slash
    <3>1. f \in 2 .. (Len(r) + 1) /\ f <= Len(r)
      BY <2>0, <2>3
    <3> QED
      BY <3>1, <2>3 DEF f
  <2> QED
    BY <2>1, <2>2, <2>3
<1> DEFINE c == a + e - 1
<1>6. /\ c \in (a + 1) .. (b + 1) /\ (c <= b <=> e <= Len(r))
      /\ e = c - a + 1 /\ e - 1 = c - a /\ e \in Nat /\ Len(r) \in Nat
  BY <1>0, <1>1, <1>5
<1>7. c <= b => s[c] = Slash
  <2>1. c <= b => e \in 1 .. (b - a + 1) /\ e <= Len(r)
    BY <1>0, <1>1, <1>5
  <2> QED
    BY <2>1, <1>5, <1>1
<1>8. \A j \in (a + 1) .. (c - 1) : s[j] # Slash
  <2> TAKE j \in (a + 1) .. (c - 1)
  <2>1. /\ j - a + 1 \in 2 .. (e - 1) /\ j - a + 1 \in 1 .. (b - a + 1)
        /\ a + (j - a + 1) - 1 = j
    BY <1>0, <1>1, <1>5, <1>6
  <2> QED
    BY <2>1, <1>5, <1>1
<1>9. NameLength(r) = c - a - 1
  <2>0. SlashFrom(r, SlashFrom(r, 1) + 1) = IF e <= Len(r) THEN e ELSE 0
    BY <1>3, <1>5
  <2>1. CASE e <= Len(r)
    <3>1. NameLength(r) = e - 1 - 1
      BY <2>0, <2>1, <1>3, <1>6 DEF NameLength
    <3> QED
      BY <3>1, <1>6
  <2>2. CASE ~(e <= Len(r))
    <3>1. NameLength(r) = Len(r) - 1
      BY <2>0, <2>2 DEF NameLength
    <3>2. e = Len(r) + 1
      BY <2>2, <1>5, <1>6
    <3>3. Len(r) - 1 = c - a - 1
      BY <3>2, <1>6
    <3> QED
      BY <3>1, <3>3
  <2> QED
    BY <2>1, <2>2
<1>10. ComponentOf(r) = SubSeq(s, a + 1, c - 1)
  <2>1. ComponentOf(r) = SubSeq(r, 2, e - 1)
    <3>1. 1 + NameLength(r) = e - 1 /\ ~(e - 1 > Len(r))
      BY <1>9, <1>6, <1>5
    <3>2. ComponentOf(r) =
              SubSeq(r, 1 + 1, IF 1 + NameLength(r) > Len(r) THEN Len(r) ELSE 1 + NameLength(r))
      BY <1>3 DEF ComponentOf
    <3> QED
      BY <3>1, <3>2
  <2>2. SubSeq(r, 2, e - 1) = SubSeq(s, a + 1, c - 1)
    <3>1. CASE e = 2
      <4>1. 2 \in Int /\ e - 1 \in Int /\ e - 1 < 2 /\ a + 1 \in Int /\ c - 1 \in Int /\ c - 1 < a + 1
        BY <3>1, <1>0
      <4>2. SubSeq(r, 2, e - 1) = <<>> /\ SubSeq(s, a + 1, c - 1) = <<>>
        BY <4>1, SubSeqEmpty
      <4> QED
        BY <4>2
    <3>2. CASE e # 2
      <4>1. /\ 2 \in 1 .. (b - a + 1) /\ e - 1 \in 1 .. (b - a + 1)
            /\ a + 2 - 1 = a + 1 /\ a + (e - 1) - 1 = c - 1
            /\ b \in 1 .. Len(s)
        BY <3>2, <1>0, <1>1, <1>5, <1>6
      <4>2. SubSeq(SubSeq(s, a, b), 2, e - 1) = SubSeq(s, a + 2 - 1, a + (e - 1) - 1)
        BY <4>1, <1>1, SubSeqOfSubSeq
      <4> QED
        BY <4>1, <4>2
    <3> QED
      BY <3>1, <3>2
  <2> QED
    BY <2>1, <2>2
<1>11. c <= b => SubSeq(r, c - a + 1, Len(r)) = SubSeq(s, c, b)
  <2> SUFFICES ASSUME c <= b PROVE SubSeq(r, c - a + 1, Len(r)) = SubSeq(s, c, b)
    OBVIOUS
  <2>1. /\ c - a + 1 \in 1 .. (b - a + 1) /\ Len(r) \in 1 .. (b - a + 1)
        /\ a + (c - a + 1) - 1 = c /\ a + Len(r) - 1 = b
        /\ b \in 1 .. Len(s)
    BY <1>0, <1>1, <1>5, <1>6
  <2>2. SubSeq(SubSeq(s, a, b), c - a + 1, Len(r)) = SubSeq(s, a + (c - a + 1) - 1, a + Len(r) - 1)
    BY <2>1, <1>1, SubSeqOfSubSeq
  <2> QED
    BY <2>1, <2>2
<1>12. SlashFrom(r, 2) = IF c <= b THEN c - a + 1 ELSE 0
  BY <1>5, <1>6
<1> HIDE DEF c
<1>13. FirstNameEnds(r, s, a, b, c)
  BY <1>3, <1>4, <1>7, <1>8, <1>9, <1>10, <1>11, <1>12, Zenon DEF FirstNameEnds
<1> QED
  BY <1>6, <1>13

(***************************************************************************)
(* The invariant.  The walk is always at a slash of the path, a, behind    *)
(* the names looked up; what is left of the path ends with it, or, when a  *)
(* name is split off, with the slash b in front of that name.              *)
(***************************************************************************)

Before(s, a) == {i \in Starts(s) : i < a}

EndsAt(b) ==
    IF splits
    THEN /\ path[1] = Slash /\ path[b] = Slash
         /\ Starts(path) = Before(path, b) \cup {b + 1}
         /\ name = NameAt(path, b + 1)
    ELSE b = Len(path)

OnTheWay ==
    \E a \in 1 .. Len(path) : \E b \in a .. Len(path) :
        /\ path[a] = Slash /\ rest = SubSeq(path, a, b)
        /\ EndsAt(b)
        /\ Enumerates(walked, path, Before(path, a))

\* Of any other path nothing is claimed but that it stays a string.
Relative == path[1] # Slash /\ rest \in Seq(Chars)

PathTypeOK ==
    /\ path \in Seq(Chars) /\ splits \in BOOLEAN
    /\ pc \in {"idle", "split", "walk", "found", "refused", "dead"}
    /\ walked \in Seq(Seq(Chars)) /\ name \in Seq(Chars) /\ overrun \in BOOLEAN

PathInv ==
    /\ PathTypeOK
    /\ pc # "idle" => path # <<>>
    /\ pc = "idle" => path = <<>> /\ ~overrun
    /\ pc = "split" => splits /\ walked = <<>> /\ ~overrun
    /\ pc = "walk" => Relative \/ OnTheWay
    /\ WalksItsNames
    /\ CanonicalAccepted
    /\ StaysInBuffers

\* The names begin at indices of the path.
LEMMA StartsAreIndices ==
    ASSUME NEW s \in Seq(Chars), NEW a
    PROVE  /\ Len(s) \in Nat /\ DOMAIN s = 1 .. Len(s)
           /\ Starts(s) \in SUBSET (1 .. Len(s)) /\ Before(s, a) \in SUBSET (1 .. Len(s))
<1>1. Len(s) \in Nat /\ DOMAIN s = 1 .. Len(s)
  OBVIOUS
<1>2. Starts(s) \in SUBSET (1 .. Len(s))
  BY <1>1 DEF Starts
<1> QED
  BY <1>1, <1>2 DEF Before

\* The name between a slash and the next, or the end of the path.
LEMMA NameBehindSlash ==
    ASSUME NEW s \in Seq(Chars), NEW a \in 1 .. Len(s), NEW c \in (a + 2) .. (Len(s) + 1),
           s[a] = Slash, c <= Len(s) => s[c] = Slash, \A j \in (a + 1) .. (c - 1) : s[j] # Slash
    PROVE  /\ a + 1 \in Starts(s)
           /\ SubSeq(s, a + 1, c - 1) = NameAt(s, a + 1)
           /\ NameAt(s, a + 1) \in Seq(Chars) /\ Len(NameAt(s, a + 1)) = c - a - 1
           /\ Before(s, c) = Before(s, a) \cup {a + 1}
           /\ c = Len(s) + 1 => Before(s, c) = Starts(s)
<1>0. /\ Len(s) \in Nat /\ \A j \in 1 .. Len(s) : s[j] \in Chars
      /\ Starts(s) \in SUBSET (1 .. Len(s)) /\ Before(s, a) \in SUBSET (1 .. Len(s))
  BY StartsAreIndices
<1>1. a + 1 \in 1 .. Len(s) /\ a + 1 \in (a + 1) .. (c - 1) /\ (a + 1) - 1 = a
  BY <1>0
<1>2. a + 1 \in Starts(s)
  BY <1>0, <1>1 DEF Starts
<1>3. SubSeq(s, a + 1, c - 1) = NameAt(s, a + 1) /\ Len(NameAt(s, a + 1)) = c - a - 1
  <2>1. c \in ((a + 1) + 1) .. (Len(s) + 1) /\ c - (a + 1) = c - a - 1
    BY <1>0
  <2> QED
    BY <2>1, <1>1, NameBetween
<1>4. NameAt(s, a + 1) \in Seq(Chars)
  <2>1. a + 1 \in Int /\ c - 1 \in Int /\ \A j \in (a + 1) .. (c - 1) : s[j] \in Chars
    BY <1>0
  <2>2. SubSeq(s, a + 1, c - 1) \in Seq(Chars)
    BY <2>1, SubSeqProperties
  <2> QED
    BY <2>2, <1>3
<1>5. Before(s, c) = Before(s, a) \cup {a + 1}
  <2>1. a + 1 \in Starts(s)
    BY <1>2
  <2>2. \A i \in Starts(s) : i < c <=> i < a \/ i = a + 1
    <3> SUFFICES ASSUME NEW i \in Starts(s), i < c, ~(i < a) PROVE i = a + 1
      BY <1>0, <1>1
    <3>1. i \in 1 .. Len(s) /\ s[i] # Slash /\ (i = 1 \/ s[i - 1] = Slash)
      BY <1>0 DEF Starts
    <3>2. i # a
      BY <3>1
    <3>3. CASE i > a + 1
      <4>1. i - 1 \in (a + 1) .. (c - 1) /\ i # 1
        BY <3>3, <3>1, <1>0
      <4> QED
        BY <4>1, <3>1
    <3> QED
      BY <3>1, <3>2, <3>3, <1>0
  <2> QED
    BY <2>1, <2>2 DEF Before
<1>6. c = Len(s) + 1 => Before(s, c) = Starts(s)
  <2>1. c = Len(s) + 1 => \A i \in Starts(s) : i < c
    BY <1>0
  <2> QED
    BY <2>1 DEF Before
<1> QED
  BY <1>2, <1>3, <1>4, <1>5, <1>6

\* It comes behind the names in front of the slash.
LEMMA OneNameFurther ==
    ASSUME NEW s \in Seq(Chars), NEW a \in 1 .. Len(s), NEW c \in (a + 2) .. (Len(s) + 1),
           s[a] = Slash, c <= Len(s) => s[c] = Slash, \A j \in (a + 1) .. (c - 1) : s[j] # Slash,
           NEW names \in Seq(Seq(Chars)), Enumerates(names, s, Before(s, a))
    PROVE  Enumerates(Append(names, NameAt(s, a + 1)), s, Before(s, c))
<1>0. Len(s) \in Nat /\ Before(s, a) \in SUBSET (1 .. Len(s))
  BY StartsAreIndices
<1>1. Before(s, c) = Before(s, a) \cup {a + 1}
  BY NameBehindSlash
<1>2. \A j \in Before(s, a) : j < a + 1
  BY <1>0 DEF Before
<1>3. Before(s, a) \in SUBSET Nat /\ a + 1 \in Nat
  BY <1>0
<1>4. Enumerates(Append(names, NameAt(s, a + 1)), s, Before(s, a) \cup {a + 1})
  BY <1>2, <1>3, EnumeratesOneMore
<1> QED
  BY <1>1, <1>4

(* One level of the walk, from a slash to the next, or to the end of the   *)
(* path.                                                                   *)
LEMMA WalksOn ==
    ASSUME PathTypeOK, NEW a \in 1 .. Len(path), NEW b \in a .. Len(path), NEW c \in (a + 2) .. (b + 1),
           path[a] = Slash, EndsAt(b), Enumerates(walked, path, Before(path, a)),
           c <= b => path[c] = Slash, \A j \in (a + 1) .. (c - 1) : path[j] # Slash,
           walked' = Append(walked, SubSeq(path, a + 1, c - 1)),
           UNCHANGED <<path, splits, name>>,
           IF c <= b THEN pc' = "walk" /\ rest' = SubSeq(path, c, b) ELSE pc' = "found"
    PROVE  /\ walked' \in Seq(Seq(Chars))
           /\ pc' = "walk" => OnTheWay'
           /\ WalksItsNames'
           /\ a + 1 \in Starts(path) /\ Len(NameAt(path, a + 1)) = c - a - 1
<1>0. /\ path \in Seq(Chars) /\ walked \in Seq(Seq(Chars)) /\ Len(path) \in Nat
      /\ a \in Nat /\ b \in Nat /\ c \in Nat /\ a + 2 <= c /\ c <= b + 1 /\ b <= Len(path)
  BY StartsAreIndices DEF PathTypeOK
<1>1. c <= Len(path) => path[c] = Slash
  <2>1. CASE c <= b
    BY <2>1
  <2>2. CASE ~(c <= b) /\ splits
    <3>1. b \in (a + 1) .. (c - 1)
      BY <2>2, <1>0
    <3> QED
      BY <3>1, <2>2 DEF EndsAt
  <2>3. CASE ~(c <= b) /\ ~splits
    <3>1. b = Len(path)
      BY <2>3, Zenon DEF EndsAt
    <3> QED
      BY <3>1, <2>3, <1>0
  <2> QED
    BY <2>1, <2>2, <2>3
<1>2. c \in (a + 2) .. (Len(path) + 1)
  BY <1>0
<1>3. /\ a + 1 \in Starts(path) /\ Len(NameAt(path, a + 1)) = c - a - 1
      /\ NameAt(path, a + 1) \in Seq(Chars)
      /\ SubSeq(path, a + 1, c - 1) = NameAt(path, a + 1)
      /\ Enumerates(Append(walked, NameAt(path, a + 1)), path, Before(path, c))
      /\ c = Len(path) + 1 => Before(path, c) = Starts(path)
  <2>1. /\ a + 1 \in Starts(path) /\ Len(NameAt(path, a + 1)) = c - a - 1
        /\ NameAt(path, a + 1) \in Seq(Chars)
        /\ SubSeq(path, a + 1, c - 1) = NameAt(path, a + 1)
        /\ c = Len(path) + 1 => Before(path, c) = Starts(path)
    BY <1>0, <1>1, <1>2, NameBehindSlash, Zenon
  <2>2. Enumerates(Append(walked, NameAt(path, a + 1)), path, Before(path, c))
    BY <1>0, <1>1, <1>2, OneNameFurther, Zenon
  <2> QED
    BY <2>1, <2>2
<1>4. walked' = Append(walked, NameAt(path, a + 1)) /\ walked' \in Seq(Seq(Chars))
  <2>1. walked' = Append(walked, NameAt(path, a + 1))
    BY <1>3
  <2>2. Append(walked, NameAt(path, a + 1)) \in Seq(Seq(Chars))
    BY <1>0, <1>3, AppendProperties, Zenon
  <2> QED
    BY <2>1, <2>2
<1>5. Enumerates(walked', path, Before(path, c))
  BY <1>3, <1>4
<1>6. CASE c <= b
  <2>1. pc' = "walk" /\ rest' = SubSeq(path, c, b) /\ path[c] = Slash
    BY <1>6
  <2>2. EndsAt(b)'
    <3>1. path' = path /\ splits' = splits /\ name' = name
      OBVIOUS
    <3> QED
      BY <3>1 DEF EndsAt
  <2>3. Enumerates(walked', path', Before(path', c))
    BY <1>5, Zenon
  <2>4. c \in 1 .. Len(path') /\ b \in c .. Len(path')
    BY <1>6, <1>0
  <2>5. path'[c] = Slash /\ rest' = SubSeq(path', c, b)
    BY <2>1
  <2>6. OnTheWay'
    BY <2>2, <2>3, <2>4, <2>5, Zenon DEF OnTheWay
  <2> QED
    BY <2>1, <2>6, <1>3, <1>4 DEF WalksItsNames
<1>7. CASE ~(c <= b)
  <2>1. pc' = "found" /\ c = b + 1
    BY <1>7, <1>0
  <2>2. ~splits
    <3>1. b \in (a + 1) .. (c - 1)
      BY <2>1, <1>0
    <3> QED
      BY <3>1 DEF EndsAt
  <2>3. c = Len(path) + 1
    BY <2>1, <2>2 DEF EndsAt
  <2>4. Enumerates(walked', path, Starts(path))
    BY <2>3, <1>3, <1>5
  <2>5. ~splits' /\ path' = path
    BY <2>2
  <2>6. WalksItsNames'
    BY <2>4, <2>5, Zenon DEF WalksItsNames
  <2> QED
    BY <2>1, <2>6, <1>3, <1>4
<1> QED
  BY <1>6, <1>7

(***************************************************************************)
(* The invariant is inductive.                                             *)
(***************************************************************************)

\* The walk begins at the first character of a path given.
LEMMA GiveKeepsPathInv ==
    ASSUME PathInv, NEW s \in Strings, NEW split \in BOOLEAN, Give(s, split)
    PROVE  PathInv'
<1>1. s \in Seq(Chars) /\ s # <<>>
  OBVIOUS
<1>2. /\ path' = s /\ splits' = split /\ rest' = s /\ walked' = <<>> /\ name' = <<>> /\ overrun' = FALSE
      /\ pc' = IF split THEN "split" ELSE "walk"
  BY DEF Give
<1>3. PathTypeOK'
  <2>1. <<>> \in Seq(Seq(Chars)) /\ <<>> \in Seq(Chars)
    BY EmptySeq
  <2>2. pc' \in {"idle", "split", "walk", "found", "refused", "dead"}
    BY <1>2
  <2> QED
    BY <1>1, <1>2, <2>1, <2>2 DEF PathTypeOK
<1>4. pc' = "walk" => Relative' \/ OnTheWay'
  <2> SUFFICES ASSUME pc' = "walk" PROVE Relative' \/ OnTheWay'
    OBVIOUS
  <2>1. ~splits'
    BY <1>2
  <2>2. CASE s[1] # Slash
    BY <1>1, <1>2, <2>2 DEF Relative
  <2>3. CASE s[1] = Slash
    <3>0. Len(s) \in Nat /\ Len(s) # 0 /\ SubSeq(s, 1, Len(s)) = s
      BY <1>1, SubSeqFull, EmptySeq, LenProperties
    <3>1. 1 \in 1 .. Len(s) /\ Len(s) \in 1 .. Len(s)
      BY <3>0
    <3>2. Before(s, 1) = {}
      BY <1>1, StartsAreIndices DEF Before
    <3>3. Enumerates(<<>>, s, Before(s, 1))
      BY <3>2, EnumeratesNone
    <3>4. EndsAt(Len(s))'
      BY <1>2, <2>1 DEF EndsAt
    <3>5. path'[1] = Slash /\ rest' = SubSeq(path', 1, Len(s))
      BY <1>2, <2>3, <3>0
    <3>6. Enumerates(walked', path', Before(path', 1))
      BY <1>2, <3>3
    <3>7. 1 \in 1 .. Len(path') /\ Len(s) \in 1 .. Len(path')
      BY <1>2, <3>1
    <3>8. OnTheWay'
      BY <3>4, <3>5, <3>6, <3>7, Zenon DEF OnTheWay
    <3> QED
      BY <3>8
  <2> QED
    BY <2>2, <2>3
<1>5. WalksItsNames' /\ CanonicalAccepted' /\ StaysInBuffers'
  BY <1>2 DEF WalksItsNames, CanonicalAccepted, StaysInBuffers
<1>6. /\ pc' # "idle" /\ path' # <<>>
      /\ pc' = "split" => splits' /\ walked' = <<>> /\ ~overrun'
  BY <1>1, <1>2
<1> QED
  BY <1>3, <1>4, <1>5, <1>6 DEF PathInv

\* A part of the beginning of a path is a part of the path.
LEMMA PartOfBeginning ==
    ASSUME NEW p \in Seq(Chars), NEW m \in 1 .. Len(p), NEW i \in 1 .. m, NEW j \in 1 .. m
    PROVE  SubSeq(SubSeq(p, 1, m), i, j) = SubSeq(p, i, j)
<1>1. /\ 1 \in 1 .. Len(p) /\ i \in 1 .. m - 1 + 1 /\ j \in 1 .. m - 1 + 1
      /\ 1 + i - 1 = i /\ 1 + j - 1 = j
  <2>1. Len(p) \in Nat
    OBVIOUS
  <2> QED
    BY <2>1
<1>2. SubSeq(SubSeq(p, 1, m), i, j) = SubSeq(p, 1 + i - 1, 1 + j - 1)
  BY <1>1, SubSeqOfSubSeq
<1> QED
  BY <1>1, <1>2

\* Without the slash at its end a path is still the beginning of itself.
LEMMA StrippedIs ==
    ASSUME NEW s \in Seq(Chars), s # <<>>
    PROVE  /\ Stripped(s) \in Seq(Chars) /\ Len(Stripped(s)) \in Nat
           /\ Len(s) \in Nat \ {0}
           /\ Len(Stripped(s)) = IF s[Len(s)] = Slash THEN Len(s) - 1 ELSE Len(s)
           /\ Stripped(s) = SubSeq(s, 1, Len(Stripped(s)))
           /\ \A i \in 1 .. Len(Stripped(s)) : Stripped(s)[i] = s[i]
<1>0. Len(s) \in Nat \ {0} /\ \A j \in 1 .. Len(s) : s[j] \in Chars
  <2>1. Len(s) \in Nat /\ (Len(s) = 0 => s = <<>>) /\ \A j \in 1 .. Len(s) : s[j] \in Chars
    OBVIOUS
  <2> QED
    BY <2>1
<1> DEFINE m == IF s[Len(s)] = Slash THEN Len(s) - 1 ELSE Len(s)
<1>1. m \in Nat /\ m <= Len(s)
  BY <1>0
<1>2. Stripped(s) = SubSeq(s, 1, m)
  <2>1. SubSeq(s, 1, Len(s)) = s
    BY SubSeqFull
  <2> QED
    BY <2>1 DEF Stripped
<1> HIDE DEF m
<1>3. /\ SubSeq(s, 1, m) \in Seq(Chars)
      /\ Len(SubSeq(s, 1, m)) = m
      /\ \A i \in 1 .. m : SubSeq(s, 1, m)[i] = s[i]
  <2>1. 1 \in Int /\ m \in Int /\ \A i \in 1 .. m : s[i] \in Chars
    BY <1>0, <1>1
  <2>2. /\ SubSeq(s, 1, m) \in Seq(Chars)
        /\ Len(SubSeq(s, 1, m)) = IF 1 <= m THEN m - 1 + 1 ELSE 0
        /\ \A i \in 1 .. (m - 1 + 1) : SubSeq(s, 1, m)[i] = s[1 + i - 1]
    BY <2>1, SubSeqProperties
  <2>3. m - 1 + 1 = m /\ \A i \in 1 .. m : 1 + i - 1 = i
    BY <1>1
  <2> QED
    BY <2>2, <2>3, <1>1
<1>4. Len(Stripped(s)) = m
  BY <1>2, <1>3
<1> QED
  BY <1>0, <1>1, <1>2, <1>3, <1>4 DEF m

\* The refusal of split_path: the root, a relative path, two slashes at the end.
LEMMA SplitRefuses ==
    ASSUME PathInv, pc = "split",
           \/ Stripped(path) = <<>> \/ path[1] # Slash
           \/ LastSlash(Stripped(path)) = Len(Stripped(path))
    PROVE  Canonical(path) => splits /\ path = <<Slash>>
<1>0. path \in Seq(Chars) /\ path # <<>> /\ splits
  BY DEF PathInv, PathTypeOK
<1> DEFINE s == Stripped(path)
           m == Len(s)
<1>1. /\ s \in Seq(Chars) /\ m \in Nat /\ Len(path) \in Nat \ {0}
      /\ m = IF path[Len(path)] = Slash THEN Len(path) - 1 ELSE Len(path)
      /\ \A i \in 1 .. m : s[i] = path[i]
  BY <1>0, StrippedIs
<1>2. SUFFICES ASSUME Canonical(path) PROVE path = <<Slash>>
  BY <1>0
<1>3. /\ path[1] = Slash
      /\ \A i \in 2 .. Len(path) : ~(path[i] = Slash /\ path[i - 1] = Slash)
  BY <1>2 DEF Canonical
<1>4. CASE m = 0
  <2>1. Len(path) = 1
    BY <1>1, <1>4
  <2>2. <<Slash>> \in Seq(Chars) /\ Len(<<Slash>>) = 1 /\ <<Slash>>[1] = Slash
    BY DEF Chars
  <2>3. \A i \in 1 .. Len(path) : path[i] = <<Slash>>[i]
    BY <2>1, <2>2, <1>3
  <2> QED
    BY <2>1, <2>2, <2>3, <1>0, SeqEqual
<1>5. CASE m # 0
  <2>1. s # <<>> /\ 1 \in 1 .. m /\ m \in 1 .. m
    <3>1. s # <<>>
      BY <1>5
    <3> QED
      BY <3>1, <1>1, <1>5
  <2>2. LastSlash(s) = m
    BY <2>1, <1>3
  <2>3. 1 \in DOMAIN s /\ s[1] = Slash
    BY <2>1, <1>1, <1>3
  <2>4. s[m] = Slash
    BY <2>2, <2>3, <1>1, LastSlashFinds
  <2>5. path[m] = Slash
    BY <2>4, <2>1, <1>1
  <2>6. m # Len(path) /\ m = Len(path) - 1 /\ path[Len(path)] = Slash
    BY <2>5, <1>1
  <2>7. Len(path) \in 2 .. Len(path) /\ path[Len(path) - 1] = Slash
    BY <2>1, <2>5, <2>6, <1>1
  <2> QED
    BY <2>6, <2>7, <1>3
<1> QED
  BY <1>4, <1>5

(* What split_path hands on: the path to the last slash and the name       *)
(* behind it, which is the path's last.                                    *)
LEMMA SplitParts ==
    ASSUME NEW p \in Seq(Chars), p # <<>>, p[1] = Slash,
           NEW s, s = Stripped(p), s # <<>>,
           NEW last, last = LastSlash(s), last # Len(s)
    PROVE  /\ last \in 1 .. Len(p) /\ p[last] = Slash
           /\ SubSeq(s, 1, last) = SubSeq(p, 1, last)
           /\ SubSeq(s, last + 1, Len(s)) = NameAt(p, last + 1)
           /\ last + 1 \in Starts(p) /\ NameAt(p, last + 1) \in Seq(Chars)
           /\ Starts(p) = Before(p, last) \cup {last + 1}
<1> DEFINE m == Len(s)
<1>1. /\ s \in Seq(Chars) /\ m \in Nat /\ Len(p) \in Nat \ {0}
      /\ m = IF p[Len(p)] = Slash THEN Len(p) - 1 ELSE Len(p)
      /\ s = SubSeq(p, 1, m)
      /\ \A i \in 1 .. m : s[i] = p[i]
  BY StrippedIs
<1>2. m # 0 /\ 1 \in DOMAIN s /\ s[1] = Slash
  <2>1. m # 0
    BY <1>1
  <2>2. 1 \in 1 .. m
    BY <2>1, <1>1
  <2> QED
    BY <2>1, <2>2, <1>1
<1>3. last \in 1 .. m /\ s[last] = Slash /\ \A j \in (last + 1) .. m : s[j] # Slash
  BY <1>1, <1>2, LastSlashFinds
<1> HIDE DEF m
<1>4. last \in 1 .. Len(p) /\ last < m /\ m \in 1 .. Len(p) /\ m + 1 \in (last + 2) .. (Len(p) + 1) /\ (m + 1) - 1 = m
  BY <1>1, <1>3 DEF m
<1>5. p[last] = Slash /\ \A j \in (last + 1) .. m : p[j] # Slash
  <2>1. \A j \in (last + 1) .. m : j \in 1 .. m
    BY <1>3, <1>1
  <2> QED
    BY <2>1, <1>1, <1>3
<1>6. m + 1 <= Len(p) => p[m + 1] = Slash
  BY <1>1, <1>4
<1>7. /\ last + 1 \in Starts(p)
      /\ SubSeq(p, last + 1, (m + 1) - 1) = NameAt(p, last + 1)
      /\ NameAt(p, last + 1) \in Seq(Chars)
      /\ Before(p, m + 1) = Before(p, last) \cup {last + 1}
  <2>1. \A j \in (last + 1) .. ((m + 1) - 1) : p[j] # Slash
    BY <1>4, <1>5
  <2> QED
    BY <2>1, <1>4, <1>5, <1>6, NameBehindSlash, Zenon
<1>8. Before(p, m + 1) = Starts(p)
  <2>1. Starts(p) \in SUBSET (1 .. Len(p)) 
    BY StartsAreIndices
  <2>2. \A i \in Starts(p) : p[i] # Slash
    BY DEF Starts
  <2>3. \A i \in Starts(p) : i < m + 1
    BY <2>1, <2>2, <1>1, <1>4, <1>6
  <2> QED
    BY <2>1, <2>3 DEF Before
<1>9. SubSeq(s, 1, last) = SubSeq(p, 1, last) /\ SubSeq(s, last + 1, m) = SubSeq(p, last + 1, m)
  <2>1. PICK i \in 1 .. m : i = 1
    BY <1>1, <1>4
  <2>2. PICK j \in 1 .. m : j = last + 1
    BY <1>4
  <2>3. last \in 1 .. m /\ m \in 1 .. m
    BY <1>1, <1>4
  <2>4. SubSeq(SubSeq(p, 1, m), i, last) = SubSeq(p, i, last)
    <3>1. m \in 1 .. Len(p)
      BY <1>4
    <3> QED
      BY <3>1, <2>3, PartOfBeginning, Zenon
  <2>5. SubSeq(SubSeq(p, 1, m), j, m) = SubSeq(p, j, m)
    <3>1. m \in 1 .. Len(p)
      BY <1>4
    <3> QED
      BY <3>1, <2>3, PartOfBeginning, Zenon
  <2> QED
    BY <2>1, <2>2, <2>4, <2>5, <1>1
<1> QED
  BY <1>4, <1>5, <1>7, <1>8, <1>9 DEF m

\* split_path refuses, or the walk begins at the first character.
LEMMA SplitKeepsPathInv ==
    ASSUME PathInv, Split
    PROVE  PathInv'
<1> DEFINE s == Stripped(path)
           last == LastSlash(s)
<1>0. /\ PathTypeOK /\ path \in Seq(Chars) /\ path # <<>> /\ splits /\ walked = <<>> /\ ~overrun
      /\ pc = "split"
  BY DEF PathInv, PathTypeOK, Split
<1> DEFINE refused == s = <<>> \/ path[1] # Slash \/ last = Len(s)
<1>1. CASE refused
  <2>1. /\ pc' = "refused"
        /\ path' = path /\ splits' = splits /\ walked' = walked /\ name' = name /\ overrun' = overrun
    BY <1>1 DEF Split, Refuse
  <2>2. PathTypeOK'
    BY <2>1, <1>0 DEF PathTypeOK
  <2>3. CanonicalAccepted'
    <3>1. Canonical(path) => splits /\ path = <<Slash>>
      BY <1>0, <1>1, SplitRefuses
    <3> QED
      BY <3>1, <2>1 DEF CanonicalAccepted
  <2>4. WalksItsNames' /\ StaysInBuffers'
    BY <2>1, <1>0 DEF WalksItsNames, StaysInBuffers
  <2> QED
    BY <2>1, <2>2, <2>3, <2>4, <1>0 DEF PathInv
<1>2. CASE ~refused
  <2>1. s # <<>> /\ path[1] = Slash /\ last # Len(s)
    BY <1>2
  <2>2. /\ rest' = SubSeq(s, 1, last) /\ name' = SubSeq(s, last + 1, Len(s))
        /\ overrun' = (Len(name') >= MaxPathLen) /\ pc' = "walk"
        /\ path' = path /\ splits' = splits /\ walked' = walked
    BY <2>1 DEF Split
  <2> HIDE DEF s, last
  <2>3. PICK b : b = last
    OBVIOUS
  <2>4. /\ b \in 1 .. Len(path) /\ path[b] = Slash
        /\ SubSeq(s, 1, b) = SubSeq(path, 1, b)
        /\ SubSeq(s, b + 1, Len(s)) = NameAt(path, b + 1)
        /\ b + 1 \in Starts(path) /\ NameAt(path, b + 1) \in Seq(Chars)
        /\ Starts(path) = Before(path, b) \cup {b + 1}
    <3>1. s = Stripped(path) /\ b = LastSlash(s) /\ b # Len(s)
      BY <2>1, <2>3 DEF s, last
    <3> QED
      BY <3>1, <2>1, <1>0, SplitParts, SMTT(20)
  <2>5. PathTypeOK'
    <3>1. path' \in Seq(Chars) /\ walked' \in Seq(Seq(Chars)) /\ name' \in Seq(Chars)
      BY <1>0, <2>2, <2>3, <2>4 DEF PathTypeOK
    <3>2. overrun' \in BOOLEAN
      BY <2>2
    <3>3. splits' \in BOOLEAN
      BY <1>0, <2>2 DEF PathTypeOK
    <3> QED
      BY <2>2, <3>1, <3>2, <3>3 DEF PathTypeOK
  <2>6. OnTheWay'
    <3>1. EndsAt(b)'
      BY <1>0, <2>1, <2>2, <2>3, <2>4 DEF EndsAt
    <3>2. 1 \in 1 .. Len(path') /\ b \in 1 .. Len(path')
      BY <1>0, <2>2, <2>3, <2>4, StartsAreIndices
    <3>3. path'[1] = Slash /\ rest' = SubSeq(path', 1, b)
      BY <2>1, <2>2, <2>3, <2>4
    <3>4. Enumerates(walked', path', Before(path', 1))
      <4>1. Before(path, 1) = {}
        BY <1>0, StartsAreIndices DEF Before
      <4>2. Enumerates(<<>>, path, Before(path, 1))
        BY <4>1, EnumeratesNone
      <4> QED
        BY <4>2, <2>2, <1>0
    <3> QED
      BY <3>1, <3>2, <3>3, <3>4, Zenon DEF OnTheWay
  <2>7. StaysInBuffers'
    <3> SUFFICES ASSUME overrun' PROVE \E i \in Starts(path') : Len(NameAt(path', i)) > MaxPathLen - 2
      BY DEF StaysInBuffers
    <3>1. Len(NameAt(path, b + 1)) >= MaxPathLen
      BY <2>2, <2>3, <2>4
    <3>2. Len(NameAt(path, b + 1)) \in Nat
      BY <2>4, LenProperties
    <3>3. Len(NameAt(path, b + 1)) > MaxPathLen - 2
      BY <3>1, <3>2
    <3> QED
      BY <3>3, <2>2, <2>3, <2>4
  <2>8. WalksItsNames' /\ CanonicalAccepted'
    BY <2>2 DEF WalksItsNames, CanonicalAccepted
  <2> QED
    BY <2>2, <2>5, <2>6, <2>7, <2>8, <1>0 DEF PathInv
<1> QED
  BY <1>1, <1>2

\* At a single slash the names in front of it are all.
LEMMA ArriveKeepsPathInv ==
    ASSUME PathInv, Arrive
    PROVE  PathInv'
<1>0. /\ PathTypeOK /\ path \in Seq(Chars) /\ path # <<>> /\ pc = "walk" /\ rest = <<Slash>> /\ pc' = "found"
      /\ path' = path /\ splits' = splits /\ walked' = walked /\ name' = name /\ overrun' = overrun
      /\ StaysInBuffers
  BY DEF PathInv, PathTypeOK, Arrive
<1> SUFFICES ASSUME path[1] = Slash PROVE PathInv'
  BY <1>0 DEF WalksItsNames, PathInv, PathTypeOK, CanonicalAccepted, StaysInBuffers
<1>1. OnTheWay
  BY <1>0 DEF PathInv, Relative
<1>2. PICK a \in 1 .. Len(path) : \E b \in a .. Len(path) :
        /\ path[a] = Slash /\ rest = SubSeq(path, a, b)
        /\ EndsAt(b)
        /\ Enumerates(walked, path, Before(path, a))
  BY <1>1, Zenon DEF OnTheWay
<1>3. PICK b \in a .. Len(path) :
        /\ path[a] = Slash /\ rest = SubSeq(path, a, b)
        /\ EndsAt(b)
        /\ Enumerates(walked, path, Before(path, a))
  BY <1>2
<1>4. a = b
  <2>1. \E c \in (a + 1) .. (b + 1) : FirstNameEnds(rest, path, a, b, c)
    BY <1>0, <1>3, NameInFront
  <2> QED
    BY <2>1, <1>0, Zenon DEF FirstNameEnds
<1>5. /\ Len(path) \in Nat /\ Starts(path) \in SUBSET (1 .. Len(path))
      /\ Starts(path) \in SUBSET (1 .. Len(path)) /\ Before(path, a) \in SUBSET (1 .. Len(path))
  BY <1>0, StartsAreIndices
<1>6. CASE splits
  <2>1. /\ path[1] = Slash /\ Starts(path) = Before(path, a) \cup {a + 1}
        /\ name = NameAt(path, a + 1)
    BY <1>3, <1>4, <1>6 DEF EndsAt
  <2>2. Enumerates(Append(walked, name), path, Starts(path))
    <3>1. \A j \in Before(path, a) : j < a + 1
      BY <1>5 DEF Before
    <3>2. Before(path, a) \in SUBSET Nat /\ a + 1 \in Nat /\ walked \in Seq(Seq(Chars))
      BY <1>5, <1>0 DEF PathTypeOK
    <3>3. Enumerates(Append(walked, NameAt(path, a + 1)), path, Before(path, a) \cup {a + 1})
      BY <3>1, <3>2, <1>3, EnumeratesOneMore
    <3> QED
      BY <3>3, <2>1
  <2> QED
    BY <2>1, <2>2, <1>0, <1>6 DEF WalksItsNames, PathInv, PathTypeOK,
       CanonicalAccepted, StaysInBuffers
<1>7. CASE ~splits
  <2>1. b = Len(path)
    BY <1>3, <1>7, Zenon DEF EndsAt
  <2>2. Before(path, a) = Starts(path)
    <3>1. \A i \in Starts(path) : path[i] # Slash
      BY DEF Starts
    <3>2. \A i \in Starts(path) : i < a
      BY <3>1, <2>1, <1>3, <1>4, <1>5
    <3> QED
      BY <3>2 DEF Before
  <2>3. Enumerates(walked, path, Starts(path))
    BY <2>2, <1>3
  <2> QED
    BY <2>3, <1>0, <1>7 DEF WalksItsNames, PathInv, PathTypeOK,
       CanonicalAccepted, StaysInBuffers
<1> QED
  BY <1>6, <1>7

\* parse_path ends the process at two slashes, or at no slash.
LEMMA ExitKeepsPathInv ==
    ASSUME PathInv, Exit
    PROVE  PathInv'
<1>0. /\ PathTypeOK /\ path \in Seq(Chars) /\ path # <<>> /\ pc = "walk" /\ pc' = "dead"
      /\ path' = path /\ splits' = splits /\ walked' = walked /\ name' = name /\ overrun' = overrun
      /\ StaysInBuffers /\ rest # <<Slash>> /\ (SlashFrom(rest, 1) = 0 \/ NameLength(rest) = 0)
  BY DEF PathInv, PathTypeOK, Exit
<1>1. CanonicalAccepted'
  <2> SUFFICES ASSUME Canonical(path) PROVE FALSE
    BY <1>0 DEF CanonicalAccepted
  <2>0. /\ path[1] = Slash
        /\ \A i \in 2 .. Len(path) : ~(path[i] = Slash /\ path[i - 1] = Slash)
    BY DEF Canonical
  <2>1. OnTheWay
    BY <2>0, <1>0 DEF PathInv, Relative
  <2>2. PICK a \in 1 .. Len(path) : \E b \in a .. Len(path) : path[a] = Slash /\ rest = SubSeq(path, a, b)
    BY <2>1, Zenon DEF OnTheWay
  <2>3. PICK b \in a .. Len(path) : path[a] = Slash /\ rest = SubSeq(path, a, b)
    BY <2>2
  <2>4. \E c \in (a + 1) .. (b + 1) : FirstNameEnds(rest, path, a, b, c)
    BY <2>3, <1>0, NameInFront
  <2>5. PICK c \in (a + 1) .. (b + 1) :
            a # b /\ (c <= b => path[c] = Slash) /\ SlashFrom(rest, 1) = 1 /\ NameLength(rest) = c - a - 1
    BY <2>4, <1>0, Zenon DEF FirstNameEnds
  <2>6. Len(path) \in Nat
    BY <1>0, StartsAreIndices
  <2>7. NameLength(rest) = 0
    BY <1>0, <2>5
  <2>8. c = a + 1 /\ c <= b /\ a + 1 \in 2 .. Len(path) /\ (a + 1) - 1 = a
    BY <2>5, <2>6, <2>7
  <2> QED
    BY <2>0, <2>3, <2>5, <2>8
<1>2. PathTypeOK'
  BY <1>0 DEF PathTypeOK
<1> QED
  BY <1>0, <1>1, <1>2 DEF PathInv, WalksItsNames, StaysInBuffers

\* One level of the walk from a slash.
LEMMA DescendOnTheWay ==
    ASSUME PathInv, Descend, OnTheWay
    PROVE  PathInv'
<1>0. /\ PathTypeOK /\ path \in Seq(Chars) /\ path # <<>> /\ pc = "walk" /\ rest # <<Slash>>
      /\ SlashFrom(rest, 1) # 0 /\ NameLength(rest) # 0
      /\ walked' = Append(walked, ComponentOf(rest))
      /\ overrun' = (overrun \/ NameLength(rest) + 1 >= MaxPathLen)
      /\ path' = path /\ splits' = splits /\ name' = name
      /\ StaysInBuffers
  BY DEF PathInv, PathTypeOK, Descend
<1>1. PICK a \in 1 .. Len(path) : \E b \in a .. Len(path) :
        /\ path[a] = Slash /\ rest = SubSeq(path, a, b)
        /\ EndsAt(b)
        /\ Enumerates(walked, path, Before(path, a))
  BY Zenon DEF OnTheWay
<1>2. PICK b \in a .. Len(path) :
        /\ path[a] = Slash /\ rest = SubSeq(path, a, b)
        /\ EndsAt(b)
        /\ Enumerates(walked, path, Before(path, a))
  BY <1>1
<1>3. \E c \in (a + 1) .. (b + 1) : FirstNameEnds(rest, path, a, b, c)
  BY <1>0, <1>2, NameInFront
<1>4. PICK c \in (a + 1) .. (b + 1) : FirstNameEnds(rest, path, a, b, c)
  BY <1>3
<1>5. /\ c <= b => path[c] = Slash
      /\ \A j \in (a + 1) .. (c - 1) : path[j] # Slash
      /\ SlashFrom(rest, 1) = 1
      /\ SlashFrom(rest, 2) = (IF c <= b THEN c - a + 1 ELSE 0)
      /\ NameLength(rest) = c - a - 1
      /\ ComponentOf(rest) = SubSeq(path, a + 1, c - 1)
      /\ c <= b => SubSeq(rest, c - a + 1, Len(rest)) = SubSeq(path, c, b)
  BY <1>4, Zenon DEF FirstNameEnds
<1>6. c \in (a + 2) .. (b + 1) /\ Len(path) \in Nat
  <2>1. Len(path) \in Nat
    BY <1>0, StartsAreIndices
  <2> QED
    BY <2>1, <1>0, <1>5
<1>7. IF c <= b THEN pc' = "walk" /\ rest' = SubSeq(path, c, b) ELSE pc' = "found"
  <2>1. SlashFrom(rest, SlashFrom(rest, 1) + 1) = SlashFrom(rest, 2)
    BY <1>5
  <2>2. IF SlashFrom(rest, 2) = 0
        THEN pc' = "found"
        ELSE pc' = "walk" /\ rest' = SubSeq(rest, SlashFrom(rest, 2), Len(rest))
    BY <2>1, <1>0 DEF Descend
  <2>3. CASE c <= b
    <3>1. SlashFrom(rest, 2) = c - a + 1 /\ c - a + 1 # 0
      BY <2>3, <1>5, <1>6
    <3> QED
      BY <3>1, <2>2, <2>3, <1>5
  <2>4. CASE ~(c <= b)
    <3>1. SlashFrom(rest, 2) = 0
      BY <2>4, <1>5
    <3> QED
      BY <3>1, <2>2, <2>4
  <2> QED
    BY <2>3, <2>4
<1>8. walked' = Append(walked, SubSeq(path, a + 1, c - 1)) /\ UNCHANGED <<path, splits, name>>
  BY <1>0, <1>5
<1>9. /\ walked' \in Seq(Seq(Chars))
      /\ pc' = "walk" => OnTheWay'
      /\ WalksItsNames'
      /\ a + 1 \in Starts(path) /\ Len(NameAt(path, a + 1)) = c - a - 1
  BY <1>0, <1>2, <1>5, <1>6, <1>7, <1>8, WalksOn, Zenon
<1>10. pc' \in {"walk", "found"}
  BY <1>7
<1>11. StaysInBuffers'
  <2> SUFFICES ASSUME overrun', path[1] = Slash
               PROVE  \E i \in Starts(path) : Len(NameAt(path, i)) > MaxPathLen - 2
    BY <1>0 DEF StaysInBuffers
  <2>1. CASE overrun
    BY <2>1, <1>0 DEF StaysInBuffers
  <2>2. CASE NameLength(rest) + 1 >= MaxPathLen
    <3>1. c - a - 1 + 1 >= MaxPathLen
      BY <2>2, <1>5
    <3>2. Len(NameAt(path, a + 1)) > MaxPathLen - 2
      BY <3>1, <1>6, <1>9
    <3> QED
      BY <3>2, <1>9
  <2> QED
    BY <2>1, <2>2, <1>0
<1>12. PathTypeOK'
  <2>1. overrun' \in BOOLEAN
    BY <1>0
  <2>2. path' \in Seq(Chars) /\ splits' \in BOOLEAN /\ name' \in Seq(Chars)
    BY <1>0 DEF PathTypeOK
  <2> QED
    BY <2>1, <2>2, <1>9, <1>10 DEF PathTypeOK
<1>13. CanonicalAccepted'
  BY <1>10 DEF CanonicalAccepted
<1> QED
  BY <1>0, <1>9, <1>10, <1>11, <1>12, <1>13 DEF PathInv

\* One level of the walk along a relative path.
LEMMA DescendRelative ==
    ASSUME PathInv, Descend, Relative
    PROVE  PathInv'
<1> DEFINE f == SlashFrom(rest, 1)
           g == SlashFrom(rest, f + 1)
<1>0. /\ PathTypeOK /\ path \in Seq(Chars) /\ path # <<>> /\ rest \in Seq(Chars)
      /\ f # 0 /\ NameLength(rest) # 0
      /\ walked \in Seq(Seq(Chars)) /\ walked' = Append(walked, ComponentOf(rest))
      /\ overrun' = (overrun \/ NameLength(rest) + 1 >= MaxPathLen)
      /\ path' = path /\ splits' = splits /\ name' = name /\ path[1] # Slash
      /\ IF g = 0 THEN pc' = "found" ELSE pc' = "walk" /\ rest' = SubSeq(rest, g, Len(rest))
  BY DEF PathInv, PathTypeOK, Descend, Relative
<1>1. Len(rest) \in Nat /\ \A j \in 1 .. Len(rest) : rest[j] \in Chars
  BY <1>0
<1>2. f \in 1 .. Len(rest)
  <2>1. 1 \in Nat \ {0}
    OBVIOUS
  <2> QED
    BY <2>1, <1>0, SlashFromFinds
<1>3. g = 0 \/ g \in (f + 1) .. Len(rest)
  <2>1. f + 1 \in Nat \ {0}
    BY <1>1, <1>2
  <2> QED
    BY <2>1, <1>0, SlashFromFinds
<1>4. ComponentOf(rest) \in Seq(Chars)
  <2>1. NameLength(rest) \in Int
    BY <1>1, <1>2, <1>3 DEF NameLength
  <2> DEFINE e == IF f + NameLength(rest) > Len(rest) THEN Len(rest) ELSE f + NameLength(rest)
  <2>2. ComponentOf(rest) = SubSeq(rest, f + 1, e)
    BY DEF ComponentOf
  <2>3. e \in Int /\ e <= Len(rest) /\ f + 1 \in Int
    BY <2>1, <1>1, <1>2
  <2> HIDE DEF e
  <2>4. \A j \in (f + 1) .. e : rest[j] \in Chars
    BY <2>3, <1>1, <1>2
  <2> QED
    BY <2>2, <2>3, <2>4, SubSeqProperties
<1>5. pc' = "walk" => Relative'
  <2> SUFFICES ASSUME pc' = "walk" PROVE Relative'
    OBVIOUS
  <2>1. rest' = SubSeq(rest, g, Len(rest)) /\ g \in 1 .. Len(rest)
    BY <1>0, <1>1, <1>2, <1>3
  <2>2. g \in Int /\ Len(rest) \in Int /\ \A j \in g .. Len(rest) : rest[j] \in Chars
    BY <2>1, <1>1
  <2>3. rest' \in Seq(Chars)
    BY <2>1, <2>2, SubSeqProperties
  <2> QED
    BY <2>3, <1>0 DEF Relative
<1>6. pc' \in {"walk", "found"}
  BY <1>0
<1>7. PathTypeOK'
  <2>1. walked' \in Seq(Seq(Chars))
    BY <1>0, <1>4
  <2>2. overrun' \in BOOLEAN
    BY <1>0
  <2>3. path' \in Seq(Chars) /\ splits' \in BOOLEAN /\ name' \in Seq(Chars)
    BY <1>0 DEF PathTypeOK
  <2> QED
    BY <2>1, <2>2, <2>3, <1>6 DEF PathTypeOK
<1>8. WalksItsNames' /\ CanonicalAccepted' /\ StaysInBuffers'
  BY <1>0, <1>6 DEF WalksItsNames, CanonicalAccepted, StaysInBuffers
<1> QED
  BY <1>0, <1>5, <1>6, <1>7, <1>8 DEF PathInv

\* Every command finds the walk where no command has left anything.
LEMMA NextCommandKeepsPathInv ==
    ASSUME PathInv, NextCommand
    PROVE  PathInv'
<1>1. <<>> \in Seq(Chars) /\ <<>> \in Seq(Seq(Chars))
  BY EmptySeq
<1>2. /\ pc' = "idle" /\ path' = <<>> /\ splits' = FALSE
      /\ walked' = <<>> /\ name' = <<>> /\ overrun' = FALSE
  BY DEF NextCommand
<1> QED
  BY <1>1, <1>2 DEF PathInv, PathTypeOK, WalksItsNames, CanonicalAccepted, StaysInBuffers

(* The invariant holds in every state of every walk.                       *)
THEOREM PathInvariant == Spec => []PathInv
<1>1. Init => PathInv
  <2> SUFFICES ASSUME Init PROVE PathInv
    OBVIOUS
  <2>1. <<>> \in Seq(Chars) /\ <<>> \in Seq(Seq(Chars))
    BY EmptySeq
  <2> QED
    BY <2>1 DEF Init, PathInv, PathTypeOK, WalksItsNames, CanonicalAccepted, StaysInBuffers
<1>2. PathInv /\ [Next]_vars => PathInv'
  <2> SUFFICES ASSUME PathInv, [Next]_vars PROVE PathInv'
    OBVIOUS
  <2>1. ASSUME NEW s \in Strings, NEW split \in BOOLEAN, Give(s, split) PROVE PathInv'
    BY <2>1, GiveKeepsPathInv
  <2>2. CASE Split
    BY <2>2, SplitKeepsPathInv
  <2>3. CASE Arrive
    BY <2>3, ArriveKeepsPathInv
  <2>4. CASE Exit
    BY <2>4, ExitKeepsPathInv
  <2>5. CASE Descend
    <3>1. Relative \/ OnTheWay
      BY <2>5 DEF PathInv, Descend
    <3> QED
      BY <3>1, <2>5, DescendOnTheWay, DescendRelative
  <2>6. CASE NextCommand
    BY <2>6, NextCommandKeepsPathInv
  <2>7. CASE UNCHANGED vars
    <3>0. /\ path' = path /\ splits' = splits /\ pc' = pc /\ rest' = rest
          /\ walked' = walked /\ name' = name /\ overrun' = overrun
      BY <2>7 DEF vars
    <3>1. PathTypeOK'
      BY <3>0 DEF PathInv, PathTypeOK
    <3>2. Relative => Relative'
      BY <3>0 DEF Relative
    <3>3. OnTheWay => OnTheWay'
      BY <3>0 DEF OnTheWay, EndsAt
    <3>4. WalksItsNames'
      BY <3>0 DEF PathInv, WalksItsNames
    <3>5. CanonicalAccepted' /\ StaysInBuffers'
      BY <3>0 DEF PathInv, CanonicalAccepted, StaysInBuffers
    <3> QED
      BY <3>0, <3>1, <3>2, <3>3, <3>4, <3>5 DEF PathInv
  <2> QED
    BY <2>1, <2>2, <2>3, <2>4, <2>5, <2>6, <2>7 DEF Next
<1> QED
  BY <1>1, <1>2, PTL DEF Spec

(* split_path and parse_path: an absolute path is walked name by name,     *)
(* whatever its length; for touch, mkdir and open the last name is split   *)
(* off.                                                                    *)
THEOREM AbsolutePathsAreWalked == Spec => []WalksItsNames
<1>1. PathInv => WalksItsNames
  BY DEF PathInv
<1> QED
  BY <1>1, PathInvariant, PTL

\* An absolute path with single slashes is neither refused nor deadly.
THEOREM CanonicalPathsAreAccepted == Spec => []CanonicalAccepted
<1>1. PathInv => CanonicalAccepted
  BY DEF PathInv
<1> QED
  BY <1>1, PathInvariant, PTL

(* The buffers of max_path_len bytes are not written behind their end by   *)
(* an absolute path whose names are two bytes shorter.                     *)
THEOREM BuffersHold == Spec => []StaysInBuffers
<1>1. PathInv => StaysInBuffers
  BY DEF PathInv
<1> QED
  BY <1>1, PathInvariant, PTL

=============================================================================
