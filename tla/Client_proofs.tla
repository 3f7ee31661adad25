---------------------------- MODULE Client_proofs ---------------------------
(***************************************************************************)
(* Theorems about Client for every script, every size of the command       *)
(* buffer and every number of descriptors of the host.                     *)
(***************************************************************************)
EXTENDS Client, TLAPS, WellFoundedInduction, SequenceTheorems, FiniteSetTheorems

USE ClientAssumption

(***************************************************************************)
(* What may end the shell.                                                 *)
(***************************************************************************)

ClientTypeOK ==
    /\ script \in Scripts /\ input \in Seq(Characters) /\ buffer \in Seq(Characters)
    /\ pc \in {"prompt", "parse", "call", "quit", "exit", "starved", "dead"}
    /\ leaked \in Nat /\ executed \in Seq(Seq(Characters))

\* A part of what is typed is made of what may be typed.
LEMMA PartsAreTyped ==
    ASSUME NEW T, NEW s \in Seq(T), NEW m \in Nat \ {0}, NEW n \in Int, n <= Len(s)
    PROVE  SubSeq(s, m, n) \in Seq(T)
<1>1. Len(s) \in Nat /\ \A i \in 1 .. Len(s) : s[i] \in T
  OBVIOUS
<1>2. m \in Int /\ n \in Int /\ \A i \in m .. n : s[i] \in T
  BY <1>1
<1> QED
  BY <1>2, SubSeqProperties

\* First finds the first c in s, or 0 if there is none.
LEMMA FirstFinds ==
    ASSUME NEW s \in Seq(Characters), NEW c
    PROVE  \/ /\ First(s, c) = 0
              /\ \A j \in 1 .. Len(s) : s[j] # c
           \/ /\ First(s, c) \in 1 .. Len(s)
              /\ s[First(s, c)] = c
              /\ \A j \in 1 .. (First(s, c) - 1) : s[j] # c
<1> DEFINE S == {i \in 1 .. Len(s) : s[i] = c}
<1>0. Len(s) \in Nat /\ DOMAIN s = 1 .. Len(s)
  OBVIOUS
<1>1. CASE S = {}
  <2>1. \A j \in 1 .. Len(s) : s[j] # c
    BY <1>1
  <2> QED
    BY <2>1, <1>0 DEF First
<1>2. CASE S # {}
  <2>1. S \in SUBSET Nat
    BY <1>0
  <2>2. PICK x \in S : \A y \in S : ~(<<y, x>> \in OpToRel(<, Nat))
    BY <1>2, <2>1, NatLessThanWellFounded, WFMin, Zenon
  <2>3. x \in 1 .. Len(s) /\ s[x] = c
    BY <2>2
  <2>4. \A j \in 1 .. (x - 1) : s[j] # c
    <3> SUFFICES ASSUME NEW j \in 1 .. (x - 1), s[j] = c PROVE FALSE
      OBVIOUS
    <3>1. j \in S /\ j < x /\ j \in Nat /\ x \in Nat
      BY <1>0, <2>3
    <3>2. <<j, x>> \in OpToRel(<, Nat)
      BY <3>1 DEF OpToRel
    <3> QED
      BY <3>1, <3>2, <2>2
  <2>5. First(s, c) = CHOOSE i \in DOMAIN s : s[i] = c /\ \A j \in 1 .. (i - 1) : s[j] # c
    BY <2>3, <1>0 DEF First
  <2>6. /\ First(s, c) \in DOMAIN s
        /\ s[First(s, c)] = c /\ \A j \in 1 .. (First(s, c) - 1) : s[j] # c
    BY <2>3, <2>4, <2>5, <1>0, Zenon
  <2> QED
    BY <2>6, <1>0
<1> QED
  BY <1>1, <1>2

\* ReadLine takes a part of the input, and at least a character.
LEMMA LineIsPart ==
    ASSUME NEW s \in Seq(Characters), s # <<>>
    PROVE  LET line == First(s, Newline)
               size == Smaller(IF line = 0 THEN Len(s) ELSE line, BufferSize - 1)
           IN  size \in 1 .. Len(s)
<1>0. Len(s) \in Nat \ {0}
  <2>1. Len(s) \in Nat /\ (Len(s) = 0 => s = <<>>)
    OBVIOUS
  <2> QED
    BY <2>1
<1>1. First(s, Newline) = 0 \/ First(s, Newline) \in 1 .. Len(s)
  BY FirstFinds
<1> QED
  BY <1>0, <1>1 DEF Smaller

\* A string that is not empty loses its last character.
LEMMA WithoutLastType ==
    ASSUME NEW s \in Seq(Characters), s # <<>>
    PROVE  WithoutLast(s) \in Seq(Characters)
<1>0. Len(s) \in Nat \ {0}
  <2>1. Len(s) \in Nat /\ (Len(s) = 0 => s = <<>>)
    OBVIOUS
  <2> QED
    BY <2>1
<1>1. Len(s) - 1 \in Int /\ Len(s) - 1 <= Len(s) /\ 1 \in Nat \ {0}
  BY <1>0
<1> QED
  BY <1>1, PartsAreTyped DEF WithoutLast

\* The seeks are counted as they are executed.
LEMMA SeekCounted ==
    ASSUME NEW commands \in Seq(Seq(Characters)), NEW command \in Seq(Characters)
    PROVE  /\ Cardinality(SeeksOf(commands)) \in Nat
           /\ Cardinality(SeeksOf(Append(commands, command))) =
                  Cardinality(SeeksOf(commands)) + (IF Word(command) = Lseek THEN 1 ELSE 0)
<1> DEFINE n == Len(commands)
           more == Append(commands, command)
<1>0. n \in Nat /\ DOMAIN commands = 1 .. n
  OBVIOUS
<1>1. /\ DOMAIN more = 1 .. (n + 1) /\ more[n + 1] = command
      /\ \A k \in 1 .. n : more[k] = commands[k]
  <2>1. /\ more \in Seq(Seq(Characters)) /\ Len(more) = n + 1 /\ more[n + 1] = command
        /\ \A k \in 1 .. n : more[k] = commands[k]
    BY AppendProperties
  <2> QED
    BY <2>1
<1> HIDE DEF more
<1>2. IsFiniteSet(SeeksOf(commands)) /\ Cardinality(SeeksOf(commands)) \in Nat
  <2>1. IsFiniteSet(1 .. n)
    BY <1>0, FS_Interval
  <2>2. SeeksOf(commands) \subseteq 1 .. n
    BY <1>0 DEF SeeksOf
  <2>3. IsFiniteSet(SeeksOf(commands))
    BY <2>1, <2>2, FS_Subset
  <2> QED
    BY <2>3, FS_CardinalityType
<1>3. n + 1 \notin SeeksOf(commands)
  BY <1>0 DEF SeeksOf
<1>4. CASE Word(command) = Lseek
  <2>1. SeeksOf(more) = SeeksOf(commands) \cup {n + 1}
    BY <1>0, <1>1, <1>4 DEF SeeksOf
  <2>2. Cardinality(SeeksOf(commands) \cup {n + 1}) = Cardinality(SeeksOf(commands)) + 1
    BY <1>2, <1>3, FS_AddElement
  <2> QED
    BY <2>1, <2>2, <1>2, <1>4 DEF more
<1>5. CASE Word(command) # Lseek
  <2>1. SeeksOf(more) = SeeksOf(commands)
    BY <1>0, <1>1, <1>5 DEF SeeksOf
  <2> QED
    BY <2>1, <1>2, <1>5 DEF more
<1> QED
  BY <1>4, <1>5

\* No more files are left open than lseeks were executed.
EndsInv ==
    /\ ClientTypeOK
    /\ leaked + (IF pc = "call" /\ Word(buffer) = Lseek THEN 1 ELSE 0) <= Cardinality(SeeksOf(executed))
    /\ EndsOf

\* The types hold.
LEMMA InitHasTypes ==
    ASSUME Init
    PROVE  ClientTypeOK
<1>1. <<>> \in Seq(Characters) /\ <<>> \in Seq(Seq(Characters)) /\ script \in Seq(Characters)
  BY EmptySeq DEF Init
<1> QED
  BY <1>1 DEF Init, ClientTypeOK

LEMMA StepKeepsTypes ==
    ASSUME ClientTypeOK, Next
    PROVE  ClientTypeOK'
<1>0. <<>> \in Seq(Characters) /\ <<>> \in Seq(Seq(Characters))
  BY EmptySeq
<1>1. CASE ReadLine
  <2> DEFINE line == First(input, Newline)
             size == Smaller(IF line = 0 THEN Len(input) ELSE line, BufferSize - 1)
  <2>1. /\ input # <<>> /\ input \in Seq(Characters) /\ pc' = "parse"
        /\ buffer' = WithoutLast(SubSeq(input, 1, size))
        /\ input' = SubSeq(input, size + 1, Len(input))
        /\ script' = script /\ leaked' = leaked /\ executed' = executed
    BY <1>1 DEF ReadLine, ClientTypeOK
  <2>2. size \in 1 .. Len(input)
    BY <2>1, LineIsPart
  <2> HIDE DEF size
  <2>3. Len(input) \in Nat
    BY <2>1
  <2>4. SubSeq(input, 1, size) \in Seq(Characters) /\ SubSeq(input, 1, size) # <<>>
    <3>1. 1 \in Int /\ size \in Int /\ 1 <= size /\ \A i \in 1 .. size : input[i] \in Characters
      BY <2>1, <2>2, <2>3
    <3>2. SubSeq(input, 1, size) \in Seq(Characters) /\ Len(SubSeq(input, 1, size)) = size - 1 + 1
      BY <3>1, SubSeqProperties
    <3>3. Len(SubSeq(input, 1, size)) # 0
      BY <3>1, <3>2
    <3>4. Len(<<>>) = 0
      OBVIOUS
    <3> QED
      BY <3>2, <3>3, <3>4, Zenon
  <2>5. buffer' \in Seq(Characters)
    BY <2>1, <2>4, WithoutLastType
  <2>6. input' \in Seq(Characters)
    <3>1. size + 1 \in Nat \ {0} /\ Len(input) \in Int /\ Len(input) <= Len(input)
      BY <2>2, <2>3
    <3> QED
      BY <3>1, <2>1, PartsAreTyped
  <2> QED
    BY <2>1, <2>5, <2>6 DEF ClientTypeOK
<1>2. CASE ReadNothing
  <2>1. /\ input' = input /\ script' = script /\ leaked' = leaked /\ executed' = executed
        /\ pc' \in {"dead", "prompt", "parse"}
        /\ \/ buffer' = buffer
           \/ buffer # <<>> /\ buffer' = WithoutLast(buffer)
    BY <1>2, Zenon DEF ReadNothing
  <2>2. buffer' \in Seq(Characters)
    BY <2>1, WithoutLastType DEF ClientTypeOK
  <2> QED
    BY <2>1, <2>2 DEF ClientTypeOK
<1>3. CASE Parse
  <2>1. /\ input' = input /\ script' = script /\ leaked' = leaked /\ buffer' = buffer
        /\ executed' = Append(executed, buffer)
        /\ pc' \in {"dead", "prompt", "call", "quit"}
    BY <1>3 DEF Parse
  <2>2. executed' \in Seq(Seq(Characters))
    BY <2>1, AppendProperties DEF ClientTypeOK
  <2> QED
    BY <2>1, <2>2 DEF ClientTypeOK
<1>4. CASE Handle
  <2>1. /\ input' = input /\ script' = script /\ buffer' = buffer /\ executed' = executed
        /\ leaked' = leaked \/ leaked' = leaked + 1
        /\ pc' \in {"starved", "exit", "prompt"}
    BY <1>4 DEF Handle
  <2> QED
    BY <2>1 DEF ClientTypeOK
<1>5. CASE Start
  <2>1. /\ input' = script /\ script' = script /\ buffer' = <<>> /\ executed' = <<>>
        /\ leaked' = 0 /\ pc' = "prompt"
    BY <1>5 DEF Start
  <2>2. script \in Seq(Characters)
    BY DEF ClientTypeOK
  <2> QED
    BY <2>1, <2>2, <1>0 DEF ClientTypeOK
<1> QED
  BY <1>1, <1>2, <1>3, <1>4, <1>5 DEF Next

\* A handler leaves a file open for the lseek just counted, and none is left after HostFds.
LEMMA StepKeepsEndsInv ==
    ASSUME EndsInv, Next
    PROVE  EndsInv'
<1> DEFINE seeks == Cardinality(SeeksOf(executed))
<1>0. /\ ClientTypeOK /\ leaked \in Nat /\ seeks \in Nat /\ leaked <= seeks
      /\ executed \in Seq(Seq(Characters)) /\ buffer \in Seq(Characters)
  <2>1. ClientTypeOK /\ leaked \in Nat /\ executed \in Seq(Seq(Characters)) /\ buffer \in Seq(Characters)
    BY DEF EndsInv, ClientTypeOK
  <2>2. seeks \in Nat
    BY <2>1, SeekCounted
  <2> QED
    BY <2>1, <2>2 DEF EndsInv
<1>1. ClientTypeOK'
  BY <1>0, StepKeepsTypes
<1>2. CASE ReadLine
  <2>1. pc' = "parse" /\ leaked' = leaked /\ executed' = executed
    BY <1>2 DEF ReadLine
  <2> QED
    BY <2>1, <1>0, <1>1 DEF EndsInv, EndsOf
<1>3. CASE ReadNothing
  <2>1. /\ pc' \in {"dead", "prompt", "parse"} /\ leaked' = leaked /\ executed' = executed
        /\ pc' = "dead" => input' = <<>> /\ buffer' = <<>>
    BY <1>3 DEF ReadNothing
  <2> QED
    BY <2>1, <1>0, <1>1 DEF EndsInv, EndsOf
<1>4. CASE Parse
  <2>1. /\ leaked' = leaked /\ buffer' = buffer /\ executed' = Append(executed, buffer)
        /\ pc' # "starved"
        /\ pc' = "dead" => Word(buffer) = Read /\ First(buffer, Space) = 0
    BY <1>4 DEF Parse, Quit, Plain, Path, Close, Write, Lseek, Read
  <2>2. Cardinality(SeeksOf(executed)') = seeks + (IF Word(buffer) = Lseek THEN 1 ELSE 0)
    <3>1. Cardinality(SeeksOf(Append(executed, buffer))) = seeks + (IF Word(buffer) = Lseek THEN 1 ELSE 0)
      BY <1>0, SeekCounted
    <3>2. SeeksOf(executed') = SeeksOf(Append(executed, buffer))
      BY <2>1
    <3> QED
      BY <3>1, <3>2
  <2>3. pc' = "dead" => buffer' = Read
    BY <2>1 DEF Word
  <2>4. EndsOf'
    BY <2>1, <2>3 DEF EndsOf
  <2>5. leaked' + (IF pc' = "call" /\ Word(buffer') = Lseek THEN 1 ELSE 0) <= Cardinality(SeeksOf(executed)')
    BY <2>1, <2>2, <1>0
  <2> QED
    BY <2>4, <2>5, <1>1 DEF EndsInv
<1>5. CASE Handle
  <2>1. /\ pc = "call" /\ buffer' = buffer /\ executed' = executed
        /\ \/ leaked = HostFds /\ pc' = "starved" /\ leaked' = leaked
           \/ pc' \in {"prompt", "exit"} /\ leaked' = leaked
           \/ pc' = "prompt" /\ Word(buffer) = Lseek /\ leaked' = leaked + 1
    BY <1>5 DEF Handle
  <2>2. leaked' <= seeks
    BY <2>1, <1>0 DEF EndsInv
  <2>3. pc' # "dead" /\ (pc' = "starved" => seeks >= HostFds)
    BY <2>1, <1>0
  <2>4. SeeksOf(executed') = SeeksOf(executed)
    BY <2>1
  <2>5. leaked' + (IF pc' = "call" /\ Word(buffer') = Lseek THEN 1 ELSE 0) <= Cardinality(SeeksOf(executed'))
    BY <2>1, <2>2, <2>4, <1>0
  <2>6. EndsOf'
    BY <2>3, <2>4 DEF EndsOf
  <2> QED
    BY <2>5, <2>6, <1>1 DEF EndsInv
<1>6. CASE Start
  <2>1. pc' = "prompt" /\ leaked' = 0 /\ executed' = <<>>
    BY <1>6 DEF Start
  <2>2. SeeksOf(<<>>) = {}
    BY DEF SeeksOf
  <2>3. Cardinality(SeeksOf(executed')) = 0
    BY <2>1, <2>2, FS_EmptySet
  <2> QED
    BY <2>1, <2>3, <1>1 DEF EndsInv, EndsOf
<1> QED
  BY <1>2, <1>3, <1>4, <1>5, <1>6 DEF Next

(* The shell itself dies only at the end of the input or of a read without *)
(* arguments, and it finds the image within reach until as many lseeks     *)
(* were given as the host lets it have files open.                         *)
THEOREM ShellEndsOf == Spec => []EndsOf
<1>1. Init => EndsInv
  <2> SUFFICES ASSUME Init PROVE EndsInv
    OBVIOUS
  <2>2. SeeksOf(<<>>) = {} /\ Cardinality({}) = 0
    BY FS_EmptySet DEF SeeksOf
  <2>3. ClientTypeOK
    BY InitHasTypes
  <2>4. pc = "prompt" /\ leaked = 0 /\ Cardinality(SeeksOf(executed)) = 0
    BY <2>2 DEF Init
  <2> QED
    BY <2>3, <2>4 DEF EndsInv, EndsOf
<1>2. EndsInv /\ [Next]_vars => EndsInv'
  <2> SUFFICES ASSUME EndsInv, [Next]_vars PROVE EndsInv'
    OBVIOUS
  <2>1. CASE Next
    BY <2>1, StepKeepsEndsInv
  <2>2. CASE UNCHANGED vars
    BY <2>2 DEF vars, EndsInv, ClientTypeOK, EndsOf
  <2> QED
    BY <2>1, <2>2
<1>3. EndsInv => EndsOf
  BY DEF EndsInv
<1> QED
  BY <1>1, <1>2, <1>3, PTL DEF Spec

(***************************************************************************)
(* The lines of a script.                                                  *)
(***************************************************************************)

\* The newlines up to an index are a finite set, of indices.
LEMMA NewlinesAre ==
    ASSUME NEW s \in Seq(Characters)
    PROVE  /\ Len(s) \in Nat /\ DOMAIN s = 1 .. Len(s)
           /\ Newlines(s) \in SUBSET (1 .. Len(s))
           /\ \A i : /\ IsFiniteSet({j \in Newlines(s) : j <= i})
                     /\ NewlinesTo(s, i) \in Nat
           /\ LineCount(s) \in Nat
<1>1. Len(s) \in Nat /\ DOMAIN s = 1 .. Len(s)
  OBVIOUS
<1>2. Newlines(s) \in SUBSET (1 .. Len(s))
  BY <1>1 DEF Newlines
<1>3. ASSUME NEW i
      PROVE  IsFiniteSet({j \in Newlines(s) : j <= i}) /\ NewlinesTo(s, i) \in Nat
  <2>1. IsFiniteSet(1 .. Len(s))
    BY <1>1, FS_Interval
  <2>2. {j \in Newlines(s) : j <= i} \in SUBSET (1 .. Len(s))
    BY <1>2
  <2>3. IsFiniteSet({j \in Newlines(s) : j <= i})
    BY <2>1, <2>2, FS_Subset
  <2> QED
    BY <2>3, FS_CardinalityType DEF NewlinesTo
<1> QED
  BY <1>1, <1>2, <1>3 DEF LineCount

\* A newline counts, from its index on.
LEMMA NewlineCounts ==
    ASSUME NEW s \in Seq(Characters), NEW p \in Nat, NEW q \in Newlines(s), p < q
    PROVE  NewlinesTo(s, p) < NewlinesTo(s, q)
<1> DEFINE P == {j \in Newlines(s) : j <= p}
           Q == {j \in Newlines(s) : j <= q}
<1>1. /\ Newlines(s) \in SUBSET (1 .. Len(s)) /\ Len(s) \in Nat
      /\ IsFiniteSet(Q) /\ NewlinesTo(s, p) \in Nat /\ NewlinesTo(s, q) \in Nat
  BY NewlinesAre
<1>2. P \in SUBSET Q /\ q \in Q /\ q \notin P
  BY <1>1
<1>3. Cardinality(P) <= Cardinality(Q) /\ (Cardinality(Q) = Cardinality(P) => Q = P)
  BY <1>1, <1>2, FS_Subset
<1>4. Cardinality(P) # Cardinality(Q)
  BY <1>2, <1>3
<1>5. Cardinality(P) = NewlinesTo(s, p) /\ Cardinality(Q) = NewlinesTo(s, q)
  BY DEF NewlinesTo
<1> QED
  BY <1>1, <1>3, <1>4, <1>5

\* The newline behind p is one more.
LEMMA NextNewline ==
    ASSUME NEW s \in Seq(Characters), NEW p \in Nat, NEW q \in Newlines(s), p < q,
           \A j \in (p + 1) .. (q - 1) : s[j] # Newline
    PROVE  NewlinesTo(s, q) = NewlinesTo(s, p) + 1
<1> DEFINE P == {j \in Newlines(s) : j <= p}
<1>1. Newlines(s) \in SUBSET (1 .. Len(s)) /\ Len(s) \in Nat /\ IsFiniteSet(P)
  BY NewlinesAre
<1>2. {j \in Newlines(s) : j <= q} = P \cup {q}
  <2>1. \A j \in Newlines(s) : j <= q <=> j <= p \/ j = q
    <3> SUFFICES ASSUME NEW j \in Newlines(s), j <= q, ~(j <= p) PROVE j = q
      BY <1>1
    <3>1. s[j] = Newline
      BY DEF Newlines
    <3>2. j \notin (p + 1) .. (q - 1)
      BY <3>1
    <3> QED
      BY <3>2, <1>1
  <2> QED
    BY <2>1
<1>3. q \notin P
  BY <1>1
<1>4. Cardinality(P \cup {q}) = Cardinality(P) + 1
  BY <1>1, <1>3, FS_AddElement
<1> QED
  BY <1>2, <1>4 DEF NewlinesTo

\* So an index of a newline, or 0, is where the lines in front of it end.
LEMMA EndOfIs ==
    ASSUME NEW s \in Seq(Characters), NEW p \in Newlines(s) \cup {0}
    PROVE  p \in Nat /\ EndOf(s, NewlinesTo(s, p)) = p
<1>1. Newlines(s) \in SUBSET (1 .. Len(s)) /\ Len(s) \in Nat /\ \A i : NewlinesTo(s, i) \in Nat
  BY NewlinesAre
<1>2. p \in Nat
  BY <1>1
<1>3. ASSUME NEW q \in Newlines(s) \cup {0}, NewlinesTo(s, q) = NewlinesTo(s, p)
      PROVE  q = p
  <2>1. q \in Nat
    BY <1>1
  <2>2. CASE p < q
    <3>1. q \in Newlines(s)
      BY <2>2, <1>2, <2>1
    <3>2. NewlinesTo(s, p) < NewlinesTo(s, q)
      BY <3>1, <2>2, <1>2, NewlineCounts
    <3> QED
      BY <3>2, <1>1, <1>3
  <2>3. CASE q < p
    <3>1. p \in Newlines(s)
      BY <2>3, <1>2, <2>1
    <3>2. NewlinesTo(s, q) < NewlinesTo(s, p)
      BY <3>1, <2>1, <2>3, NewlineCounts
    <3> QED
      BY <3>2, <1>1, <1>3
  <2> QED
    BY <2>1, <2>2, <2>3, <1>2
<1>4. EndOf(s, NewlinesTo(s, p)) = p
  BY <1>3 DEF EndOf
<1> QED
  BY <1>2, <1>4

\* All lines end at p, if there is no newline behind it, and only then.
LEMMA LastLine ==
    ASSUME NEW s \in Seq(Characters), NEW p \in Newlines(s) \cup {0}
    PROVE  /\ NewlinesTo(s, p) <= LineCount(s)
           /\ NewlinesTo(s, p) = LineCount(s) <=> \A j \in (p + 1) .. Len(s) : s[j] # Newline
<1>1. /\ Newlines(s) \in SUBSET (1 .. Len(s)) /\ Len(s) \in Nat /\ DOMAIN s = 1 .. Len(s)
      /\ \A i : NewlinesTo(s, i) \in Nat
  BY NewlinesAre
<1>2. p \in Nat /\ p <= Len(s)
  BY <1>1
<1>3. CASE \A j \in (p + 1) .. Len(s) : s[j] # Newline
  <2>1. \A j \in Newlines(s) : j <= p <=> j <= Len(s)
    <3> SUFFICES ASSUME NEW j \in Newlines(s) PROVE j <= p
      BY <1>1
    <3>1. s[j] = Newline /\ j \in 1 .. Len(s)
      BY <1>1 DEF Newlines
    <3> QED
      BY <3>1, <1>1, <1>2, <1>3
  <2>2. {j \in Newlines(s) : j <= p} = {j \in Newlines(s) : j <= Len(s)}
    BY <2>1
  <2>3. NewlinesTo(s, p) = LineCount(s)
    BY <2>2 DEF NewlinesTo, LineCount
  <2> QED
    BY <2>3, <1>1, <1>3
<1>4. CASE ~\A j \in (p + 1) .. Len(s) : s[j] # Newline
  <2>1. PICK q \in (p + 1) .. Len(s) : s[q] = Newline
    BY <1>4
  <2>2. q \in Newlines(s) /\ p < q /\ q \in Nat /\ q <= Len(s)
    BY <2>1, <1>1, <1>2 DEF Newlines
  <2>3. NewlinesTo(s, p) < NewlinesTo(s, q)
    BY <2>2, <1>2, NewlineCounts
  <2>4. NewlinesTo(s, q) <= LineCount(s)
    <3> DEFINE Q == {j \in Newlines(s) : j <= q}
               all == {j \in Newlines(s) : j <= Len(s)}
    <3>1. IsFiniteSet(all)
      BY NewlinesAre
    <3>2. Q \in SUBSET all
      BY <1>1
    <3>3. Cardinality(Q) <= Cardinality(all)
      BY <3>1, <3>2, FS_Subset
    <3> QED
      BY <3>3 DEF NewlinesTo, LineCount
  <2>5. LineCount(s) \in Nat
    BY NewlinesAre
  <2> QED
    BY <2>3, <2>4, <2>5, <1>1, <1>4
<1> QED
  BY <1>3, <1>4

\* In front of the first line there is nothing.
LEMMA BeforeTheLines ==
    ASSUME NEW s \in Seq(Characters)
    PROVE  NewlinesTo(s, 0) = 0
<1>1. Newlines(s) \in SUBSET (1 .. Len(s)) /\ Len(s) \in Nat
  BY NewlinesAre
<1>2. {j \in Newlines(s) : j <= 0} = {}
  BY <1>1
<1> QED
  BY <1>2, FS_EmptySet DEF NewlinesTo

\* A script with no newline is all behind the last.
LEMMA SomethingTyped ==
    ASSUME NEW s \in Seq(Characters), s # <<>>, LineCount(s) = 0
    PROVE  Unended(s) # <<>>
<1>1. EndOf(s, 0) = 0
  <2>1. 0 \in Newlines(s) \cup {0} /\ NewlinesTo(s, 0) = 0
    BY BeforeTheLines
  <2> QED
    BY <2>1, EndOfIs
<1>2. Unended(s) = SubSeq(s, 0 + 1, Len(s)) /\ 0 + 1 = 1
  BY <1>1 DEF Unended
<1>3. SubSeq(s, 1, Len(s)) = s
  BY SubSeqFull
<1> QED
  BY <1>2, <1>3, Zenon

(***************************************************************************)
(* What is executed.                                                       *)
(***************************************************************************)

\* What has been read of the script is executed but for the buffer.
ReadSoFar == IF pc = "parse" THEN Append(executed, buffer) ELSE executed

\* k commands have been read, and p is where they end.
LinesRead(k, p) ==
    /\ p \in Newlines(script) \cup {0} /\ NewlinesTo(script, p) = k
    /\ input = SubSeq(script, p + 1, Len(script))

AllRead(k) == k > LineCount(script) /\ input = <<>>

ScriptInv ==
    LinesFit(script) =>
        /\ \A k \in DOMAIN ReadSoFar : FollowsScript(ReadSoFar, k)
        /\ buffer = IF ReadSoFar = <<>> THEN <<>> ELSE ReadSoFar[Len(ReadSoFar)]
        /\ (\E p \in Nat : LinesRead(Len(ReadSoFar), p)) \/ AllRead(Len(ReadSoFar))

\* One more command that follows the script, behind those that do.
LEMMA OneMoreCommand ==
    ASSUME ClientTypeOK, NEW commands \in Seq(Seq(Characters)), NEW command \in Seq(Characters),
           \A k \in DOMAIN commands : FollowsScript(commands, k),
           LET n == Len(commands)
           IN  command = CASE n + 1 <= LineCount(script) -> Line(script, n + 1)
                           [] n + 1 = LineCount(script) + 1 /\ Unended(script) # <<>> ->
                                WithoutLast(Unended(script))
                           [] OTHER -> WithoutLast(commands[n])
    PROVE  /\ \A k \in DOMAIN Append(commands, command) : FollowsScript(Append(commands, command), k)
           /\ Append(commands, command) \in Seq(Seq(Characters))
           /\ Append(commands, command) # <<>>
           /\ Len(Append(commands, command)) = Len(commands) + 1
           /\ Append(commands, command)[Len(commands) + 1] = command
<1> DEFINE n == Len(commands)
           more == Append(commands, command)
<1>0. /\ n \in Nat /\ DOMAIN commands = 1 .. n /\ LineCount(script) \in Nat
      /\ script \in Seq(Characters) /\ script # <<>>
  <2>1. script \in Seq(Characters) /\ script # <<>>
    BY DEF ClientTypeOK
  <2> QED
    BY <2>1, NewlinesAre
<1>1. /\ DOMAIN more = 1 .. (n + 1) /\ more[n + 1] = command /\ Len(more) = n + 1
      /\ more \in Seq(Seq(Characters))
      /\ \A k \in 1 .. n : more[k] = commands[k]
  <2>1. /\ more \in Seq(Seq(Characters)) /\ Len(more) = n + 1 /\ more[n + 1] = command
        /\ \A k \in 1 .. n : more[k] = commands[k]
    BY AppendProperties
  <2> QED
    BY <2>1
<1>2. more # <<>>
  <2>1. Len(<<>>) = 0 /\ Len(more) # 0
    BY <1>0, <1>1
  <2> QED
    BY <2>1, Zenon
<1> HIDE DEF more
<1>3. ASSUME NEW k \in 1 .. n PROVE FollowsScript(more, k)
  <2>1. FollowsScript(commands, k) /\ more[k] = commands[k]
    BY <1>0, <1>1
  <2>2. CASE k = 1
    <3>1. k <= LineCount(script) \/ (k = LineCount(script) + 1 /\ Unended(script) # <<>>)
      BY <2>2, <1>0, SomethingTyped
    <3> QED
      BY <3>1, <2>1 DEF FollowsScript
  <2>3. CASE k # 1
    <3>1. k - 1 \in 1 .. n
      <4>1. n \in Nat
        BY <1>0
      <4> QED
        BY <4>1, <2>3
    <3>2. more[k - 1] = commands[k - 1]
      BY <3>1, <1>1
    <3> QED
      BY <3>2, <2>1 DEF FollowsScript
  <2> QED
    BY <2>2, <2>3
<1>4. FollowsScript(more, n + 1)
  <2>1. (n + 1) - 1 = n
    BY <1>0
  <2>2. CASE n = 0
    <3>1. n + 1 <= LineCount(script) \/ (n + 1 = LineCount(script) + 1 /\ Unended(script) # <<>>)
      BY <2>2, <1>0, SomethingTyped
    <3> QED
      BY <3>1, <1>1 DEF FollowsScript
  <2>3. CASE n # 0
    <3>1. n \in 1 .. n
      BY <2>3, <1>0
    <3>2. more[n] = commands[n]
      BY <3>1, <1>1
    <3> QED
      BY <3>2, <2>1, <1>1 DEF FollowsScript
  <2> QED
    BY <2>2, <2>3
<1>5. \A k \in DOMAIN more : FollowsScript(more, k)
  <2> TAKE k \in DOMAIN more
  <2>1. k \in 1 .. n \/ k = n + 1
    BY <1>0, <1>1
  <2> QED
    BY <2>1, <1>3, <1>4
<1> QED
  BY <1>1, <1>2, <1>5 DEF more

\* A part of a part is a part, and may be empty.
LEMMA PartOfPart ==
    ASSUME NEW s \in Seq(Characters), NEW i \in Nat \ {0}, NEW j \in 0 .. Len(s),
           NEW m \in Nat \ {0}, NEW n \in Int, n <= j - i + 1
    PROVE  SubSeq(SubSeq(s, i, j), m, n) = SubSeq(s, i + m - 1, i + n - 1)
<1>0. Len(s) \in Nat
  OBVIOUS
<1>1. CASE n < m
  <2>1. /\ m \in Int /\ n \in Int /\ n < m
        /\ i + m - 1 \in Int /\ i + n - 1 \in Int /\ i + n - 1 < i + m - 1
    BY <1>1
  <2>2. SubSeq(SubSeq(s, i, j), m, n) = <<>>
    BY <2>1, SubSeqEmpty
  <2>3. SubSeq(s, i + m - 1, i + n - 1) = <<>>
    BY <2>1, SubSeqEmpty
  <2> QED
    BY <2>2, <2>3
<1>2. CASE ~(n < m)
  <2>1. /\ i \in 1 .. Len(s) /\ j \in 1 .. Len(s)
        /\ m \in 1 .. (j - i + 1) /\ n \in 1 .. (j - i + 1)
    BY <1>2, <1>0
  <2> QED
    BY <2>1, SubSeqOfSubSeq
<1> QED
  BY <1>1, <1>2

\* fgets takes the next line, or what is behind the last.
LEMMA ReadLineKeepsScriptInv ==
    ASSUME ClientTypeOK, ScriptInv, ReadLine, LinesFit(script)
    PROVE  /\ \A k \in DOMAIN ReadSoFar' : FollowsScript(ReadSoFar, k)'
           /\ buffer' = IF ReadSoFar' = <<>> THEN <<>> ELSE ReadSoFar'[Len(ReadSoFar')]
           /\ (\E p \in Nat : LinesRead(Len(ReadSoFar), p)') \/ AllRead(Len(ReadSoFar))'
<1>n. PICK n : n = Len(executed)
  OBVIOUS
<1>l. PICK L : L = Len(script)
  OBVIOUS
<1>f. PICK f : f = First(input, Newline)
  OBVIOUS
<1>s. PICK size : size = Smaller(IF f = 0 THEN Len(input) ELSE f, BufferSize - 1)
  OBVIOUS
<1>0. /\ input # <<>> /\ pc' = "parse" /\ script' = script /\ executed' = executed
      /\ buffer' = WithoutLast(SubSeq(input, 1, size))
      /\ input' = SubSeq(input, size + 1, Len(input))
      /\ pc = "prompt" /\ ReadSoFar = executed /\ ReadSoFar' = Append(executed, buffer')
  BY <1>f, <1>s DEF ReadLine, ReadSoFar
<1>1. /\ script \in Seq(Characters) /\ input \in Seq(Characters) /\ executed \in Seq(Seq(Characters))
      /\ n \in Nat /\ L \in Nat /\ LineCount(script) \in Nat /\ DOMAIN script = 1 .. L
      /\ Newlines(script) \in SUBSET (1 .. L)
      /\ buffer' \in Seq(Characters)
  <2>1. script \in Seq(Characters) /\ input \in Seq(Characters) /\ executed \in Seq(Seq(Characters))
    BY DEF ClientTypeOK
  <2>2. buffer' \in Seq(Characters)
    BY StepKeepsTypes DEF Next, ClientTypeOK
  <2> QED
    BY <2>1, <2>2, <1>n, <1>l, NewlinesAre
<1>2. /\ \A k \in DOMAIN executed : FollowsScript(executed, k)
      /\ \E p \in Nat : LinesRead(n, p)
  <2>1. ~AllRead(n)
    BY <1>0 DEF AllRead
  <2> QED
    BY <2>1, <1>0, <1>n DEF ScriptInv
<1>3. PICK p \in Nat : LinesRead(n, p)
  BY <1>2
<1>4. /\ p \in Newlines(script) \cup {0} /\ NewlinesTo(script, p) = n
      /\ input = SubSeq(script, p + 1, L) /\ p <= L /\ p \in Nat
  BY <1>1, <1>3, <1>l DEF LinesRead
<1>5. /\ EndOf(script, n) = p /\ n <= LineCount(script)
      /\ n = LineCount(script) <=> \A j \in (p + 1) .. L : script[j] # Newline
  BY <1>1, <1>4, <1>l, EndOfIs, LastLine
<1>6. /\ Len(input) = L - p
      /\ \A i \in 1 .. (L - p) : input[i] = script[p + i]
  <2>1. p + 1 \in Int /\ L \in Int /\ \A i \in (p + 1) .. L : script[i] \in Characters
    BY <1>1, <1>4
  <2>2. /\ Len(SubSeq(script, p + 1, L)) = IF p + 1 <= L THEN L - (p + 1) + 1 ELSE 0
        /\ \A i \in 1 .. (L - (p + 1) + 1) : SubSeq(script, p + 1, L)[i] = script[(p + 1) + i - 1]
    BY <2>1, SubSeqProperties
  <2>3. L - (p + 1) + 1 = L - p /\ \A i \in 1 .. (L - p) : (p + 1) + i - 1 = p + i
    BY <1>1, <1>4
  <2>4. (IF p + 1 <= L THEN L - (p + 1) + 1 ELSE 0) = L - p
    <3>1. L \in Nat /\ p \in Nat /\ p <= L
      BY <1>1, <1>4
    <3> QED
      BY <3>1
  <2> QED
    BY <2>2, <2>3, <2>4, <1>4
<1>7. \/ f = 0 /\ \A j \in 1 .. Len(input) : input[j] # Newline
      \/ f \in 1 .. Len(input) /\ input[f] = Newline /\ \A j \in 1 .. (f - 1) : input[j] # Newline
  BY <1>1, <1>f, FirstFinds
<1>8. CASE f = 0
  <2>1. n = LineCount(script)
    <3>1. ASSUME NEW j \in (p + 1) .. L PROVE script[j] # Newline
      <4>1. j - p \in 1 .. (L - p) /\ p + (j - p) = j
        BY <1>1, <1>4
      <4>2. input[j - p] # Newline
        BY <4>1, <1>6, <1>7, <1>8
      <4> QED
        BY <4>1, <4>2, <1>6
    <3> QED
      BY <3>1, <1>5
  <2>2. Unended(script) = input
    BY <2>1, <1>4, <1>5, <1>l DEF Unended
  <2>3. Len(input) < BufferSize
    BY <2>2 DEF LinesFit
  <2>4. size = Len(input)
    BY <2>3, <1>8, <1>6, <1>1, <1>4, <1>s, ClientAssumption DEF Smaller
  <2>5. buffer' = WithoutLast(Unended(script))
    <3>1. SubSeq(input, 1, Len(input)) = input
      BY <1>1, SubSeqFull
    <3> QED
      BY <3>1, <2>2, <2>4, <1>0
  <2>6. input' = <<>>
    <3>1. Len(input) + 1 \in Int /\ Len(input) \in Int /\ Len(input) < Len(input) + 1
      BY <1>6, <1>1
    <3>2. SubSeq(input, Len(input) + 1, Len(input)) = <<>>
      BY <3>1, SubSeqEmpty
    <3> QED
      BY <3>2, <2>4, <1>0
  <2>7. PICK command : command = buffer'
    OBVIOUS
  <2>8. command = CASE n + 1 <= LineCount(script) -> Line(script, n + 1)
                    [] n + 1 = LineCount(script) + 1 /\ Unended(script) # <<>> ->
                            WithoutLast(Unended(script))
                    [] OTHER -> WithoutLast(executed[n])
    <3>1. ~(n + 1 <= LineCount(script)) /\ n + 1 = LineCount(script) + 1 /\ Unended(script) # <<>>
      BY <2>1, <2>2, <1>0, <1>1
    <3> QED
      BY <3>1, <2>5, <2>7, <1>n
  <2>9. /\ \A k \in DOMAIN Append(executed, command) : FollowsScript(Append(executed, command), k)
        /\ Append(executed, command) # <<>>
        /\ Len(Append(executed, command)) = n + 1
        /\ Append(executed, command)[n + 1] = command
    BY <2>7, <2>8, <1>n, <1>1, <1>2, OneMoreCommand
  <2>10. ReadSoFar' = Append(executed, command) /\ buffer' = command
    BY <2>7, <1>0
  <2>11. AllRead(n + 1)'
    <3>1. input' = <<>> /\ script' = script /\ n + 1 > LineCount(script)
      BY <2>1, <2>6, <1>0, <1>1
    <3> QED
      BY <3>1 DEF AllRead
  <2>12. \A k \in DOMAIN ReadSoFar' : FollowsScript(ReadSoFar, k)'
    BY <2>9, <2>10, <1>0 DEF FollowsScript
  <2>13. buffer' = IF ReadSoFar' = <<>> THEN <<>> ELSE ReadSoFar'[Len(ReadSoFar')]
    BY <2>9, <2>10
  <2>14. AllRead(Len(ReadSoFar))'
    <3>1. Len(ReadSoFar') = n + 1
      BY <2>9, <2>10
    <3> QED
      BY <3>1, <2>11 DEF AllRead
  <2> QED
    BY <2>12, <2>13, <2>14
<1>9. CASE f # 0
  <2>0. PICK q : q = p + f
    OBVIOUS
  <2>1. /\ f \in 1 .. (L - p) /\ q \in Nat /\ p < q /\ q <= L /\ script[q] = Newline
        /\ \A j \in (p + 1) .. (q - 1) : script[j] # Newline
    <3>1. f \in 1 .. (L - p) /\ input[f] = Newline
      BY <1>6, <1>7, <1>9
    <3>a. L \in Nat /\ p \in Nat /\ f \in Nat /\ 1 <= f /\ f <= L - p
      BY <3>1, <1>1, <1>4
    <3>2. q \in Nat /\ p < q /\ q <= L /\ script[q] = Newline
      <4>1. q \in Nat /\ p < q /\ q <= L
        BY <3>a, <2>0
      <4> QED
        BY <4>1, <3>1, <1>6, <2>0
    <3>3. ASSUME NEW j \in (p + 1) .. (q - 1) PROVE script[j] # Newline
      <4>1. j - p \in 1 .. (f - 1) /\ j - p \in 1 .. (L - p) /\ p + (j - p) = j
        BY <3>a, <2>0
      <4>2. input[j - p] # Newline
        BY <4>1, <1>7, <1>9
      <4> QED
        BY <4>1, <4>2, <1>6
    <3> QED
      BY <3>1, <3>2, <3>3
  <2>a. f \in Nat /\ 1 <= f /\ f <= L - p /\ q = p + f /\ p \in Nat /\ q \in Nat /\ L \in Nat
    BY <2>0, <2>1, <1>1, <1>4
  <2>2. q \in Newlines(script) /\ q \in Newlines(script) \cup {0}
    BY <2>1, <1>1 DEF Newlines
  <2>3. NewlinesTo(script, q) = n + 1
    <3>1. NewlinesTo(script, q) = NewlinesTo(script, p) + 1
      BY <2>1, <2>2, <1>1, <1>4, NextNewline
    <3> QED
      BY <3>1, <1>4
  <2>4. EndOf(script, n + 1) = q /\ n + 1 <= LineCount(script)
    BY <2>2, <2>3, <1>1, EndOfIs, LastLine
  <2>5. Line(script, n + 1) = SubSeq(script, p + 1, q - 1)
    <3>1. (n + 1) - 1 = n
      BY <1>1
    <3> QED
      BY <3>1, <2>4, <1>5 DEF Line
  <2>6. f < BufferSize
    <3>1. n + 1 \in 1 .. LineCount(script)
      BY <2>4, <1>1
    <3>2. Len(Line(script, n + 1)) + 1 < BufferSize
      BY <3>1 DEF LinesFit
    <3>3. p + 1 \in Int /\ q - 1 \in Int /\ \A i \in (p + 1) .. (q - 1) : script[i] \in Characters
      BY <2>1, <1>1, <1>4
    <3>4. Len(SubSeq(script, p + 1, q - 1)) =
              IF p + 1 <= q - 1 THEN (q - 1) - (p + 1) + 1 ELSE 0
      BY <3>3, SubSeqProperties
    <3>5. Len(SubSeq(script, p + 1, q - 1)) = f - 1
      BY <3>4, <2>a
    <3> QED
      BY <3>2, <3>5, <2>1, <2>5
  <2>7. size = f
    BY <2>6, <2>a, <1>9, <1>s, ClientAssumption DEF Smaller
  <2>8. buffer' = SubSeq(script, p + 1, q - 1)
    <3>1. SubSeq(input, 1, f) = SubSeq(script, p + 1, q)
      <4>1. /\ p + 1 \in Nat \ {0} /\ L \in 0 .. Len(script) /\ 1 \in Nat \ {0} /\ f \in Int /\ f <= L - (p + 1) + 1
            /\ (p + 1) + 1 - 1 = p + 1 /\ (p + 1) + f - 1 = q
        BY <2>a, <2>1, <1>l
      <4>2. SubSeq(SubSeq(script, p + 1, L), 1, f) = SubSeq(script, (p + 1) + 1 - 1, (p + 1) + f - 1)
        <5>1. script \in Seq(Characters)
          BY <1>1
        <5> QED
          BY <5>1, <4>1, PartOfPart
      <4> QED
        BY <4>1, <4>2, <1>4
    <3>2. Len(SubSeq(script, p + 1, q)) = f
      <4>1. p + 1 \in Int /\ q \in Int /\ \A i \in (p + 1) .. q : script[i] \in Characters
        BY <2>1, <1>1, <1>4
      <4>2. Len(SubSeq(script, p + 1, q)) = IF p + 1 <= q THEN q - (p + 1) + 1 ELSE 0
        BY <4>1, SubSeqProperties
      <4> QED
        BY <4>2, <2>a
    <3>3. SubSeq(SubSeq(script, p + 1, q), 1, f - 1) = SubSeq(script, p + 1, q - 1)
      <4>1. /\ p + 1 \in Nat \ {0} /\ q \in 0 .. Len(script) /\ 1 \in Nat \ {0} /\ f - 1 \in Int
            /\ f - 1 <= q - (p + 1) + 1
            /\ (p + 1) + 1 - 1 = p + 1 /\ (p + 1) + (f - 1) - 1 = q - 1
        BY <2>a, <2>1, <1>l
      <4>2. SubSeq(SubSeq(script, p + 1, q), 1, f - 1) =
                SubSeq(script, (p + 1) + 1 - 1, (p + 1) + (f - 1) - 1)
        <5>1. script \in Seq(Characters)
          BY <1>1
        <5> QED
          BY <5>1, <4>1, PartOfPart
      <4> QED
        BY <4>1, <4>2
    <3> QED
      BY <3>1, <3>2, <3>3, <2>7, <1>0 DEF WithoutLast
  <2>9. input' = SubSeq(script, q + 1, L)
    <3>1. /\ p + 1 \in Nat \ {0} /\ L \in 0 .. Len(script) /\ f + 1 \in Nat \ {0} /\ L - p \in Int
          /\ L - p <= L - (p + 1) + 1
          /\ (p + 1) + (f + 1) - 1 = q + 1 /\ (p + 1) + (L - p) - 1 = L
      BY <2>a, <1>l
    <3>2. SubSeq(SubSeq(script, p + 1, L), f + 1, L - p) =
              SubSeq(script, (p + 1) + (f + 1) - 1, (p + 1) + (L - p) - 1)
      <4>1. script \in Seq(Characters)
        BY <1>1
      <4>2. PICK i, m, r : i = p + 1 /\ m = f + 1 /\ r = L - p
        OBVIOUS
      <4>3. /\ i \in Nat \ {0} /\ L \in 0 .. Len(script) /\ m \in Nat \ {0} /\ r \in Int
            /\ r <= L - i + 1
        BY <3>1, <4>2
      <4>4. SubSeq(SubSeq(script, i, L), m, r) = SubSeq(script, i + m - 1, i + r - 1)
        BY <4>1, <4>3, PartOfPart
      <4> QED
        BY <4>2, <4>4
    <3> QED
      BY <3>1, <3>2, <2>7, <1>0, <1>4, <1>6
  <2>10. PICK command : command = buffer'
    OBVIOUS
  <2>12. command = CASE n + 1 <= LineCount(script) -> Line(script, n + 1)
                     [] n + 1 = LineCount(script) + 1 /\ Unended(script) # <<>> ->
                            WithoutLast(Unended(script))
                     [] OTHER -> WithoutLast(executed[n])
    <3>1. ~(n + 1 = LineCount(script) + 1)
      BY <2>4, <1>1
    <3> QED
      BY <3>1, <2>4, <2>5, <2>8, <2>10
  <2>13. /\ \A k \in DOMAIN Append(executed, command) : FollowsScript(Append(executed, command), k)
         /\ Append(executed, command) # <<>>
         /\ Len(Append(executed, command)) = n + 1
         /\ Append(executed, command)[n + 1] = command
    BY <2>10, <2>12, <1>n, <1>1, <1>2, OneMoreCommand
  <2>14. ReadSoFar' = Append(executed, command) /\ buffer' = command
    BY <2>10, <1>0
  <2>15. LinesRead(n + 1, q)' /\ q \in Nat
    <3>1. input' = SubSeq(script, q + 1, Len(script)) /\ script' = script
      BY <2>9, <1>0, <1>l
    <3> QED
      BY <3>1, <2>1, <2>2, <2>3 DEF LinesRead
  <2>16. \A k \in DOMAIN ReadSoFar' : FollowsScript(ReadSoFar, k)'
    BY <2>13, <2>14, <1>0 DEF FollowsScript
  <2>17. buffer' = IF ReadSoFar' = <<>> THEN <<>> ELSE ReadSoFar'[Len(ReadSoFar')]
    BY <2>13, <2>14
  <2>18. LinesRead(Len(ReadSoFar), q)'
    <3>1. Len(ReadSoFar') = n + 1
      BY <2>13, <2>14
    <3> QED
      BY <3>1, <2>15 DEF LinesRead
  <2> QED
    BY <2>15, <2>16, <2>17, <2>18
<1> QED
  BY <1>8, <1>9


\* At the end of the input all lines are read, and what is behind the last.
LEMMA NothingLeft ==
    ASSUME ClientTypeOK, ScriptInv, LinesFit(script), input = <<>>, pc # "parse"
    PROVE  LET n == Len(executed)
           IN  /\ n \in Nat /\ LineCount(script) \in Nat /\ n >= LineCount(script)
               /\ n = LineCount(script) => Unended(script) = <<>>
<1>n. PICK n : n = Len(executed)
  OBVIOUS
<1>1. /\ script \in Seq(Characters) /\ executed \in Seq(Seq(Characters))
      /\ n \in Nat /\ LineCount(script) \in Nat /\ Len(script) \in Nat
  <2>1. script \in Seq(Characters) /\ executed \in Seq(Seq(Characters))
    BY DEF ClientTypeOK
  <2> QED
    BY <2>1, <1>n, NewlinesAre
<1>2. (\E p \in Nat : LinesRead(n, p)) \/ AllRead(n)
  BY <1>n DEF ScriptInv, ReadSoFar
<1>3. CASE AllRead(n)
  <2>1. n > LineCount(script)
    BY <1>3 DEF AllRead
  <2> QED
    BY <2>1, <1>1, <1>n
<1>4. CASE \E p \in Nat : LinesRead(n, p)
  <2>1. PICK p \in Nat : LinesRead(n, p)
    BY <1>4
  <2>2. /\ p \in Newlines(script) \cup {0} /\ NewlinesTo(script, p) = n
        /\ SubSeq(script, p + 1, Len(script)) = <<>>
    BY <2>1 DEF LinesRead
  <2>3. Len(script) <= p
    <3>1. p + 1 \in Int /\ Len(script) \in Int /\ \A i \in (p + 1) .. Len(script) : script[i] \in Characters
      BY <1>1
    <3>2. Len(SubSeq(script, p + 1, Len(script))) =
              IF p + 1 <= Len(script) THEN Len(script) - (p + 1) + 1 ELSE 0
      BY <3>1, SubSeqProperties
    <3>3. Len(SubSeq(script, p + 1, Len(script))) = 0
      BY <2>2
    <3> QED
      BY <3>2, <3>3, <1>1
  <2>4. n = LineCount(script)
    <3>1. \A j \in (p + 1) .. Len(script) : script[j] # Newline
      BY <2>3, <1>1
    <3> QED
      BY <3>1, <2>2, <1>1, LastLine
  <2>5. Unended(script) = <<>>
    <3>1. EndOf(script, n) = p
      BY <2>2, <1>1, EndOfIs
    <3> QED
      BY <3>1, <2>2, <2>4 DEF Unended
  <2> QED
    BY <2>4, <2>5, <1>1, <1>n
<1> QED
  BY <1>2, <1>3, <1>4

\* There fgets leaves the last command in the buffer, to lose another character.
LEMMA ReadNothingKeepsScriptInv ==
    ASSUME ClientTypeOK, ScriptInv, ReadNothing, buffer # <<>>, LinesFit(script)
    PROVE  /\ \A k \in DOMAIN ReadSoFar' : FollowsScript(ReadSoFar, k)'
           /\ buffer' = IF ReadSoFar' = <<>> THEN <<>> ELSE ReadSoFar'[Len(ReadSoFar')]
           /\ AllRead(Len(ReadSoFar))'
<1>n. PICK n : n = Len(executed)
  OBVIOUS
<1>c. PICK command : command = buffer'
  OBVIOUS
<1>0. /\ input = <<>> /\ pc' = "parse" /\ script' = script /\ executed' = executed /\ input' = <<>>
      /\ command = WithoutLast(buffer)
      /\ pc = "prompt" /\ ReadSoFar = executed /\ ReadSoFar' = Append(executed, command)
  BY <1>c DEF ReadNothing, ReadSoFar
<1>1. executed \in Seq(Seq(Characters)) /\ command \in Seq(Characters)
  <2>1. executed \in Seq(Seq(Characters))
    BY DEF ClientTypeOK
  <2>2. buffer' \in Seq(Characters)
    BY StepKeepsTypes DEF Next, ClientTypeOK
  <2> QED
    BY <2>1, <2>2, <1>c
<1>2. /\ n \in Nat /\ LineCount(script) \in Nat /\ n >= LineCount(script)
      /\ n = LineCount(script) => Unended(script) = <<>>
  BY <1>0, <1>n, NothingLeft
<1>3. command = WithoutLast(executed[n])
  BY <1>0, <1>n DEF ScriptInv
<1>4. command = CASE n + 1 <= LineCount(script) -> Line(script, n + 1)
                  [] n + 1 = LineCount(script) + 1 /\ Unended(script) # <<>> ->
                          WithoutLast(Unended(script))
                  [] OTHER -> WithoutLast(executed[n])
  <2>1. ~(n + 1 <= LineCount(script)) /\ (n + 1 = LineCount(script) + 1 => n = LineCount(script))
    BY <1>2
  <2> QED
    BY <2>1, <1>2, <1>3
<1>5. \A k \in DOMAIN executed : FollowsScript(executed, k)
  BY <1>0 DEF ScriptInv
<1>6. /\ \A k \in DOMAIN Append(executed, command) : FollowsScript(Append(executed, command), k)
      /\ Append(executed, command) # <<>>
      /\ Len(Append(executed, command)) = n + 1
      /\ Append(executed, command)[n + 1] = command
  <2>1. LET m == Len(executed)
        IN  command = CASE m + 1 <= LineCount(script) -> Line(script, m + 1)
                        [] m + 1 = LineCount(script) + 1 /\ Unended(script) # <<>> ->
                                WithoutLast(Unended(script))
                        [] OTHER -> WithoutLast(executed[m])
    BY <1>4, <1>n
  <2> QED
    BY <1>1, <2>1, <1>5, <1>n, OneMoreCommand
<1>7. \A k \in DOMAIN ReadSoFar' : FollowsScript(ReadSoFar, k)'
  BY <1>6, <1>0 DEF FollowsScript
<1>8. buffer' = IF ReadSoFar' = <<>> THEN <<>> ELSE ReadSoFar'[Len(ReadSoFar')]
  BY <1>6, <1>0, <1>c
<1>9. AllRead(Len(ReadSoFar))'
  <2>1. Len(ReadSoFar') = n + 1
    BY <1>6, <1>0
  <2>2. n + 1 > LineCount(script)
    BY <1>2
  <2> QED
    BY <2>1, <2>2, <1>0 DEF AllRead
<1> QED
  BY <1>7, <1>8, <1>9

\* Where nothing is read, what has been stays.
LEMMA NothingReadKeepsScriptInv ==
    ASSUME ScriptInv, ReadSoFar' = ReadSoFar, UNCHANGED <<script, input, buffer>>
    PROVE  ScriptInv'
<1> SUFFICES ASSUME LinesFit(script)
             PROVE  ScriptInv'
  BY DEF ScriptInv, LinesFit
<1>1. /\ \A k \in DOMAIN ReadSoFar : FollowsScript(ReadSoFar, k)
      /\ buffer = IF ReadSoFar = <<>> THEN <<>> ELSE ReadSoFar[Len(ReadSoFar)]
      /\ (\E p \in Nat : LinesRead(Len(ReadSoFar), p)) \/ AllRead(Len(ReadSoFar))
  BY DEF ScriptInv
<1> HIDE DEF ReadSoFar
<1>2. \A k \in DOMAIN ReadSoFar' : FollowsScript(ReadSoFar, k)'
  BY <1>1 DEF FollowsScript
<1>3. (\E p \in Nat : LinesRead(Len(ReadSoFar), p)') \/ AllRead(Len(ReadSoFar))'
  BY <1>1 DEF LinesRead, AllRead
<1> QED
  BY <1>1, <1>2, <1>3 DEF ScriptInv

\* When the shell starts, nothing has been read.
LEMMA StartHasScriptInv ==
    ASSUME NEW s \in Seq(Characters)
    PROVE  /\ 0 \in Newlines(s) \cup {0} /\ NewlinesTo(s, 0) = 0
           /\ s = SubSeq(s, 0 + 1, Len(s))
           /\ Len(<<>>) = 0 /\ DOMAIN <<>> = {}
<1>1. SubSeq(s, 1, Len(s)) = s
  BY SubSeqFull
<1> QED
  BY <1>1, BeforeTheLines

LEMMA StepKeepsScriptInv ==
    ASSUME ClientTypeOK, ScriptInv, [Next]_vars
    PROVE  ScriptInv'
<1>1. CASE ReadLine
  <2> SUFFICES ASSUME LinesFit(script)
               PROVE  ScriptInv'
    BY <1>1 DEF ScriptInv, LinesFit, ReadLine
  <2> QED
    BY <1>1, ReadLineKeepsScriptInv DEF ScriptInv
<1>2. CASE ReadNothing /\ buffer # <<>>
  <2> SUFFICES ASSUME LinesFit(script)
               PROVE  ScriptInv'
    BY <1>2 DEF ScriptInv, LinesFit, ReadNothing
  <2> QED
    BY <1>2, ReadNothingKeepsScriptInv DEF ScriptInv
<1>3. CASE ReadNothing /\ buffer = <<>>
  <2>1. ReadSoFar' = ReadSoFar /\ UNCHANGED <<script, input, buffer>>
    BY <1>3 DEF ReadNothing, ReadSoFar
  <2> QED
    BY <2>1, NothingReadKeepsScriptInv
<1>4. CASE Parse
  <2>1. pc = "parse" /\ pc' # "parse" /\ executed' = Append(executed, buffer)
        /\ UNCHANGED <<script, input, buffer>>
    BY <1>4 DEF Parse
  <2>2. ReadSoFar' = ReadSoFar
    BY <2>1 DEF ReadSoFar
  <2> QED
    BY <2>1, <2>2, NothingReadKeepsScriptInv
<1>5. CASE Handle
  <2>1. pc = "call" /\ pc' # "parse" /\ UNCHANGED <<script, input, buffer, executed>>
    BY <1>5 DEF Handle
  <2>2. ReadSoFar' = ReadSoFar
    BY <2>1 DEF ReadSoFar
  <2> QED
    BY <2>1, <2>2, NothingReadKeepsScriptInv
<1>6. CASE Start
  <2>1. /\ script \in Seq(Characters) /\ script' = script /\ input' = script
        /\ buffer' = <<>> /\ ReadSoFar' = <<>>
    BY <1>6 DEF Start, ReadSoFar, ClientTypeOK
  <2>2. LinesRead(Len(ReadSoFar), 0)'
    BY <2>1, StartHasScriptInv DEF LinesRead
  <2> QED
    BY <2>1, <2>2, StartHasScriptInv DEF ScriptInv
<1>7. CASE UNCHANGED vars
  <2>1. ReadSoFar' = ReadSoFar /\ UNCHANGED <<script, input, buffer>>
    BY <1>7 DEF vars, ReadSoFar
  <2> QED
    BY <2>1, NothingReadKeepsScriptInv
<1> QED
  BY <1>1, <1>2, <1>3, <1>4, <1>5, <1>6, <1>7 DEF Next

LEMMA InitHasScriptInv ==
    ASSUME Init
    PROVE  ScriptInv
<1>1. script \in Seq(Characters) /\ input = script /\ buffer = <<>> /\ ReadSoFar = <<>>
  BY ClientAssumption DEF Init, ReadSoFar
<1>2. LinesRead(Len(ReadSoFar), 0)
  BY <1>1, StartHasScriptInv DEF LinesRead
<1> QED
  BY <1>1, <1>2, StartHasScriptInv DEF ScriptInv

\* What has been read follows the script, so what has been executed does.
LEMMA ScriptInvSuffices ==
    ASSUME ClientTypeOK, ScriptInv
    PROVE  ExecutesTheLines
<1> SUFFICES ASSUME LinesFit(script), NEW k \in DOMAIN executed
             PROVE  FollowsScript(executed, k)
  BY DEF ExecutesTheLines
<1>1. \A i \in DOMAIN ReadSoFar : FollowsScript(ReadSoFar, i)
  BY DEF ScriptInv
<1>2. CASE pc # "parse"
  BY <1>1, <1>2 DEF ReadSoFar
<1>3. CASE pc = "parse"
  <2>1. /\ executed \in Seq(Seq(Characters)) /\ buffer \in Seq(Characters)
        /\ script \in Seq(Characters) /\ script # <<>>
    BY DEF ClientTypeOK
  <2>2. PICK more : more = Append(executed, buffer)
    OBVIOUS
  <2>3. /\ Len(executed) \in Nat /\ DOMAIN executed = 1 .. Len(executed)
        /\ Len(more) = Len(executed) + 1 /\ DOMAIN more = 1 .. Len(more)
        /\ \A i \in 1 .. Len(executed) : more[i] = executed[i]
    BY <2>1, <2>2, AppendProperties
  <2>4. FollowsScript(more, k) /\ more[k] = executed[k]
    BY <2>2, <2>3, <1>1, <1>3 DEF ReadSoFar
  <2>5. LineCount(script) \in Nat
    BY <2>1, NewlinesAre
  <2>6. CASE k = 1
    <3>1. k <= LineCount(script) \/ (k = LineCount(script) + 1 /\ Unended(script) # <<>>)
      BY <2>6, <2>1, <2>5, SomethingTyped
    <3> QED
      BY <3>1, <2>4 DEF FollowsScript
  <2>7. CASE k # 1
    <3>1. k - 1 \in 1 .. Len(executed)
      BY <2>7, <2>3
    <3>2. more[k - 1] = executed[k - 1]
      BY <3>1, <2>3
    <3> QED
      BY <3>2, <2>4 DEF FollowsScript
  <2> QED
    BY <2>6, <2>7
<1> QED
  BY <1>2, <1>3

(* What the shell executes are the lines that were typed, in order, each   *)
(* once and whole, whatever is typed, as long as each fits the buffer; the *)
(* loop and read_command_from_stdin.                                       *)
THEOREM ShellExecutesTheLines == Spec => []ExecutesTheLines
<1>1. Init => ClientTypeOK /\ ScriptInv
  BY InitHasTypes, InitHasScriptInv
<1>2. (ClientTypeOK /\ ScriptInv) /\ [Next]_vars => (ClientTypeOK /\ ScriptInv)'
  <2> SUFFICES ASSUME ClientTypeOK, ScriptInv, [Next]_vars
               PROVE  (ClientTypeOK /\ ScriptInv)'
    OBVIOUS
  <2>1. ClientTypeOK'
    <3>1. CASE UNCHANGED vars
      BY <3>1 DEF vars, ClientTypeOK
    <3> QED
      BY <3>1, StepKeepsTypes
  <2> QED
    BY <2>1, StepKeepsScriptInv
<1>3. ClientTypeOK /\ ScriptInv => ExecutesTheLines
  BY ScriptInvSuffices
<1> QED
  BY <1>1, <1>2, <1>3, PTL DEF Spec

=============================================================================
