------------------------- MODULE OutputCaptureProofs -------------------------
(* Whatever a child prints, in whatever order on its two pipes, and whatever *)
(* the caps: the status reported is the child's own, what is kept of each    *)
(* pipe is the beginning of what was written to it, the texts and the        *)
(* evidence are faithful to it and bounded, and the row of the result carries *)
(* the time it was made.                                                     *)
EXTENDS OutputCapture, SharedLemmas

\* A reader ends only when the child is gone, and a child whose pipes are both
\* read is gone only when it has written everything.
Drained ==
  /\ script \in Scripts
  /\ reader \in [Streams -> {"open", "ended"}]
  /\ written \in Nat /\ written <= Len(script.writes)
  /\ \A s \in Streams : reader[s] = "ended" => exit # "none"
  /\ exit # "none" => written = Len(script.writes) /\ exit = script.code
  /\ answer # NoAnswer => exit # "none" /\ (answer.status = "ok" <=> exit = "zero")

LEMMA DrainedInit == Init => Drained
BY ScriptsAssumption DEF Init, Drained

\* A child that can still write finds its pipe held by a reader.
LEMMA WriteDrained ==
  ASSUME Drained, Write
  PROVE  Drained'
<1> DEFINE w == script.writes[written + 1]
<1>1. w \in [to : Streams, byte : Bytes]
  <2>1. script.writes \in Seq([to : Streams, byte : Bytes])
    BY ScriptsAssumption DEF Drained
  <2>2. written + 1 \in 1..Len(script.writes)
    BY <2>1 DEF Drained, Write
  <2> QED BY <2>1, <2>2, ElementOfSeq
<1>2. reader[w.to] = "open"
  BY <1>1 DEF Drained, Write
<1>3. written' = written + 1 /\ UNCHANGED exit
  BY <1>2 DEF Write
<1> QED BY <1>3, ScriptsAssumption DEF Drained, Write

LEMMA DrainedStep ==
  ASSUME Drained, [Next]_vars
  PROVE  Drained'
<1>1. CASE Write
  BY <1>1, WriteDrained
<1>2. CASE Exit
  BY <1>2 DEF Drained, Exit
<1>3. ASSUME NEW s \in Streams, Read(s)
      PROVE  Drained'
  BY <1>3 DEF Drained, Read
<1>4. ASSUME NEW s \in Streams, ReadEof(s)
      PROVE  Drained'
  BY <1>4 DEF Drained, ReadEof
<1>5. CASE Conclude
  BY <1>5 DEF Drained, Conclude
<1>6. CASE Summarise
  BY <1>6 DEF Drained, Summarise
<1>7. CASE UNCHANGED vars
  BY <1>7 DEF Drained, vars
<1> QED BY <1>1, <1>2, <1>3, <1>4, <1>5, <1>6, <1>7 DEF Next

\* Draining past the caps leaves every child the exit status it would have had
\* anyway, and that is the status reported (read_capped, run_process).
THEOREM StatusSafety == Spec => []StatusIsTheChilds
<1>1. Drained => StatusIsTheChilds
  BY DEF Drained, StatusIsTheChilds
<1> QED BY <1>1, DrainedInit, DrainedStep, PTL DEF Spec

-----------------------------------------------------------------------------
(* The text of an answer.                                                    *)
Chars == {"letter", "nl", "cr", "blank", "wide", "bad"}

\* t is the first part of u.
Begins(t, u) == Len(t) <= Len(u) /\ \A i \in 1..Len(t) : t[i] = u[i]

LEMMA PrefixRight ==
  ASSUME NEW S, NEW t \in Seq(S), NEW n \in Nat
  PROVE  /\ Prefix(t, n) \in Seq(S)
         /\ Len(Prefix(t, n)) = IF n < Len(t) THEN n ELSE Len(t)
         /\ Begins(Prefix(t, n), t)
         /\ Len(t) <= n => Prefix(t, n) = t
<1> DEFINE m == IF n < Len(t) THEN n ELSE Len(t)
<1>1. Len(t) \in Nat /\ m \in Nat /\ m <= Len(t)
  BY LenProperties
<1>2. \A i \in 1..m : t[i] \in S
  BY <1>1, ElementOfSeq
<1>3. Prefix(t, n) = SubSeq(t, 1, m)
  BY DEF Prefix
<1> HIDE DEF m
<1>4. /\ SubSeq(t, 1, m) \in Seq(S) /\ Len(SubSeq(t, 1, m)) = m
      /\ \A i \in 1..m : SubSeq(t, 1, m)[i] = t[i]
  BY <1>1, <1>2, SubSeqProperties
<1>5. Begins(Prefix(t, n), t)
  BY <1>1, <1>3, <1>4 DEF Begins
<1>6. Len(t) <= n => m = Len(t)
  BY <1>1 DEF m
<1>7. Len(t) <= n => Prefix(t, n) = t
  BY <1>3, <1>6, SubSeqFull
<1> QED BY <1>3, <1>4, <1>5, <1>7 DEF m

LEMMA BeginsTransitive ==
  ASSUME NEW S, NEW s \in Seq(S), NEW t \in Seq(S), NEW u \in Seq(S),
         Begins(s, t), Begins(t, u)
  PROVE  Begins(s, u)
<1>1. Len(s) \in Nat /\ Len(t) \in Nat /\ Len(u) \in Nat
  BY LenProperties
<1> QED BY <1>1 DEF Begins

LEMMA BeginsIsPrefix ==
  ASSUME NEW S, NEW s \in Seq(S), NEW t \in Seq(S), Begins(s, t)
  PROVE  IsPrefix(s, t)
<1> DEFINE n == Len(s)
           u == SubSeq(t, 1, n)
<1>1. n \in Nat /\ n <= Len(t) /\ Len(t) \in Nat /\ \A i \in 1..n : t[i] = s[i]
  BY LenProperties DEF Begins
<1>2. \A i \in 1..n : t[i] \in S
  BY <1>1, ElementOfSeq
<1>3. u \in Seq(S) /\ Len(u) = n /\ \A i \in 1..n : u[i] = t[i]
  BY <1>1, <1>2, SubSeqProperties
<1> HIDE DEF u
<1>4. u = s
  BY <1>1, <1>3, SeqEqual
<1>5. SubSeq(s, 1, n) = s
  BY SubSeqFull
<1> QED BY <1>1, <1>4, <1>5 DEF IsPrefix, u

\* What from_utf8_lossy makes of bytes, one character per byte that starts one.
LEMMA DecodeRight ==
  ASSUME NEW b \in Seq(Bytes)
  PROVE  /\ Among(Starts(b), Len(b))
         /\ Decode(b) \in Seq(Chars) /\ Len(Decode(b)) = Cardinality(Starts(b))
         /\ Len(Decode(b)) <= Len(b)
         /\ \A k \in 1..Cardinality(Starts(b)) : Decode(b)[k] = CharAt(b, Nth(Starts(b), k))
<1> DEFINE s == [i \in DOMAIN b |-> CharAt(b, i)]
           P == Starts(b)
           n == Len(b)
<1>1. n \in Nat /\ DOMAIN b = 1..n
  BY LenProperties
<1>2. Among(P, n)
  BY <1>1 DEF Among, Starts
<1>3. \A i \in P : s[i] \in Chars /\ s[i] = CharAt(b, i)
  BY DEF CharAt, Chars, Starts, Single
<1>4. Decode(b) = Chosen(s, P)
  BY DEF Decode
<1> HIDE DEF s, P, n
<1>5. /\ Chosen(s, P) \in Seq(Chars) /\ Len(Chosen(s, P)) = Cardinality(P)
      /\ Cardinality(P) \in 0..n
      /\ \A k \in 1..Cardinality(P) : Chosen(s, P)[k] = s[Nth(P, k)]
  BY <1>2, <1>3, ChosenTyped
<1>6. \A k \in 1..Cardinality(P) : Nth(P, k) \in P
  BY <1>2, NthRight
<1>7. Len(Chosen(s, P)) <= n
  BY <1>1, <1>5
<1> QED BY <1>2, <1>3, <1>4, <1>5, <1>6, <1>7 DEF P, n

\* t is the first part of u, but for a last character that was cut.
NearlyBegins(t, u) ==
  /\ Len(t) <= Len(u)
  /\ \A k \in 1..Len(t) - 1 : t[k] = u[k]
  /\ Len(t) > 0 => \/ t[Len(t)] = u[Len(t)]
                   \/ t[Len(t)] = "bad" /\ u[Len(t)] = "wide"

\* Of a beginning of the bytes only the last character can come out differently.
LEMMA DecodeBeginning ==
  ASSUME NEW c \in Seq(Bytes), NEW b \in Seq(Bytes), Begins(c, b)
  PROVE  NearlyBegins(Decode(c), Decode(b))
<1> DEFINE m == Len(c)
           P == Starts(b)
           Q == Starts(c)
<1>1. /\ m \in Nat /\ Len(b) \in Nat /\ m <= Len(b)
      /\ DOMAIN c = 1..m /\ DOMAIN b = 1..Len(b) /\ \A i \in 1..m : c[i] = b[i]
  BY LenProperties DEF Begins
<1>2. Q = P \cap (1..m)
  <2>1. ASSUME NEW i \in 1..m PROVE i \in 1..Len(b) /\ (Completes(c, i) <=> Completes(b, i))
    <3>1. i > 1 => i - 1 \in 1..m
      BY <1>1
    <3> QED BY <1>1, <3>1 DEF Completes
  <2> QED BY <1>1, <2>1 DEF Starts
<1>3. /\ Among(P, Len(b)) /\ Len(Decode(b)) = Cardinality(P)
      /\ \A k \in 1..Cardinality(P) : Decode(b)[k] = CharAt(b, Nth(P, k))
  BY DecodeRight
<1>4. /\ Among(Q, m) /\ Len(Decode(c)) = Cardinality(Q)
      /\ \A k \in 1..Cardinality(Q) : Decode(c)[k] = CharAt(c, Nth(Q, k))
  BY DecodeRight
<1> HIDE DEF P, Q
<1>5. /\ Cardinality(Q) \in 0..Cardinality(P) /\ Cardinality(P) \in Nat
      /\ \A k \in 1..Cardinality(Q) : Nth(P, k) = Nth(Q, k)
  BY <1>1, <1>2, <1>3, NthOfBeginning, Positions
<1>6. ASSUME NEW k \in 1..Cardinality(Q) - 1
      PROVE  /\ k \in 1..Cardinality(Q) /\ k \in 1..Cardinality(P)
             /\ Nth(Q, k) \in 1..m - 1
  <2>1. k \in 1..Cardinality(Q) /\ k + 1 \in 1..Cardinality(Q) /\ k < k + 1
    BY <1>5
  <2>2. Nth(Q, k) < Nth(Q, k + 1) /\ Nth(Q, k) \in Q /\ Nth(Q, k + 1) \in Q
    BY <1>4, <2>1, NthRises, NthRight
  <2>3. Nth(Q, k) \in 1..m /\ Nth(Q, k + 1) \in 1..m
    BY <1>4, <2>2 DEF Among
  <2> QED BY <1>1, <1>5, <2>1, <2>2, <2>3
<1>7. ASSUME NEW i \in 1..m - 1 PROVE CharAt(c, i) = CharAt(b, i)
  <2>1. i \in 1..m /\ i + 1 \in 1..m /\ i < m /\ i < Len(b)
    BY <1>1
  <2> QED BY <1>1, <2>1 DEF CharAt
<1>8. \A k \in 1..Cardinality(Q) - 1 : Decode(c)[k] = Decode(b)[k]
  BY <1>3, <1>4, <1>5, <1>6, <1>7
<1>9. ASSUME NEW i \in 1..m
      PROVE  CharAt(c, i) = CharAt(b, i) \/ (CharAt(c, i) = "bad" /\ CharAt(b, i) = "wide")
  <2>1. i \in 1..m - 1 \/ i = m
    <3>1. m \in Nat
      BY <1>1
    <3> HIDE DEF m
    <3> QED BY <3>1
  <2>2. CASE i = m
    BY <1>1, <2>2 DEF CharAt
  <2> QED BY <1>7, <2>1, <2>2
<1>10. ASSUME Cardinality(Q) > 0
       PROVE  LET n == Cardinality(Q)
              IN Decode(c)[n] = Decode(b)[n] \/ (Decode(c)[n] = "bad" /\ Decode(b)[n] = "wide")
  <2> DEFINE n == Cardinality(Q)
  <2>1. n \in 1..Cardinality(Q) /\ n \in 1..Cardinality(P)
    BY <1>5, <1>10
  <2>2. Nth(P, n) = Nth(Q, n) /\ Nth(Q, n) \in 1..m
    BY <1>4, <1>5, <2>1, NthRight DEF Among
  <2>3. Decode(c)[n] = CharAt(c, Nth(Q, n)) /\ Decode(b)[n] = CharAt(b, Nth(Q, n))
    BY <1>3, <1>4, <2>1, <2>2
  <2> QED BY <1>9, <2>2, <2>3
<1> QED BY <1>3, <1>4, <1>5, <1>8, <1>10 DEF NearlyBegins

LEMMA NewlinesRise ==
  ASSUME NEW S, NEW s \in Seq(S), NEW t \in Seq(S), Begins(s, t)
  PROVE  Newlines(s) \in Nat /\ Newlines(t) \in Nat /\ Newlines(s) <= Newlines(t)
<1> DEFINE P == {i \in DOMAIN s : s[i] = "nl"}
           Q == {i \in DOMAIN t : t[i] = "nl"}
<1>1. /\ Len(s) \in Nat /\ Len(t) \in Nat /\ Len(s) <= Len(t)
      /\ DOMAIN s = 1..Len(s) /\ DOMAIN t = 1..Len(t)
  BY LenProperties DEF Begins
<1>2. P \in SUBSET Q /\ Among(P, Len(s)) /\ Among(Q, Len(t))
  BY <1>1 DEF Among, Begins
<1>3. Newlines(s) = Cardinality(P) /\ Newlines(t) = Cardinality(Q)
  BY DEF Newlines
<1> HIDE DEF P, Q
<1>4. /\ IsFiniteSet(Q) /\ Cardinality(Q) \in 0..Len(t) /\ Cardinality(P) \in 0..Len(s)
  BY <1>2, Positions
<1>5. Cardinality(P) <= Cardinality(Q)
  BY <1>2, <1>4, FS_Subset
<1> QED BY <1>1, <1>3, <1>4, <1>5

\* The size in bytes is at most three per character.
LEMMA SizeRises ==
  ASSUME NEW S, NEW s \in Seq(S), NEW t \in Seq(S), Begins(s, t)
  PROVE  SizeOf(s) \in Nat /\ SizeOf(t) \in Nat /\ SizeOf(s) <= SizeOf(t)
         /\ SizeOf(t) <= 3 * Len(t)
<1> DEFINE Cells(u) == {p \in (DOMAIN u) \X (1..3) : p[2] <= Width[u[p[1]]]}
           G == (1..Len(t)) \X (1..3)
<1>1. /\ Len(s) \in Nat /\ Len(t) \in Nat /\ Len(s) <= Len(t)
      /\ DOMAIN s = 1..Len(s) /\ DOMAIN t = 1..Len(t)
  BY LenProperties DEF Begins
<1>2. Cells(t) \in SUBSET G
  BY <1>1
<1>3. Cells(s) \in SUBSET Cells(t)
  <2>1. \A i \in 1..Len(s) : i \in 1..Len(t) /\ s[i] = t[i]
    BY <1>1 DEF Begins
  <2> QED BY <1>1, <2>1
<1>4. /\ IsFiniteSet(1..Len(t)) /\ Cardinality(1..Len(t)) = Len(t)
      /\ IsFiniteSet(1..3) /\ Cardinality(1..3) = 3
  <2>1. ASSUME NEW n \in Nat PROVE IsFiniteSet(1..n) /\ Cardinality(1..n) = n
    BY FS_Interval
  <2> QED BY <1>1, <2>1, Zenon
<1>5. SizeOf(s) = Cardinality(Cells(s)) /\ SizeOf(t) = Cardinality(Cells(t))
  BY DEF SizeOf
<1> HIDE DEF Cells
<1>6. IsFiniteSet(G) /\ Cardinality(G) = Len(t) * 3
  BY <1>4, FS_Product
<1> HIDE DEF G
<1>7. IsFiniteSet(Cells(t)) /\ Cardinality(Cells(t)) \in Nat /\ Cardinality(Cells(t)) <= Len(t) * 3
  BY <1>2, <1>6, FS_Subset, FS_CardinalityType
<1>8. Cardinality(Cells(s)) \in Nat /\ Cardinality(Cells(s)) <= Cardinality(Cells(t))
  BY <1>3, <1>7, FS_Subset, FS_CardinalityType
<1> QED BY <1>1, <1>5, <1>7, <1>8

LEMMA BeginsReflexive ==
  ASSUME NEW S, NEW t \in Seq(S)
  PROVE  Begins(t, t) /\ Begins(<<>>, t) /\ <<>> \in Seq(S) /\ Len(<<>>) = 0
BY LenProperties, EmptySeq DEF Begins

LEMMA PrefixesBegin ==
  ASSUME NEW S, NEW t \in Seq(S), NEW i \in Nat, NEW j \in Nat, i <= j
  PROVE  Begins(Prefix(t, i), Prefix(t, j))
<1> DEFINE s == Prefix(t, i)
           u == Prefix(t, j)
<1>1. /\ s \in Seq(S) /\ Len(s) = (IF i < Len(t) THEN i ELSE Len(t)) /\ Begins(s, t)
      /\ u \in Seq(S) /\ Len(u) = (IF j < Len(t) THEN j ELSE Len(t)) /\ Begins(u, t)
      /\ Len(t) \in Nat
  BY PrefixRight, LenProperties
<1> HIDE DEF s, u
<1>2. Len(s) <= Len(u) /\ Len(s) \in Nat /\ Len(u) \in Nat
  BY <1>1
<1> QED BY <1>1, <1>2 DEF Begins, s, u

\* What trim_end leaves ends with no white space.
LEMMA TrimmedRight ==
  ASSUME NEW t \in Seq(Chars)
  PROVE  /\ Trimmed(t) \in Seq(Chars) /\ Begins(Trimmed(t), t)
         /\ Len(Trimmed(t)) > 0 => Trimmed(t)[Len(Trimmed(t))] \notin White
<1> DEFINE full == {i \in DOMAIN t : \E j \in i..Len(t) : t[j] \notin White}
           c == Cardinality(full)
           u == Prefix(t, c)
<1>1. Len(t) \in Nat /\ DOMAIN t = 1..Len(t) /\ Trimmed(t) = u
  BY LenProperties DEF Trimmed
<1>2. Among(full, Len(t))
  BY <1>1 DEF Among
<1>3. ASSUME NEW i \in full, NEW j \in 1..i PROVE j \in full
  <2>1. PICK k \in i..Len(t) : t[k] \notin White
    OBVIOUS
  <2>2. i \in 1..Len(t)
    BY <1>1
  <2>3. j \in 1..Len(t) /\ k \in j..Len(t)
    BY <1>1, <2>1, <2>2
  <2> QED BY <1>1, <2>1, <2>3
<1>4. c \in 0..Len(t) /\ full = 1..c
  <2> HIDE DEF full
  <2> QED BY <1>2, <1>3, FirstPositions
<1>5. ASSUME c > 0 PROVE t[c] \notin White
  <2>1. c \in full
    <3> HIDE DEF full, c
    <3> QED BY <1>1, <1>4, <1>5
  <2>2. PICK j \in c..Len(t) : t[j] \notin White
    BY <2>1
  <2>3. j \in full
    <3>1. j \in 1..Len(t) /\ j \in j..Len(t)
      <4> HIDE DEF full, c
      <4> QED BY <1>1, <1>4, <1>5, <2>2
    <3> QED BY <1>1, <2>2, <3>1
  <2>4. j = c
    <3> HIDE DEF full, c
    <3> QED BY <1>1, <1>4, <2>2, <2>3
  <2> QED BY <2>2, <2>4
<1> HIDE DEF full, c
<1>6. /\ u \in Seq(Chars) /\ Begins(u, t)
      /\ Len(u) = IF c < Len(t) THEN c ELSE Len(t)
  BY <1>4, PrefixRight
<1> HIDE DEF u
<1>7. Len(u) = c /\ \A i \in 1..Len(u) : u[i] = t[i]
  <2>1. Len(t) \in Nat /\ c \in 0..Len(t)
    BY <1>1, <1>4
  <2>2. Len(u) = c
    BY <1>6, <2>1
  <2> QED BY <1>6, <2>2 DEF Begins
<1>8. Len(u) > 0 => u[Len(u)] \notin White
  BY <1>1, <1>4, <1>5, <1>7
<1> QED BY <1>1, <1>6, <1>8

\* A text cut before its n-th newline has fewer than n of them, and no white space
\* at its end.
LEMMA FirstLinesRight ==
  ASSUME NEW t \in Seq(Chars), NEW n \in Nat \ {0}
  PROVE  /\ FirstLines(t, n) \in Seq(Chars)
         /\ Begins(FirstLines(t, n), t)
         /\ Newlines(FirstLines(t, n)) < n
         /\ Len(FirstLines(t, n)) > 0 => FirstLines(t, n)[Len(FirstLines(t, n))] \notin White
<1> DEFINE within == {i \in DOMAIN t : Newlines(Prefix(t, i)) < n}
           kept == Prefix(t, Cardinality(within))
           lines == Trimmed(kept)
<1>1. FirstLines(t, n) = lines
  BY DEF FirstLines
<1>2. Len(t) \in Nat /\ DOMAIN t = 1..Len(t)
  BY LenProperties
<1>3. Among(within, Len(t))
  BY <1>2 DEF Among
<1>4. ASSUME NEW i \in within, NEW j \in 1..i PROVE j \in within
  <2>1. i \in Nat /\ j \in Nat /\ j <= i /\ j \in DOMAIN t /\ Newlines(Prefix(t, i)) < n
    BY <1>2
  <2>2. Begins(Prefix(t, j), Prefix(t, i))
    BY <2>1, PrefixesBegin
  <2>3. Prefix(t, i) \in Seq(Chars) /\ Prefix(t, j) \in Seq(Chars)
    BY <2>1, PrefixRight
  <2>4. /\ Newlines(Prefix(t, j)) <= Newlines(Prefix(t, i))
        /\ Newlines(Prefix(t, j)) \in Nat /\ Newlines(Prefix(t, i)) \in Nat
    BY <2>2, <2>3, NewlinesRise
  <2> QED BY <2>1, <2>4
<1>5. Cardinality(within) \in 0..Len(t) /\ within = 1..Cardinality(within)
  <2> HIDE DEF within
  <2> QED BY <1>3, <1>4, FirstPositions
<1>6. /\ kept \in Seq(Chars) /\ Begins(kept, t)
      /\ Len(kept) = IF Cardinality(within) < Len(t) THEN Cardinality(within) ELSE Len(t)
  <2> HIDE DEF within
  <2> QED BY <1>5, PrefixRight
<1>7. Newlines(kept) < n
  <2>1. CASE Cardinality(within) = 0
    <3>1. Len(kept) = 0
      BY <1>2, <1>6, <2>1
    <3> HIDE DEF kept
    <3>2. DOMAIN kept = {}
      BY <1>6, <3>1, LenProperties
    <3>3. Newlines(kept) = 0
      BY <3>2, FS_EmptySet DEF Newlines
    <3> QED BY <3>3
  <2>2. CASE Cardinality(within) # 0
    <3>1. Cardinality(within) \in within
      BY <1>5, <2>2
    <3> QED BY <3>1
  <2> QED BY <2>1, <2>2
<1> HIDE DEF kept, within
<1>8. /\ lines \in Seq(Chars) /\ Begins(lines, kept)
      /\ Len(lines) > 0 => lines[Len(lines)] \notin White
  BY <1>6, TrimmedRight
<1> HIDE DEF lines
<1>9. Begins(lines, t)
  BY <1>6, <1>8, BeginsTransitive
<1>10. Newlines(lines) <= Newlines(kept) /\ Newlines(lines) \in Nat /\ Newlines(kept) \in Nat
  BY <1>6, <1>8, NewlinesRise
<1> QED BY <1>1, <1>7, <1>8, <1>9, <1>10

\* A text without the carriage returns at the ends of its lines.
LEMMA LinesRight ==
  ASSUME NEW t \in Seq(Chars)
  PROVE  /\ Among(Content(t), Len(t)) /\ \A i \in Content(t) : t[i] \in Chars
         /\ Lines(t) \in Seq(Chars) /\ Len(Lines(t)) <= Len(t)
<1> DEFINE P == Content(t)
           n == Len(t)
<1>1. n \in Nat /\ Among(P, n) /\ \A i \in P : t[i] \in Chars
  BY LenProperties, ElementOfSeq DEF Content, Among
<1>2. Lines(t) = Chosen(t, P)
  BY DEF Lines
<1> HIDE DEF P, n
<1>3. Chosen(t, P) \in Seq(Chars) /\ Len(Chosen(t, P)) = Cardinality(P) /\ Cardinality(P) \in 0..n
  BY <1>1, ChosenTyped
<1>4. Len(Chosen(t, P)) <= n
  BY <1>1, <1>3
<1> QED BY <1>1, <1>2, <1>3, <1>4 DEF P, n

\* The lines of nearly a beginning, cut where no white space is, are the other's
\* but for a last character that was cut.
Cut(w, u) ==
  \/ Begins(w, u)
  \/ /\ Len(w) > 0 /\ w[Len(w)] = "bad"
     /\ Begins(SubSeq(w, 1, Len(w) - 1), u)

LEMMA LinesOfBeginning ==
  ASSUME NEW t \in Seq(Chars), NEW u \in Seq(Chars), NearlyBegins(t, u), Len(t) > 0
  PROVE  \E v \in Seq(Chars) :
           /\ Begins(v, Lines(u))
           /\ Lines(t) = Append(v, t[Len(t)])
           /\ t[Len(t)] \in {"bad"} \cup White \/ Begins(Lines(t), Lines(u))
<1> DEFINE n == Len(t) - 1
           P == Content(u)
           Q == Content(t)
           F == P \cap (1..n)
           v == Chosen(u, F)
<1>1. /\ n \in Nat /\ Len(t) = n + 1 /\ Len(u) \in Nat /\ n + 1 <= Len(u)
      /\ DOMAIN t = 1..n + 1 /\ DOMAIN u = 1..Len(u)
      /\ \A i \in 1..n : t[i] = u[i]
      /\ t[n + 1] = "nl" <=> u[n + 1] = "nl"
  BY LenProperties DEF NearlyBegins
<1> HIDE DEF n
<1>2. /\ Among(P, Len(u)) /\ Among(Q, n + 1) /\ t[n + 1] \in Chars
      /\ \A i \in P : u[i] \in Chars
  BY <1>1, LinesRight, ElementOfSeq
<1>3. ASSUME NEW i \in 1..n PROVE i \in Q <=> i \in P
  <2>1. i \in 1..n + 1 /\ i \in 1..Len(u) /\ i < n + 1 /\ i < Len(u)
        /\ (i + 1 \in 1..n \/ i + 1 = n + 1)
    BY <1>1
  <2>2. t[i] = u[i] /\ (t[i + 1] = "nl" <=> u[i + 1] = "nl")
    BY <1>1, <2>1
  <2> QED BY <1>1, <2>1, <2>2 DEF Content, EndsLine
<1>4. n + 1 \in Q
  BY <1>1 DEF Content, EndsLine
<1>5. t[n + 1] \notin {"bad"} \cup White => n + 1 \in P /\ u[n + 1] = t[n + 1]
  BY <1>1 DEF NearlyBegins, Content, EndsLine, White
<1> HIDE DEF P, Q
<1>6. Q = F \cup {n + 1}
  <2>1. \A i \in Q : i \in 1..n \/ i = n + 1
    BY <1>1, <1>2 DEF Among
  <2> QED BY <1>3, <1>4, <2>1
<1>7. Among(F, n) /\ \A i \in F : u[i] \in Chars /\ t[i] = u[i]
  BY <1>1, <1>2 DEF Among
<1>8. /\ v \in Seq(Chars)
      /\ Len(v) <= Len(Chosen(u, P)) /\ \A k \in 1..Len(v) : v[k] = Chosen(u, P)[k]
  <2>1. /\ Len(Chosen(u, F)) <= Len(Chosen(u, P))
        /\ \A k \in 1..Len(Chosen(u, F)) : Chosen(u, F)[k] = Chosen(u, P)[k]
    <3>1. FirstOf(F, n, u, P, Len(u), Chars)
      BY <1>1, <1>2 DEF FirstOf
    <3> HIDE DEF F
    <3> QED BY <3>1, ChosenBeginning
  <2> HIDE DEF F
  <2> QED BY <1>7, <2>1, ChosenTyped
<1>9. Begins(v, Lines(u))
  BY <1>8 DEF Begins, Lines, P
<1> HIDE DEF F
<1>10. Lines(t) = Append(v, t[n + 1])
  <2>1. Extends(t, u, F, n, Chars)
    BY <1>1, <1>2, <1>7 DEF Extends
  <2>2. Chosen(t, Q) = Append(Chosen(u, F), t[n + 1])
    BY <1>6, <2>1, ChosenMore
  <2> QED BY <2>2 DEF Lines, Q
<1>11. ASSUME t[n + 1] \notin {"bad"} \cup White
       PROVE  Begins(Lines(t), Lines(u))
  <2> DEFINE G == P \cap (1..n + 1)
  <2>1. G = Q /\ n + 1 \in Nat
    <3>1. \A i \in 1..n + 1 : i \in 1..n \/ i = n + 1
      BY <1>1
    <3>2. \A i \in Q : i \in 1..n + 1
      BY <1>2 DEF Among
    <3> QED BY <1>1, <1>3, <1>4, <1>5, <1>11, <3>1, <3>2
  <2>2. /\ Len(Chosen(u, G)) <= Len(Chosen(u, P))
        /\ \A k \in 1..Len(Chosen(u, G)) : Chosen(u, G)[k] = Chosen(u, P)[k]
    <3>1. FirstOf(G, n + 1, u, P, Len(u), Chars)
      BY <1>2, <2>1 DEF FirstOf
    <3> HIDE DEF G
    <3> QED BY <3>1, ChosenBeginning
  <2>3. \A i \in Q : u[i] = t[i]
    BY <1>5, <1>6, <1>7, <1>11
  <2>4. Chosen(u, Q) = Chosen(t, Q)
    BY <1>2, <2>3, ChosenSame
  <2> HIDE DEF G
  <2> QED BY <2>1, <2>2, <2>4 DEF Begins, Lines, P, Q
<1> HIDE DEF v
<1> QED BY <1>1, <1>8, <1>9, <1>10, <1>11

LEMMA CutRight ==
  ASSUME NEW t \in Seq(Chars), NEW u \in Seq(Chars), NearlyBegins(t, u),
         NEW w \in Seq(Chars), Begins(w, Lines(t)),
         Len(w) > 0 => w[Len(w)] \notin White
  PROVE  Cut(w, Lines(u))
<1>1. /\ Lines(t) \in Seq(Chars) /\ Lines(u) \in Seq(Chars) /\ Len(w) \in Nat
      /\ Len(t) \in Nat /\ Len(Lines(t)) \in Nat /\ Len(Lines(u)) \in Nat
      /\ Len(Lines(t)) <= Len(t) /\ Len(w) <= Len(Lines(t))
      /\ \A i \in 1..Len(w) : w[i] = Lines(t)[i]
  BY LinesRight, LenProperties DEF Begins
<1>2. CASE Len(t) = 0
  <2>1. Len(w) = 0
    BY <1>1, <1>2
  <2> QED BY <1>1, <2>1 DEF Cut, Begins
<1>3. CASE Len(t) > 0
  <2>1. PICK v \in Seq(Chars) :
           /\ Begins(v, Lines(u))
           /\ Lines(t) = Append(v, t[Len(t)])
           /\ t[Len(t)] \in {"bad"} \cup White \/ Begins(Lines(t), Lines(u))
    BY <1>3, LinesOfBeginning
  <2>2. t[Len(t)] \in Chars
    BY <1>1, <1>3, ElementOfSeq
  <2>3. /\ Len(v) \in Nat /\ Len(Lines(t)) = Len(v) + 1
        /\ \A i \in 1..Len(v) : Lines(t)[i] = v[i]
        /\ Lines(t)[Len(v) + 1] = t[Len(t)]
    BY <2>1, <2>2, AppendProperties, LenProperties
  <2>4. CASE Len(w) <= Len(v)
    <3>1. Begins(w, v)
      BY <1>1, <2>3, <2>4 DEF Begins
    <3>2. Begins(w, Lines(u))
      BY <1>1, <2>1, <3>1, BeginsTransitive
    <3> QED BY <3>2 DEF Cut
  <2>5. CASE Len(w) = Len(v) + 1
    <3>1. w[Len(w)] = t[Len(t)] /\ Len(w) > 0
      BY <1>1, <2>3, <2>5
    <3>2. CASE t[Len(t)] = "bad"
      <4> DEFINE f == SubSeq(w, 1, Len(w) - 1)
      <4>1. Len(w) - 1 \in Nat /\ Len(w) - 1 = Len(v) /\ \A i \in 1..Len(w) - 1 : w[i] \in Chars
        BY <1>1, <2>3, <2>5, ElementOfSeq
      <4>2. f \in Seq(Chars) /\ Len(f) = Len(v) /\ \A i \in 1..Len(v) : f[i] = w[i]
        BY <4>1, SubSeqProperties
      <4> HIDE DEF f
      <4>3. Begins(f, v)
        BY <1>1, <2>3, <2>5, <4>2 DEF Begins
      <4>4. Begins(f, Lines(u))
        BY <1>1, <2>1, <4>2, <4>3, BeginsTransitive
      <4> QED BY <3>1, <3>2, <4>4 DEF Cut, f
    <3>3. CASE Begins(Lines(t), Lines(u))
      BY <1>1, <3>3, BeginsTransitive DEF Cut
    <3> QED BY <2>1, <3>1, <3>2, <3>3
  <2> QED BY <1>1, <2>3, <2>4, <2>5
<1> QED BY <1>1, <1>2, <1>3

\* What truncate_text returns: the text, or its beginning and an ellipsis.
LEMMA TruncateRight ==
  ASSUME NEW t \in Seq(Chars), NEW max \in Nat
  PROVE  \/ SizeOf(t) <= max /\ Truncate(t, max) = t
         \/ /\ SizeOf(t) > max
            /\ \E c \in 0..Len(t) :
                 /\ SizeOf(Prefix(t, c)) <= max
                 /\ Truncate(t, max) = Prefix(t, c) \o <<"dots">>
<1> DEFINE fits == {n \in 1..Len(t) : SizeOf(Prefix(t, n)) <= max}
           c == Cardinality(fits)
<1>1. Len(t) \in Nat /\ SizeOf(t) \in Nat /\ Begins(t, t)
  BY LenProperties, BeginsReflexive, SizeRises
<1>2. CASE SizeOf(t) <= max
  BY <1>2 DEF Truncate
<1>3. CASE SizeOf(t) > max
  <2>1. Truncate(t, max) = Prefix(t, c) \o <<"dots">>
    BY <1>1, <1>3 DEF Truncate
  <2>2. Among(fits, Len(t))
    BY <1>1 DEF Among
  <2>3. ASSUME NEW i \in fits, NEW j \in 1..i PROVE j \in fits
    <3>1. i \in Nat /\ j \in Nat /\ j <= i /\ j \in 1..Len(t) /\ SizeOf(Prefix(t, i)) <= max
      BY <1>1
    <3>2. Begins(Prefix(t, j), Prefix(t, i))
      BY <3>1, PrefixesBegin
    <3>3. Prefix(t, i) \in Seq(Chars) /\ Prefix(t, j) \in Seq(Chars)
      BY <3>1, PrefixRight
    <3>4. /\ SizeOf(Prefix(t, j)) <= SizeOf(Prefix(t, i))
          /\ SizeOf(Prefix(t, j)) \in Nat /\ SizeOf(Prefix(t, i)) \in Nat
      BY <3>2, <3>3, SizeRises
    <3> QED BY <3>1, <3>4
  <2>4. c \in 0..Len(t) /\ fits = 1..c
    <3> HIDE DEF fits
    <3> QED BY <2>2, <2>3, FirstPositions
  <2>5. SizeOf(Prefix(t, c)) <= max
    <3>1. CASE c = 0
      <4>1. Prefix(t, 0) \in Seq(Chars) /\ Len(Prefix(t, 0)) = 0
        BY <1>1, PrefixRight
      <4>2. SizeOf(Prefix(t, 0)) <= 3 * 0 /\ SizeOf(Prefix(t, 0)) \in Nat
        BY <4>1, BeginsReflexive, SizeRises
      <4>3. SizeOf(Prefix(t, 0)) <= max
        BY <4>2
      <4> HIDE DEF c
      <4> QED BY <3>1, <4>3
    <3>2. CASE c # 0
      <4>1. c \in fits
        <5> HIDE DEF c, fits
        <5> QED BY <1>1, <2>4, <3>2
      <4> QED BY <4>1
    <3> QED BY <3>1, <3>2
  <2> HIDE DEF c
  <2> QED BY <1>3, <2>1, <2>4, <2>5
<1> QED BY <1>1, <1>2, <1>3

\* A beginning of the text with an ellipsis.
LEMMA Ellipsis ==
  ASSUME NEW p \in Seq(Chars)
  PROVE  /\ Characters(p \o <<"dots">>) = p
         /\ SizeOf(p \o <<"dots">>) <= SizeOf(p) + 3
         /\ p \o <<"dots">> \in Seq(Chars \cup {"dots"})
<1> DEFINE All == Chars \cup {"dots"}
           e == <<"dots">>
           u == p \o e
           m == Len(p)
<1>1. e \in Seq(All) /\ Len(e) = 1 /\ e[1] = "dots"
  BY DEF Chars
<1>2. p \in Seq(All) /\ m \in Nat /\ \A i \in 1..m : p[i] \in Chars /\ p[i] # "dots"
  BY LenProperties, ElementOfSeq, SeqMonotonic DEF Chars
<1> HIDE DEF e, All
<1>3. /\ u \in Seq(All) /\ Len(u) = m + 1
      /\ \A i \in 1..m + 1 : u[i] = IF i <= m THEN p[i] ELSE e[i - m]
  <2>1. /\ u \in Seq(All) /\ Len(u) = Len(p) + Len(e)
        /\ \A i \in 1..Len(p) + Len(e) : u[i] = IF i <= Len(p) THEN p[i] ELSE e[i - Len(p)]
    BY <1>1, <1>2, ConcatProperties
  <2> QED BY <1>1, <2>1
<1> HIDE DEF u, m
<1>4. DOMAIN u = 1..m + 1 /\ (\A i \in 1..m : u[i] = p[i] /\ u[i] # "dots") /\ u[m + 1] = "dots"
  BY <1>1, <1>2, <1>3, LenProperties
<1>5. Characters(u) = p
  <2>1. {i \in DOMAIN u : u[i] # "dots"} = 1..m
    BY <1>2, <1>4
  <2>2. Characters(u) = Chosen(u, 1..m)
    BY <2>1 DEF Characters
  <2>3. \A i \in 1..m : u[i] \in Chars
    BY <1>2, <1>4
  <2>4. /\ Chosen(u, 1..m) \in Seq(Chars) /\ Len(Chosen(u, 1..m)) = m
        /\ \A k \in 1..m : Chosen(u, 1..m)[k] = u[k]
    BY <1>2, <2>3, ChosenAll
  <2>5. \A k \in 1..m : Chosen(u, 1..m)[k] = p[k]
    BY <1>4, <2>4
  <2>6. Chosen(u, 1..m) = p
    BY <2>4, <2>5, SeqEqual DEF m
  <2> QED BY <2>2, <2>6
<1>6. SizeOf(u) <= SizeOf(p) + 3
  <2> DEFINE Cells(v) == {c \in (DOMAIN v) \X (1..3) : c[2] <= Width[v[c[1]]]}
             D == {m + 1} \X (1..3)
             C == Cells(p)
  <2>1. SizeOf(u) = Cardinality(Cells(u)) /\ SizeOf(p) = Cardinality(C)
    BY DEF SizeOf
  <2>2. DOMAIN p = 1..m
    BY LenProperties DEF m
  <2>3. ASSUME NEW i \in 1..m + 1, NEW k \in 1..3, k <= Width[u[i]]
        PROVE  <<i, k>> \in C \cup D
    <3>1. CASE i \in 1..m
      <4>1. u[i] = p[i] /\ i \in DOMAIN p
        BY <1>4, <2>2, <3>1
      <4> QED BY <2>3, <4>1
    <3>2. CASE i = m + 1
      BY <3>2
    <3> QED BY <1>2, <3>1, <3>2
  <2>4. Cells(u) \in SUBSET (C \cup D)
    <3>1. SUFFICES ASSUME NEW c \in Cells(u) PROVE c \in C \cup D
      OBVIOUS
    <3>2. PICK i \in 1..m + 1, k \in 1..3 : c = <<i, k>>
      BY <1>4
    <3>3. k <= Width[u[i]]
      BY <3>1, <3>2
    <3> HIDE DEF Cells, C, D
    <3> QED BY <2>3, <3>2, <3>3
  <2>5. IsFiniteSet(D) /\ Cardinality(D) = 3
    <3>1. IsFiniteSet({m + 1}) /\ Cardinality({m + 1}) = 1
      BY FS_Singleton
    <3>2. ASSUME NEW n \in Nat PROVE IsFiniteSet(1..n) /\ Cardinality(1..n) = n
      BY FS_Interval
    <3>3. IsFiniteSet(1..3) /\ Cardinality(1..3) = 3
      BY <3>2, Zenon
    <3>4. IsFiniteSet(D) /\ Cardinality(D) = 1 * 3
      BY <3>1, <3>3, FS_Product
    <3> QED BY <3>4
  <2>6. IsFiniteSet(C)
    <3>3. ASSUME NEW n \in Nat PROVE IsFiniteSet(1..n)
      BY FS_Interval
    <3>1. IsFiniteSet(1..m) /\ IsFiniteSet(1..3)
      BY <1>2, <3>3, Zenon
    <3>2. IsFiniteSet((1..m) \X (1..3)) /\ C \in SUBSET ((1..m) \X (1..3))
      BY <2>2, <3>1, FS_Product
    <3> QED BY <3>2, FS_Subset
  <2> HIDE DEF Cells, C, D
  <2>7. /\ IsFiniteSet(C \cup D)
        /\ Cardinality(C \cup D) = Cardinality(C) + 3 - Cardinality(C \cap D)
        /\ Cardinality(C \cap D) \in Nat /\ Cardinality(C) \in Nat /\ Cardinality(C \cup D) \in Nat
    BY <2>5, <2>6, FS_Union, FS_Intersection, FS_CardinalityType
  <2>8. Cardinality(Cells(u)) \in Nat /\ Cardinality(Cells(u)) <= Cardinality(C \cup D)
    BY <2>4, <2>7, FS_Subset, FS_CardinalityType
  <2> QED BY <2>1, <2>7, <2>8
<1> QED BY <1>3, <1>5, <1>6 DEF u, e, All

\* The evidence is the text or its beginning, cut only when it is too large, and
\* never larger than the limit and its ellipsis.
LEMMA EvidenceRight ==
  ASSUME NEW t \in Seq(Chars), NEW max \in Nat
  PROVE  /\ Truncate(t, max) \in Seq(Chars \cup {"dots"})
         /\ IsPrefix(Characters(Truncate(t, max)), t)
         /\ Truncate(t, max) # t => SizeOf(t) > max
         /\ SizeOf(Truncate(t, max)) <= max + 3
<1>1. Len(t) \in Nat /\ SizeOf(t) \in Nat /\ Begins(t, t)
  BY LenProperties, BeginsReflexive, SizeRises
<1>2. CASE SizeOf(t) <= max /\ Truncate(t, max) = t
  <2>1. \A i \in 1..Len(t) : t[i] \in Chars /\ t[i] # "dots"
    BY ElementOfSeq DEF Chars
  <2>2. {i \in DOMAIN t : t[i] # "dots"} = 1..Len(t)
    BY <2>1, LenProperties
  <2>3. Characters(t) = Chosen(t, 1..Len(t))
    BY <2>2 DEF Characters
  <2>4. /\ Chosen(t, 1..Len(t)) \in Seq(Chars) /\ Len(Chosen(t, 1..Len(t))) = Len(t)
        /\ \A k \in 1..Len(t) : Chosen(t, 1..Len(t))[k] = t[k]
    BY <1>1, <2>1, ChosenAll
  <2>5. Characters(t) = t
    BY <2>3, <2>4, SeqEqual
  <2>6. IsPrefix(t, t)
    BY <1>1, BeginsIsPrefix
  <2>7. t \in Seq(Chars \cup {"dots"})
    BY SeqMonotonic
  <2>8. SizeOf(t) <= max + 3
    BY <1>1, <1>2
  <2> QED BY <1>2, <2>5, <2>6, <2>7, <2>8
<1>3. ASSUME SizeOf(t) > max, NEW c \in 0..Len(t), SizeOf(Prefix(t, c)) <= max,
             Truncate(t, max) = Prefix(t, c) \o <<"dots">>
      PROVE  /\ Truncate(t, max) \in Seq(Chars \cup {"dots"})
             /\ IsPrefix(Characters(Truncate(t, max)), t)
             /\ SizeOf(Truncate(t, max)) <= max + 3
  <2> DEFINE p == Prefix(t, c)
  <2>1. p \in Seq(Chars) /\ Begins(p, t)
    BY <1>1, PrefixRight
  <2> HIDE DEF p
  <2>2. /\ Characters(p \o <<"dots">>) = p
        /\ SizeOf(p \o <<"dots">>) <= SizeOf(p) + 3
        /\ p \o <<"dots">> \in Seq(Chars \cup {"dots"})
    BY <2>1, Ellipsis
  <2>3. IsPrefix(p, t)
    BY <2>1, BeginsIsPrefix
  <2>4. Truncate(t, max) = p \o <<"dots">> /\ SizeOf(p) <= max
    BY <1>3 DEF p
  <2> DEFINE x == p \o <<"dots">>
  <2> HIDE DEF x
  <2>5. SizeOf(x) \in Nat /\ SizeOf(p) \in Nat
    <3>1. x \in Seq(Chars \cup {"dots"})
      BY <2>2 DEF x
    <3> QED BY <2>1, <3>1, BeginsReflexive, SizeRises
  <2>6. SizeOf(x) <= max + 3
    BY <2>2, <2>4, <2>5 DEF x
  <2> QED BY <2>2, <2>3, <2>4, <2>6 DEF x
<1> QED BY <1>1, <1>2, <1>3, TruncateRight

-----------------------------------------------------------------------------
(* What is kept of a pipe.  Of the bytes b written, p are still in the pipe *)
(* and h are kept: the last ones, and the first ones up to the cap.         *)
Pieces(b, p, h, cap) ==
  /\ b \in Seq(Bytes) /\ p \in Seq(Bytes) /\ h \in Seq(Bytes)
  /\ Len(p) <= Len(b)
  /\ Len(h) = IF cap < Len(b) - Len(p) THEN cap ELSE Len(b) - Len(p)
  /\ \A i \in 1..Len(p) : p[i] = b[Len(b) - Len(p) + i]
  /\ \A i \in 1..Len(h) : h[i] = b[i]

\* One more byte goes into the pipe.
LEMMA PiecesWritten ==
  ASSUME NEW b, NEW p, NEW h, NEW cap \in Nat, Pieces(b, p, h, cap), NEW x \in Bytes
  PROVE  Pieces(Append(b, x), Append(p, x), h, cap)
<1> DEFINE c == Append(b, x)
           q == Append(p, x)
<1>1. /\ b \in Seq(Bytes) /\ p \in Seq(Bytes) /\ h \in Seq(Bytes)
      /\ Len(b) \in Nat /\ Len(p) \in Nat /\ Len(h) \in Nat
  BY LenProperties DEF Pieces
<1>2. /\ c \in Seq(Bytes) /\ Len(c) = Len(b) + 1 /\ c[Len(b) + 1] = x
      /\ \A i \in 1..Len(b) : c[i] = b[i]
  BY <1>1, AppendProperties
<1>3. /\ q \in Seq(Bytes) /\ Len(q) = Len(p) + 1 /\ q[Len(p) + 1] = x
      /\ \A i \in 1..Len(p) : q[i] = p[i]
  BY <1>1, AppendProperties
<1> HIDE DEF c, q
<1>4. /\ Len(p) <= Len(b)
      /\ Len(h) = IF cap < Len(b) - Len(p) THEN cap ELSE Len(b) - Len(p)
      /\ \A i \in 1..Len(p) : p[i] = b[Len(b) - Len(p) + i]
      /\ \A i \in 1..Len(h) : h[i] = b[i]
  BY DEF Pieces
<1>5. Len(c) - Len(q) = Len(b) - Len(p) /\ Len(q) <= Len(c) /\ Len(h) <= Len(b)
  BY <1>1, <1>2, <1>3, <1>4
<1>6. ASSUME NEW i \in 1..Len(q) PROVE q[i] = c[Len(c) - Len(q) + i]
  <2>1. CASE i = Len(p) + 1
    <3>1. Len(c) - Len(q) + i = Len(b) + 1
      BY <2>1, <1>1, <1>5
    <3> QED BY <2>1, <3>1, <1>2, <1>3
  <2>2. CASE i \in 1..Len(p)
    <3>1. Len(b) - Len(p) + i \in 1..Len(b)
      BY <2>2, <1>1, <1>4
    <3> QED BY <2>2, <3>1, <1>2, <1>3, <1>4, <1>5
  <2> QED BY <1>1, <1>3, <2>1, <2>2
<1>7. ASSUME NEW i \in 1..Len(h) PROVE h[i] = c[i]
  <2>1. i \in 1..Len(b)
    BY <1>1, <1>5
  <2> QED BY <2>1, <1>2, <1>4
<1> QED BY <1>1, <1>2, <1>3, <1>4, <1>5, <1>6, <1>7 DEF Pieces, c, q

\* The oldest byte of the pipe is read, and kept while there is room.
LEMMA PiecesRead ==
  ASSUME NEW b, NEW p, NEW h, NEW cap \in Nat, Pieces(b, p, h, cap), p # <<>>
  PROVE  Pieces(b, Tail(p), IF Len(h) < cap THEN Append(h, Head(p)) ELSE h, cap)
<1> DEFINE q == Tail(p)
           k == Append(h, Head(p))
<1>1. /\ b \in Seq(Bytes) /\ p \in Seq(Bytes) /\ h \in Seq(Bytes)
      /\ Len(b) \in Nat /\ Len(h) \in Nat
  BY LenProperties DEF Pieces
<1>2. /\ q \in Seq(Bytes) /\ Len(p) \in Nat \ {0} /\ Len(q) = Len(p) - 1
      /\ \A i \in 1..Len(q) : q[i] = p[i + 1]
      /\ Head(p) = p[1] /\ Head(p) \in Bytes
  BY <1>1, HeadTailProperties, EmptySeq, LenProperties
<1>3. /\ k \in Seq(Bytes) /\ Len(k) = Len(h) + 1 /\ k[Len(h) + 1] = p[1]
      /\ \A i \in 1..Len(h) : k[i] = h[i]
  BY <1>1, <1>2, AppendProperties
<1> HIDE DEF q, k
<1>4. /\ Len(p) <= Len(b)
      /\ Len(h) = IF cap < Len(b) - Len(p) THEN cap ELSE Len(b) - Len(p)
      /\ \A i \in 1..Len(p) : p[i] = b[Len(b) - Len(p) + i]
      /\ \A i \in 1..Len(h) : h[i] = b[i]
  BY DEF Pieces
<1>5. Len(q) <= Len(b) /\ Len(b) - Len(q) = Len(b) - Len(p) + 1
  BY <1>1, <1>2, <1>4
<1>6. ASSUME NEW i \in 1..Len(q) PROVE q[i] = b[Len(b) - Len(q) + i]
  <2>1. i + 1 \in 1..Len(p) /\ Len(b) - Len(p) + (i + 1) = Len(b) - Len(q) + i
    BY <1>1, <1>2, <1>5
  <2> QED BY <2>1, <1>2, <1>4
<1>7. CASE Len(h) < cap
  <2>1. Len(h) = Len(b) - Len(p) /\ Len(k) = (IF cap < Len(b) - Len(q) THEN cap ELSE Len(b) - Len(q))
    BY <1>1, <1>2, <1>3, <1>4, <1>5, <1>7
  <2>2. k[Len(h) + 1] = b[Len(h) + 1]
    <3>1. 1 \in 1..Len(p) /\ Len(b) - Len(p) + 1 = Len(h) + 1
      BY <1>2, <2>1
    <3>2. p[1] = b[Len(b) - Len(p) + 1]
      BY <3>1, <1>4
    <3> QED BY <3>1, <3>2, <1>3
  <2>3. \A i \in 1..Len(k) : i \in 1..Len(h) \/ i = Len(h) + 1
    BY <1>1, <1>3
  <2>4. \A i \in 1..Len(k) : k[i] = b[i]
    BY <2>2, <2>3, <1>3, <1>4
  <2> QED BY <1>1, <1>2, <1>3, <1>5, <1>6, <1>7, <2>1, <2>4 DEF Pieces, q, k
<1>8. CASE ~(Len(h) < cap)
  <2>1. Len(h) = IF cap < Len(b) - Len(q) THEN cap ELSE Len(b) - Len(q)
    BY <1>1, <1>2, <1>4, <1>5, <1>8
  <2> QED BY <1>1, <1>2, <1>4, <1>5, <1>6, <1>8, <2>1 DEF Pieces, q, k
<1> QED BY <1>7, <1>8

\* What is kept is the beginning of what was read.
LEMMA PiecesKept ==
  ASSUME NEW b, NEW p, NEW h, NEW cap \in Nat, Pieces(b, p, h, cap)
  PROVE  h = Prefix(Prefix(b, Len(b) - Len(p)), cap)
<1> DEFINE n == Len(b) - Len(p)
           r == Prefix(b, n)
           k == Prefix(r, cap)
<1>1. /\ b \in Seq(Bytes) /\ h \in Seq(Bytes) /\ Len(b) \in Nat /\ Len(p) \in Nat
      /\ n \in Nat /\ n <= Len(b)
      /\ Len(h) = (IF cap < n THEN cap ELSE n)
      /\ \A i \in 1..Len(h) : h[i] = b[i]
  BY LenProperties DEF Pieces
<1> HIDE DEF n
<1>2. r \in Seq(Bytes) /\ Len(r) = n /\ \A i \in 1..n : r[i] = b[i]
  <2>1. /\ r \in Seq(Bytes) /\ Len(r) = (IF n < Len(b) THEN n ELSE Len(b))
        /\ \A i \in 1..Len(r) : r[i] = b[i]
    BY <1>1, PrefixRight DEF Begins
  <2> QED BY <1>1, <2>1
<1> HIDE DEF r
<1>3. k \in Seq(Bytes) /\ Len(k) = Len(h) /\ \A i \in 1..Len(k) : k[i] = r[i]
  <2>1. /\ k \in Seq(Bytes) /\ Len(k) = (IF cap < Len(r) THEN cap ELSE Len(r))
        /\ \A i \in 1..Len(k) : k[i] = r[i]
    BY <1>2, PrefixRight DEF Begins
  <2> QED BY <1>1, <1>2, <2>1
<1> HIDE DEF k
<1>4. \A i \in 1..Len(h) : i \in 1..n
  BY <1>1
<1>5. k = h
  BY <1>1, <1>2, <1>3, <1>4, SeqEqual
<1> QED BY <1>5 DEF k, r, n

\* The readers are in step with the child.
Captured ==
  /\ pipe \in [Streams -> Seq(Bytes)] /\ head \in [Streams -> Seq(Bytes)]
  /\ \A s \in Streams : Pieces(WrittenTo(s), pipe[s], head[s], Cap[s])

LEMMA CapTyped == \A s \in Streams : Cap[s] \in Nat
BY CapsAssumption DEF Cap, Streams

\* The bytes a child has written to each of its pipes.
Sent(w, n, s) == Chosen([i \in DOMAIN w |-> w[i].byte], {i \in 1..n : w[i].to = s})

LEMMA SentMore ==
  ASSUME NEW w \in Seq([to : Streams, byte : Bytes]), NEW n \in Nat, n < Len(w), NEW s \in Streams
  PROVE  Sent(w, n + 1, s) = IF w[n + 1].to = s THEN Append(Sent(w, n, s), w[n + 1].byte)
                             ELSE Sent(w, n, s)
<1> DEFINE bytes == [i \in DOMAIN w |-> w[i].byte]
           P == {i \in 1..n : w[i].to = s}
           Q == {i \in 1..n + 1 : w[i].to = s}
<1>1. DOMAIN w = 1..Len(w) /\ Len(w) \in Nat
  BY LenProperties
<1>2. ASSUME NEW i \in 1..n + 1 PROVE i \in DOMAIN w /\ bytes[i] = w[i].byte /\ bytes[i] \in Bytes
  <2>1. i \in 1..Len(w)
    BY <1>1
  <2>2. w[i] \in [to : Streams, byte : Bytes]
    BY <2>1, ElementOfSeq
  <2> QED BY <1>1, <2>1, <2>2
<1>3. \A i \in 1..n + 1 : i \in 1..n \/ i = n + 1
  OBVIOUS
<1>4. 1..n \subseteq 1..n + 1 /\ n + 1 \in 1..n + 1
  OBVIOUS
<1>5. CASE w[n + 1].to = s
  <2>1. Q = P \cup {n + 1}
    BY <1>3, <1>4, <1>5
  <2>2. Among(P, n)
    BY DEF Among
  <2>3. \A i \in P : bytes[i] \in Bytes /\ bytes[i] = bytes[i]
    BY <1>2, <1>4
  <2>4. bytes[n + 1] \in Bytes /\ bytes[n + 1] = w[n + 1].byte
    BY <1>2, <1>4
  <2>5. Sent(w, n + 1, s) = Chosen(bytes, Q) /\ Sent(w, n, s) = Chosen(bytes, P)
    BY DEF Sent
  <2> HIDE DEF P, Q, bytes
  <2>7. Extends(bytes, bytes, P, n, Bytes)
    BY <2>2, <2>3, <2>4 DEF Extends
  <2>6. Chosen(bytes, Q) = Append(Chosen(bytes, P), bytes[n + 1])
    BY <2>1, <2>7, ChosenMore
  <2> QED BY <1>5, <2>4, <2>5, <2>6
<1>6. CASE w[n + 1].to # s
  <2>1. Q = P
    BY <1>3, <1>4, <1>6
  <2> QED BY <1>6, <2>1 DEF Sent
<1> QED BY <1>5, <1>6

LEMMA WrittenToIsSent == \A s : WrittenTo(s) = Sent(script.writes, written, s)
BY DEF WrittenTo, Sent

LEMMA CapturedInit == Init => Captured
<1> SUFFICES ASSUME Init PROVE Captured
  OBVIOUS
<1>1. <<>> \in Seq(Bytes) /\ Len(<<>>) = 0
  BY EmptySeq
<1>2. ASSUME NEW s \in Streams PROVE WrittenTo(s) = <<>>
  <2>1. {i \in 1..0 : script.writes[i].to = s} = {}
    OBVIOUS
  <2>2. Among({}, 0) /\ Cardinality({}) = 0
    BY FS_EmptySet DEF Among
  <2>3. WrittenTo(s) = Chosen([i \in DOMAIN script.writes |-> script.writes[i].byte], {})
    BY <2>1 DEF Init, WrittenTo
  <2> DEFINE c == Chosen([i \in DOMAIN script.writes |-> script.writes[i].byte], {})
  <2>4. c \in Seq(Bytes) /\ Len(c) = 0
    BY <2>2, ChosenTyped
  <2> HIDE DEF c
  <2> QED BY <2>3, <2>4, EmptySeq DEF c
<1>3. ASSUME NEW s \in Streams PROVE Pieces(WrittenTo(s), pipe[s], head[s], Cap[s])
  <2>1. pipe[s] = <<>> /\ head[s] = <<>>
    BY DEF Init
  <2>2. ASSUME NEW c \in Nat PROVE Pieces(<<>>, <<>>, <<>>, c)
    <3>1. \A i \in 1..0 : FALSE
      OBVIOUS
    <3> QED BY <1>1, <3>1 DEF Pieces
  <2> QED BY <2>1, <2>2, <1>2, CapTyped
<1> QED BY <1>1, <1>3 DEF Init, Captured

LEMMA WriteCaptured ==
  ASSUME Drained, Captured, Write
  PROVE  Captured'
<1> DEFINE w == script.writes[written + 1]
<1>1. script.writes \in Seq([to : Streams, byte : Bytes]) /\ written \in Nat
      /\ written < Len(script.writes) /\ Len(script.writes) \in Nat
  BY ScriptsAssumption, LenProperties DEF Drained, Write
<1>2. w.to \in Streams /\ w.byte \in Bytes
  <2>1. written + 1 \in 1..Len(script.writes)
    BY <1>1
  <2>2. w \in [to : Streams, byte : Bytes]
    BY <1>1, <2>1, ElementOfSeq
  <2> QED BY <2>2
<1>3. reader[w.to] = "open"
  BY <1>2 DEF Drained, Write
<1>4. /\ pipe' = [pipe EXCEPT ![w.to] = Append(@, w.byte)]
      /\ written' = written + 1 /\ UNCHANGED <<script, head>>
  BY <1>3 DEF Write
<1>5. ASSUME NEW s \in Streams
      PROVE  WrittenTo(s)' = IF w.to = s THEN Append(WrittenTo(s), w.byte) ELSE WrittenTo(s)
  <2>1. WrittenTo(s)' = Sent(script.writes, written + 1, s)
    BY <1>4 DEF WrittenTo, Sent
  <2> QED BY <1>1, <2>1, SentMore, WrittenToIsSent
<1> HIDE DEF w
<1>6. pipe' \in [Streams -> Seq(Bytes)]
  <2>1. Append(pipe[w.to], w.byte) \in Seq(Bytes)
    BY <1>2, AppendProperties DEF Captured
  <2> QED BY <1>2, <1>4, <2>1 DEF Captured
<1>7. ASSUME NEW s \in Streams
      PROVE  Pieces(WrittenTo(s)', pipe'[s], head'[s], Cap[s])
  <2>1. Pieces(WrittenTo(s), pipe[s], head[s], Cap[s]) /\ Cap[s] \in Nat
    BY CapTyped DEF Captured
  <2>2. CASE w.to = s
    <3>1. pipe'[s] = Append(pipe[s], w.byte)
      BY <1>4, <2>2 DEF Captured
    <3> QED BY <1>2, <1>4, <1>5, <2>1, <2>2, <3>1, PiecesWritten
  <2>3. CASE w.to # s
    <3>1. pipe'[s] = pipe[s]
      BY <1>4, <2>3 DEF Captured
    <3> QED BY <1>4, <1>5, <2>1, <2>3, <3>1
  <2> QED BY <2>2, <2>3
<1> QED BY <1>4, <1>6, <1>7 DEF Captured, Cap

LEMMA ReadCaptured ==
  ASSUME Captured, NEW t \in Streams, Read(t)
  PROVE  Captured'
<1> DEFINE h == IF Len(head[t]) < Cap[t] THEN Append(head[t], Head(pipe[t])) ELSE head[t]
<1>1. /\ pipe' = [pipe EXCEPT ![t] = Tail(@)] /\ pipe[t] # <<>>
      /\ UNCHANGED <<script, written>>
  BY DEF Read
<1>2. head' = [head EXCEPT ![t] = h]
  BY DEF Read, Captured
<1>3. Pieces(WrittenTo(t), Tail(pipe[t]), h, Cap[t])
  BY <1>1, CapTyped, PiecesRead DEF Captured
<1> HIDE DEF h
<1>4. Tail(pipe[t]) \in Seq(Bytes) /\ h \in Seq(Bytes)
  BY <1>3 DEF Pieces
<1>5. pipe' \in [Streams -> Seq(Bytes)] /\ head' \in [Streams -> Seq(Bytes)]
  BY <1>1, <1>2, <1>4 DEF Captured
<1>6. ASSUME NEW s \in Streams
      PROVE  Pieces(WrittenTo(s)', pipe'[s], head'[s], Cap[s])
  <2>1. WrittenTo(s)' = WrittenTo(s)
    BY <1>1 DEF WrittenTo
  <2>2. CASE s = t
    <3>1. pipe'[t] = Tail(pipe[t]) /\ head'[t] = h
      BY <1>1, <1>2 DEF Captured
    <3> QED BY <1>3, <2>1, <2>2, <3>1
  <2>3. CASE s # t
    <3>1. pipe'[s] = pipe[s] /\ head'[s] = head[s]
      BY <1>1, <1>2, <2>3 DEF Captured
    <3> QED BY <2>1, <3>1 DEF Captured
  <2> QED BY <2>2, <2>3
<1> QED BY <1>5, <1>6 DEF Captured, Cap

LEMMA CapturedStep ==
  ASSUME Drained, Captured, [Next]_vars
  PROVE  Captured'
<1>1. CASE Write
  BY <1>1, WriteCaptured
<1>2. ASSUME NEW s \in Streams, Read(s)
      PROVE  Captured'
  BY <1>2, ReadCaptured
<1>3. ASSUME UNCHANGED <<script, written, pipe, head>>
      PROVE  Captured'
  BY <1>3 DEF Captured, WrittenTo, Cap
<1>4. CASE Exit
  BY <1>3, <1>4 DEF Exit
<1>5. ASSUME NEW s \in Streams, ReadEof(s)
      PROVE  Captured'
  BY <1>3, <1>5 DEF ReadEof
<1>6. CASE Conclude
  BY <1>3, <1>6 DEF Conclude
<1>7. CASE Summarise
  BY <1>3, <1>7 DEF Summarise
<1>8. CASE UNCHANGED vars
  BY <1>3, <1>8 DEF vars
<1> QED BY <1>1, <1>2, <1>4, <1>5, <1>6, <1>7, <1>8 DEF Next

\* However a child alternates between its two pipes, and whatever the caps, what
\* is kept of each is the beginning of what it wrote there (read_capped).
THEOREM KeptSafety == Spec => []KeptIsBeginning
<1>1. Captured => KeptIsBeginning
  <2> SUFFICES ASSUME Captured, NEW s \in Streams
               PROVE  head[s] = Prefix(ReadFrom(s), Cap[s])
    BY DEF KeptIsBeginning
  <2> QED BY CapTyped, PiecesKept DEF Captured, ReadFrom
<1> QED BY <1>1, DrainedInit, DrainedStep, CapturedInit, CapturedStep, PTL DEF Spec
-----------------------------------------------------------------------------
\* A text is made of what was kept, so it is the child's but for a character cut at
\* its end, and it is within the caps.
LEMMA TextRight ==
  ASSUME Captured, NEW s \in Streams
  PROVE  /\ Text(s) \in Seq(Chars)
         /\ Faithful(Text(s), ChildsText(s))
         /\ SizeOf(Text(s)) <= 3 * Cap[s] /\ Newlines(Text(s)) < MaxLines
<1> DEFINE b == WrittenTo(s)
           h == head[s]
           d == Decode(h)
           e == Decode(b)
           t == FirstLines(Lines(d), MaxLines)
<1>1. /\ b \in Seq(Bytes) /\ h \in Seq(Bytes) /\ Begins(h, b)
      /\ Len(h) <= Cap[s] /\ Cap[s] \in Nat /\ Len(h) \in Nat
  <2>1. Pieces(b, pipe[s], h, Cap[s]) /\ Cap[s] \in Nat
    BY CapTyped DEF Captured
  <2> HIDE DEF b, h
  <2> QED BY <2>1, LenProperties DEF Pieces, Begins
<1> HIDE DEF b
<1>2. Text(s) = t
  <2>1. Prefix(h, Cap[s]) = h
    BY <1>1, PrefixRight
  <2> QED BY <2>1 DEF Text, BoundedText
<1> HIDE DEF h
<1>3. d \in Seq(Chars) /\ Len(d) <= Len(h) /\ Len(d) \in Nat
  BY <1>1, DecodeRight, LenProperties
<1>4. e \in Seq(Chars) /\ NearlyBegins(d, e)
  BY <1>1, DecodeBeginning, DecodeRight
<1> HIDE DEF d, e
<1>5. /\ Lines(d) \in Seq(Chars) /\ Len(Lines(d)) <= Len(d) /\ Len(Lines(d)) \in Nat
      /\ Lines(e) \in Seq(Chars)
  BY <1>3, <1>4, LinesRight, LenProperties
<1>6. /\ t \in Seq(Chars) /\ Begins(t, Lines(d)) /\ Newlines(t) < MaxLines
      /\ Len(t) > 0 => t[Len(t)] \notin White
  BY <1>5, CapsAssumption, FirstLinesRight
<1> HIDE DEF t
<1>7. Len(t) \in Nat /\ Len(t) <= Len(Lines(d))
  BY <1>6, LenProperties DEF Begins
<1>8. SizeOf(t) <= 3 * Cap[s]
  <2>1. SizeOf(t) <= 3 * Len(t) /\ SizeOf(t) \in Nat
    BY <1>6, BeginsReflexive, SizeRises
  <2> QED BY <1>1, <1>3, <1>5, <1>7, <2>1
<1>9. Cut(t, Lines(e))
  BY <1>3, <1>4, <1>6, CutRight
<1>10. Faithful(t, Lines(e))
  <2>1. CASE Begins(t, Lines(e))
    BY <1>5, <1>6, <2>1, BeginsIsPrefix DEF Faithful
  <2>2. CASE /\ Len(t) > 0 /\ t[Len(t)] = "bad"
             /\ Begins(SubSeq(t, 1, Len(t) - 1), Lines(e))
    <3> DEFINE f == SubSeq(t, 1, Len(t) - 1)
    <3>1. t # <<>> /\ Last(t) = "bad" /\ Front(t) = f
      BY <2>2, EmptySeq DEF Last, Front
    <3>2. Len(t) - 1 \in Nat /\ \A i \in 1..Len(t) - 1 : t[i] \in Chars
      BY <1>6, <1>7, <2>2, ElementOfSeq
    <3>3. f \in Seq(Chars)
      BY <3>2, SubSeqProperties
    <3> HIDE DEF f
    <3>4. IsPrefix(f, Lines(e))
      BY <1>5, <2>2, <3>3, BeginsIsPrefix DEF f
    <3> QED BY <3>1, <3>4 DEF Faithful
  <2> QED BY <1>9, <2>1, <2>2 DEF Cut
<1> QED BY <1>2, <1>6, <1>8, <1>10 DEF ChildsText, b, e

\* The answer is made of the texts, once nobody reads any more, and stays as it is.
Answered ==
  /\ answer # NoAnswer =>
       /\ \A s \in Streams : reader[s] = "ended"
       /\ answer.stdout = Text("out") /\ answer.stderr = Text("err")
       /\ answer.evidence = Truncate(Text("out"), EvidenceMax)
  /\ row # NoAnswer =>
       answer # NoAnswer /\ row.evidence_head = Prefix(answer.evidence, HeadChars)

LEMMA AnsweredStep ==
  ASSUME Answered, Drained, [Next]_vars
  PROVE  Answered'
<1>1. ASSUME UNCHANGED <<reader, head, answer, row>>
      PROVE  Answered'
  BY <1>1 DEF Answered, Text, Cap
<1>2. CASE Write
  BY <1>1, <1>2 DEF Write
<1>3. CASE Exit
  BY <1>1, <1>3 DEF Exit
<1>4. ASSUME NEW s \in Streams, Read(s)
      PROVE  Answered'
  BY <1>4 DEF Answered, Read
<1>5. ASSUME NEW s \in Streams, ReadEof(s)
      PROVE  Answered'
  BY <1>5 DEF Answered, ReadEof
<1>6. CASE Conclude
  <2>1. UNCHANGED <<reader, head, row>> /\ row = NoAnswer
    BY <1>6 DEF Answered, Conclude
  <2>2. \A s \in Streams : Text(s)' = Text(s)
    BY <2>1 DEF Text, Cap
  <2>3. /\ \A s \in Streams : reader[s] = "ended"
        /\ answer'.stdout = Text("out") /\ answer'.stderr = Text("err")
        /\ answer'.evidence = Truncate(Text("out"), EvidenceMax)
    BY <1>6 DEF Conclude
  <2> QED BY <2>1, <2>2, <2>3 DEF Answered, Streams
<1>7. CASE Summarise
  <2>1. UNCHANGED <<reader, head, answer>> /\ answer # NoAnswer
    BY <1>7 DEF Summarise
  <2>2. \A s \in Streams : Text(s)' = Text(s)
    BY <2>1 DEF Text, Cap
  <2>3. row'.evidence_head = Prefix(answer.evidence, HeadChars)
    BY <1>7 DEF Summarise
  <2> QED BY <2>1, <2>2, <2>3 DEF Answered, Streams
<1>8. CASE UNCHANGED vars
  BY <1>1, <1>8 DEF vars
<1> QED BY <1>2, <1>3, <1>4, <1>5, <1>6, <1>7, <1>8 DEF Next

LEMMA AnswersFollow ==
  /\ Init => Drained /\ Captured /\ Answered
  /\ Drained /\ Captured /\ Answered /\ [Next]_vars => (Drained /\ Captured /\ Answered)'
<1>1. Init => Answered
  BY DEF Init, Answered
<1> QED BY <1>1, DrainedInit, DrainedStep, CapturedInit, CapturedStep, AnsweredStep

\* The text a client gets of each pipe is the beginning of the child's, line by
\* line, but for one replacement character where the byte cap cut; the evidence is
\* a beginning of the text of stdout, cut only when that would not fit
\* (bounded_text, truncate_text).
THEOREM TextSafety == Spec => []TextIsFaithful
<1>1. ASSUME Captured, Answered, answer # NoAnswer
      PROVE  TextIsFaithful
  <2>1. answer.stdout = Text("out") /\ answer.stderr = Text("err")
        /\ answer.evidence = Truncate(Text("out"), EvidenceMax)
    BY <1>1 DEF Answered
  <2>2. /\ Text("out") \in Seq(Chars)
        /\ Faithful(Text("out"), ChildsText("out"))
        /\ Faithful(Text("err"), ChildsText("err"))
    BY <1>1, TextRight DEF Streams
  <2>3. /\ IsPrefix(Characters(answer.evidence), answer.stdout)
        /\ answer.evidence # answer.stdout => SizeOf(answer.stdout) > EvidenceMax
    BY <2>1, <2>2, CapsAssumption, EvidenceRight
  <2> QED BY <2>1, <2>2, <2>3 DEF TextIsFaithful
<1>2. Captured /\ Answered => TextIsFaithful
  BY <1>1 DEF TextIsFaithful
<1> QED BY <1>2, AnswersFollow, PTL DEF Spec

\* Whatever a child prints, what reaches the client and the journal is bounded:
\* three bytes per byte kept, fewer newlines than lines, the evidence within its
\* limit and an ellipsis (bounded_text, truncate_text, evidence_head).
THEOREM AnswerBounds == Spec => []AnswerIsBounded
<1>1. ASSUME Captured, Answered, answer # NoAnswer
      PROVE  AnswerIsBounded
  <2>1. answer.stdout = Text("out") /\ answer.stderr = Text("err")
        /\ answer.evidence = Truncate(Text("out"), EvidenceMax)
    BY <1>1 DEF Answered
  <2>2. /\ Text("out") \in Seq(Chars)
        /\ SizeOf(Text("out")) <= 3 * MaxStdout /\ Newlines(Text("out")) < MaxLines
        /\ SizeOf(Text("err")) <= 3 * MaxStderr /\ Newlines(Text("err")) < MaxLines
    <3>1. Cap["out"] = MaxStdout /\ Cap["err"] = MaxStderr
      BY DEF Cap
    <3> QED BY <1>1, <3>1, TextRight DEF Streams
  <2>3. /\ SizeOf(answer.evidence) <= EvidenceMax + 3
        /\ answer.evidence \in Seq(Chars \cup {"dots"})
    BY <2>1, <2>2, CapsAssumption, EvidenceRight
  <2>4. ASSUME row # NoAnswer PROVE Len(row.evidence_head) <= HeadChars
    <3>1. row.evidence_head = Prefix(answer.evidence, HeadChars)
      BY <1>1, <2>4 DEF Answered
    <3>2. Len(row.evidence_head) =
            (IF HeadChars < Len(answer.evidence) THEN HeadChars ELSE Len(answer.evidence))
      BY <2>3, <3>1, CapsAssumption, PrefixRight
    <3>3. Len(answer.evidence) \in Nat /\ HeadChars \in Nat
      BY <2>3, CapsAssumption, LenProperties
    <3> QED BY <3>2, <3>3
  <2>5. Width.dots = 3
    BY DEF Width
  <2> QED BY <2>1, <2>2, <2>3, <2>4, <2>5 DEF AnswerIsBounded
<1>2. Captured /\ Answered => AnswerIsBounded
  BY <1>1 DEF AnswerIsBounded
<1> QED BY <1>2, AnswersFollow, PTL DEF Spec

-----------------------------------------------------------------------------
(* Every day since the epoch gets its date, and every second its timestamp. *)
(* Each division by a constant is replaced by the two inequalities that     *)
(* define it, which leaves linear arithmetic.                               *)

\* The day of the era gives a year of the era and a day of that year, the
\* 366th only in a year that ends with a leap day (civil_from_days).
LEMMA YearOfEraRight ==
  ASSUME NEW doe \in Nat, doe <= 146096
  PROVE  /\ YearOfEra(doe) \in Nat /\ YearOfEra(doe) <= 399
         /\ DayOfYear(doe, YearOfEra(doe)) \in Nat
         /\ DayOfYear(doe, YearOfEra(doe)) <= 365
         /\ DayOfYear(doe, YearOfEra(doe)) = 365 =>
              /\ (YearOfEra(doe) + 1) % 4 = 0
              /\ (YearOfEra(doe) + 1) % 100 # 0 \/ YearOfEra(doe) = 399
<1> DEFINE a == doe \div 1460
           b == doe \div 36524
           c == doe \div 146096
           yoe == (doe - a + b - c) \div 365
           e == yoe \div 4
           f == yoe \div 100
<1>1. /\ a \in Int /\ 1460 * a <= doe /\ doe < 1460 * a + 1460
      /\ b \in Int /\ 36524 * b <= doe /\ doe < 36524 * b + 36524
      /\ c \in Int /\ 146096 * c <= doe /\ doe < 146096 * c + 146096
  OBVIOUS
<1> HIDE DEF a, b, c
<1>2. /\ yoe \in Int
      /\ 365 * yoe <= doe - a + b - c /\ doe - a + b - c < 365 * yoe + 365
  BY <1>1
<1> HIDE DEF yoe
<1>3. /\ e \in Int /\ 4 * e <= yoe /\ yoe < 4 * e + 4
      /\ f \in Int /\ 100 * f <= yoe /\ yoe < 100 * f + 100
  BY <1>2
<1> HIDE DEF e, f
<1>4. /\ yoe \in Nat /\ yoe <= 399
      /\ doe - (365 * yoe + e - f) \in Nat
      /\ doe - (365 * yoe + e - f) <= 365
      /\ doe - (365 * yoe + e - f) = 365 =>
           yoe = 4 * e + 3 /\ (yoe = 100 * f + 99 => yoe = 399)
  BY <1>1, <1>2, <1>3, SMTT(60)
<1>5. /\ yoe = 4 * e + 3 => (yoe + 1) % 4 = 0
      /\ yoe # 100 * f + 99 => (yoe + 1) % 100 # 0
  BY <1>2, <1>3
<1>6. /\ YearOfEra(doe) = yoe
      /\ DayOfYear(doe, YearOfEra(doe)) = doe - (365 * yoe + e - f)
  BY DEF YearOfEra, DayOfYear, yoe, a, b, c, e, f
<1> QED BY <1>4, <1>5, <1>6

\* Months counted from March: the month, the day of the month, and the days of
\* the civil year before it (civil_from_days).
LEMMA MonthRight ==
  ASSUME NEW doy \in Nat, doy <= 365,
         NEW mp \in Int, mp = (5 * doy + 2) \div 153,
         NEW d \in Int, d = doy - (153 * mp + 2) \div 5 + 1
  PROVE  /\ mp \in 0..11
         /\ d \in 1..31
         /\ Month(mp) \in {4, 6, 9, 11} => d <= 30
         /\ Month(mp) = 2 => d <= 29 /\ (d = 29 => doy = 365)
         /\ DaysBeforeMonth[Month(mp)] + d - 1 = IF mp < 10 THEN doy + 59 ELSE doy - 306
<1> DEFINE g == (153 * mp + 2) \div 5
<1>1. 153 * mp <= 5 * doy + 2 /\ 5 * doy + 2 < 153 * mp + 153
  OBVIOUS
<1>2. /\ g \in Int /\ d = doy - g + 1
      /\ 5 * g <= 153 * mp + 2 /\ 153 * mp + 2 < 5 * g + 5
  OBVIOUS
<1> HIDE DEF g
<1>3. mp \in 0..11
  BY <1>1
<1>4. d \in 1..31
  BY <1>1, <1>2, <1>3
<1>5. Month(mp) \in {4, 6, 9, 11} => d <= 30
  BY <1>1, <1>2, <1>3 DEF Month
<1>6. Month(mp) = 2 => d <= 29 /\ (d = 29 => doy = 365)
  BY <1>1, <1>2, <1>3 DEF Month
<1>7. DaysBeforeMonth[Month(mp)] + d - 1 = IF mp < 10 THEN doy + 59 ELSE doy - 306
  BY <1>1, <1>2, <1>3 DEF Month, DaysBeforeMonth
<1> QED BY <1>3, <1>4, <1>5, <1>6, <1>7

\* Counted to its end, a year takes in its leap day.
LEMMA NextYear ==
  ASSUME NEW y \in Int
  PROVE  DaysBeforeYear(y + 1) = DaysBeforeYear(y) + 365 + (IF Leap(y) THEN 1 ELSE 0)
<1>1. /\ y \div 4 = (y - 1) \div 4 + (IF y % 4 = 0 THEN 1 ELSE 0)
      /\ y \div 100 = (y - 1) \div 100 + (IF y % 100 = 0 THEN 1 ELSE 0)
      /\ y \div 400 = (y - 1) \div 400 + (IF y % 400 = 0 THEN 1 ELSE 0)
  OBVIOUS
<1>2. /\ y % 400 = 0 => y % 100 = 0
      /\ y % 100 = 0 => y % 4 = 0
  OBVIOUS
<1>3. (y + 1) - 1 = y
  OBVIOUS
<1>4. DaysBeforeYear(y + 1) =
        365 * (y + 1 - 1970) + (y \div 4 - y \div 100 + y \div 400) - 477
  BY <1>3 DEF DaysBeforeYear
<1>5. /\ (y - 1) \div 4 \in Int /\ (y - 1) \div 100 \in Int /\ (y - 1) \div 400 \in Int
      /\ y \div 4 \in Int /\ y \div 100 \in Int /\ y \div 400 \in Int
  OBVIOUS
<1> QED BY <1>1, <1>2, <1>4, <1>5 DEF DaysBeforeYear, Leap

\* Every day since the epoch is printed as the date it is: leap days, ends of
\* centuries and ends of eras included (civil_from_days).
THEOREM EveryDayRight ==
  ASSUME NEW days \in Nat
  PROVE  RightDate(days)
<1> DEFINE z == days + 719468
           era == z \div DaysPerEra
           doe == z - era * DaysPerEra
           yoe == YearOfEra(doe)
           doy == DayOfYear(doe, yoe)
           mp == (5 * doy + 2) \div 153
           d == doy - (153 * mp + 2) \div 5 + 1
           y0 == yoe + 400 * era
           date == Civil(era, yoe, mp, d)
<1>1. /\ era \in Int /\ doe \in Nat /\ doe <= 146096
      /\ days = DaysPerEra * era + doe - 719468
  BY DEF DaysPerEra
<1>2. CivilFromDays(days) = date
  BY DEF CivilFromDays
<1> HIDE DEF era, doe
<1>3. /\ yoe \in Nat /\ yoe <= 399 /\ doy \in Nat /\ doy <= 365
      /\ doy = 365 => (yoe + 1) % 4 = 0 /\ ((yoe + 1) % 100 # 0 \/ yoe = 399)
  BY <1>1, YearOfEraRight
<1>4. doe = doy + 365 * yoe + yoe \div 4 - yoe \div 100
  BY <1>1, <1>3 DEF DayOfYear
<1> HIDE DEF yoe, doy
<1>5. /\ mp \in Int /\ d \in Int
  BY <1>3
<1>6. /\ mp \in 0..11 /\ d \in 1..31
      /\ Month(mp) \in {4, 6, 9, 11} => d <= 30
      /\ Month(mp) = 2 => d <= 29 /\ (d = 29 => doy = 365)
      /\ DaysBeforeMonth[Month(mp)] + d - 1 = IF mp < 10 THEN doy + 59 ELSE doy - 306
  BY <1>3, <1>5, MonthRight
<1> HIDE DEF mp, d
\* The calendar repeats every era.
<1>7. /\ y0 \in Int
      /\ y0 \div 4 = yoe \div 4 + 100 * era
      /\ y0 \div 100 = yoe \div 100 + 4 * era
      /\ y0 \div 400 = era
  <2>1. y0 \in Int
    BY <1>1, <1>3
  <2>2. y0 \div 4 = yoe \div 4 + 100 * era
    BY <1>1, <1>3
  <2>3. y0 \div 100 = yoe \div 100 + 4 * era
    BY <1>1, <1>3
  <2>4. y0 \div 400 = era
    BY <1>1, <1>3
  <2> QED BY <2>1, <2>2, <2>3, <2>4
<1>8. doy = 365 => Leap(y0 + 1)
  <2> SUFFICES ASSUME doy = 365 PROVE Leap(y0 + 1)
    OBVIOUS
  <2>1. (y0 + 1) % 4 = (yoe + 1) % 4 /\ (y0 + 1) % 100 = (yoe + 1) % 100
    BY <1>1, <1>3
  <2>2. yoe = 399 => (y0 + 1) % 400 = 0
    BY <1>1
  <2> QED BY <1>3, <2>1, <2>2 DEF Leap
\* Days to the first of March, and days from the first of January after it.
<1>9. DaysBeforeYear(y0 + 1) + doy - 306 = days
  <2>1. (y0 + 1) - 1 = y0
    BY <1>7
  <2>2. yoe \div 4 \in Int /\ yoe \div 100 \in Int
    BY <1>3
  <2>3. y0 = yoe + 400 * era
    OBVIOUS
  <2> HIDE DEF y0
  <2>4. DaysBeforeYear(y0 + 1) =
          365 * (y0 + 1 - 1970) + (y0 \div 4 - y0 \div 100 + y0 \div 400) - 477
    BY <1>7, <2>1 DEF DaysBeforeYear
  <2> QED BY <1>1, <1>3, <1>4, <1>7, <2>2, <2>3, <2>4 DEF DaysPerEra
<1> HIDE DEF y0
<1>10. /\ date.m = Month(mp) /\ date.d = d
       /\ date.y = IF mp < 10 THEN y0 ELSE y0 + 1
  BY <1>1, <1>3, <1>6 DEF Civil, Month, y0
<1>11. Month(mp) \in 1..12 /\ (mp < 10 <=> Month(mp) > 2)
  BY <1>6 DEF Month
<1> HIDE DEF date
<1>12. ValidDate(date)
  <2>1. date.m = 2 /\ date.d = 29 => Leap(date.y)
    BY <1>6, <1>8, <1>10, <1>11
  <2>2. date.d \in 1..DaysIn(date.y, date.m)
    BY <1>6, <1>10, <2>1 DEF DaysIn
  <2> QED BY <1>7, <1>10, <1>11, <2>2 DEF ValidDate
<1>13. DayNumber(date) = days
  <2>1. CASE mp < 10
    <3>1. DayNumber(date) =
            DaysBeforeYear(y0) + (doy + 59) + (IF Leap(y0) THEN 1 ELSE 0)
      <4>1. date.m > 2
        BY <1>10, <1>11, <2>1
      <4>2. DaysBeforeMonth[date.m] + (date.d - 1) = doy + 59
        BY <1>6, <1>10, <1>11, <2>1 DEF DaysBeforeMonth
      <4>3. DaysBeforeYear(y0) \in Int /\ DaysBeforeMonth[date.m] \in Int /\ date.d \in Int
        BY <1>6, <1>7, <1>10, <1>11 DEF DaysBeforeYear, DaysBeforeMonth
      <4> QED BY <1>3, <1>10, <2>1, <4>1, <4>2, <4>3 DEF DayNumber
    <3>2. DaysBeforeYear(y0) \in Int
      BY <1>7 DEF DaysBeforeYear
    <3> QED BY <1>3, <1>7, <1>9, <3>1, <3>2, NextYear
  <2>2. CASE ~(mp < 10)
    <3>1. date.m <= 2 /\ date.y = y0 + 1
      BY <1>10, <1>11, <2>2
    <3>2. DaysBeforeMonth[date.m] + (date.d - 1) = doy - 306
      BY <1>6, <1>10, <1>11, <2>2 DEF DaysBeforeMonth
    <3>3. DaysBeforeYear(y0 + 1) \in Int /\ DaysBeforeMonth[date.m] \in Int /\ date.d \in Int
      BY <1>6, <1>7, <1>10, <1>11 DEF DaysBeforeYear, DaysBeforeMonth
    <3> QED BY <1>3, <1>9, <1>10, <1>11, <3>1, <3>2, <3>3 DEF DayNumber
  <2> QED BY <2>1, <2>2
<1> QED BY <1>2, <1>12, <1>13 DEF RightDate

\* Every second since the epoch is printed as the instant it is
\* (iso8601_from_secs).
THEOREM EveryStampRight ==
  ASSUME NEW secs \in Nat
  PROVE  RightStamp(secs)
<1> DEFINE days == secs \div SecsPerDay
           tod == secs % SecsPerDay
           h == tod \div 3600
           rest == tod % 3600
           mi == rest \div 60
           sec == tod % 60
           date == CivilFromDays(days)
<1>1. /\ days \in Nat /\ tod \in Nat /\ tod < 86400
      /\ secs = 86400 * days + tod
  BY DEF SecsPerDay
<1> HIDE DEF days, tod
<1>2. /\ h \in 0..23 /\ rest \in Nat /\ rest < 3600
      /\ tod = 3600 * h + rest
  BY <1>1
<1>3. sec = rest % 60
  BY <1>1
<1> HIDE DEF h, rest
<1>4. mi \in 0..59 /\ sec \in 0..59 /\ rest = 60 * mi + sec
  BY <1>2, <1>3
<1> HIDE DEF mi, sec, date
<1>5. ValidDate(date) /\ DayNumber(date) = days
  BY <1>1, EveryDayRight DEF RightDate, date
<1>6. Iso8601FromSecs(secs) = [date |-> date, h |-> h, mi |-> mi, s |-> sec]
  BY DEF Iso8601FromSecs, date, days, tod, h, mi, sec, rest
<1> DEFINE t == Iso8601FromSecs(secs)
<1>7. t.date = date /\ t.h = h /\ t.mi = mi /\ t.s = sec
  BY <1>6
<1> HIDE DEF t
<1>8. Instant(t) = secs
  BY <1>1, <1>2, <1>4, <1>5, <1>7 DEF SecsPerDay, Instant
<1> QED BY <1>2, <1>4, <1>5, <1>7, <1>8 DEF RightStamp, ValidStamp, t

\* The row keeps the clock it was stamped with.
Stamped == row # NoAnswer => clock \in Nat /\ row.ts = Iso8601FromSecs(clock)

LEMMA StampedStep ==
  ASSUME Stamped, [Next]_vars
  PROVE  Stamped'
<1>1. CASE Summarise
  BY <1>1, ClocksAssumption DEF Stamped, Summarise
<1>2. CASE UNCHANGED <<row, clock>>
  BY <1>2 DEF Stamped
<1> QED BY <1>1, <1>2 DEF Next, vars, Write, Exit, Read, ReadEof, Conclude

\* Every row is stamped with a date and time of the calendar, the ones of the
\* moment it was made, on every day from the epoch on (iso8601_from_secs).
THEOREM StampSafety == Spec => []StampIsNow
<1>1. Init => Stamped
  BY DEF Init, Stamped
<1>2. Stamped => StampIsNow
  <2> SUFFICES ASSUME Stamped, row # NoAnswer
               PROVE  ValidStamp(row.ts) /\ Instant(row.ts) = clock
    BY DEF StampIsNow
  <2> QED BY EveryStampRight DEF Stamped, RightStamp
<1> QED BY <1>1, <1>2, StampedStep, PTL DEF Spec
=============================================================================
