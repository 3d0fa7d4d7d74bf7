---------------------------- MODULE SharedLemmas ----------------------------
(* Lemmas about lines of waiters and about the accounts of a pool of slots, *)
(* used wherever calls queue for the journal's mutex or for a command slot, *)
(* and about the elements chosen from a sequence, used wherever whole rows, *)
(* one pipe's bytes or characters are picked out of a longer sequence.      *)
EXTENDS Selection, Integers, Sequences, SequencesExt, FiniteSetTheorems, SequenceTheorems, TLAPS

(* A line: nobody stands in it twice.                                       *)
IsLine(q, S) == q \in Seq(S) /\ \A i, j \in 1..Len(q) : q[i] = q[j] => i = j

InLine(q) == {q[i] : i \in 1..Len(q)}

(* A newcomer joins the end.                                                *)
LEMMA LineAppended ==
  ASSUME NEW S, NEW q, IsLine(q, S), NEW x \in S, x \notin InLine(q)
  PROVE  /\ IsLine(Append(q, x), S)
         /\ InLine(Append(q, x)) = InLine(q) \cup {x}
         /\ Append(q, x) # <<>>
         /\ q # <<>> => Head(Append(q, x)) = Head(q)
<1> DEFINE p == Append(q, x)
<1>1. /\ p \in Seq(S) /\ p # <<>> /\ Len(q) \in Nat /\ Len(p) = Len(q) + 1
      /\ \A i \in 1..Len(q) : p[i] = q[i]
      /\ p[Len(q) + 1] = x
  BY AppendProperties, LenProperties DEF IsLine
<1>2. q # <<>> => Head(p) = Head(q)
  BY HeadTailAppend DEF IsLine
<1> HIDE DEF p
<1>3. \A i \in 1..Len(p) : i \in 1..Len(q) \/ i = Len(q) + 1
  BY <1>1
<1>4. 1..Len(q) \subseteq 1..Len(p) /\ Len(q) + 1 \in 1..Len(p)
  BY <1>1
<1>5. ASSUME NEW i \in 1..Len(p), NEW j \in 1..Len(p), p[i] = p[j]
      PROVE  i = j
  BY <1>1, <1>3, <1>5 DEF IsLine, InLine
<1>6. ASSUME NEW i \in 1..Len(p) PROVE p[i] \in InLine(q) \cup {x}
  BY <1>1, <1>3 DEF InLine
<1>7. ASSUME NEW y \in InLine(q) \cup {x} PROVE y \in InLine(p)
  BY <1>1, <1>4 DEF InLine
<1>8. InLine(p) = InLine(q) \cup {x}
  BY <1>6, <1>7 DEF InLine
<1> QED BY <1>1, <1>2, <1>5, <1>8 DEF IsLine, p

(* A sequence without its i-th element.                                     *)
LEMMA RemoveAtProperties ==
  ASSUME NEW S, NEW s \in Seq(S), NEW i \in 1..Len(s)
  PROVE  /\ RemoveAt(s, i) \in Seq(S)
         /\ Len(RemoveAt(s, i)) = Len(s) - 1
         /\ \A j \in 1..Len(s) - 1 :
              RemoveAt(s, i)[j] = IF j < i THEN s[j] ELSE s[j + 1]
<1> DEFINE a == SubSeq(s, 1, i - 1)
           b == SubSeq(s, i + 1, Len(s))
<1>1. /\ a \in Seq(S)
      /\ Len(a) = i - 1
      /\ \A j \in 1..i - 1 : a[j] = s[j]
  <2>1. \A j \in 1..i - 1 : s[j] \in S
    BY ElementOfSeq, LenProperties
  <2> QED BY <2>1, SubSeqProperties, LenProperties
<1>2. /\ b \in Seq(S)
      /\ Len(b) = Len(s) - i
      /\ \A j \in 1..Len(s) - i : b[j] = s[i + j]
  <2>1. \A j \in i + 1..Len(s) : s[j] \in S
    BY ElementOfSeq, LenProperties
  <2> QED BY <2>1, SubSeqProperties, LenProperties
<1>3. Len(s) \in Nat
  BY LenProperties
<1>4. RemoveAt(s, i) = a \o b
  BY DEF RemoveAt
<1> HIDE DEF a, b
<1>5. /\ a \o b \in Seq(S)
      /\ Len(a \o b) = Len(s) - 1
      /\ \A j \in 1..Len(s) - 1 :
           (a \o b)[j] = IF j <= i - 1 THEN a[j] ELSE b[j - (i - 1)]
  <2>1. /\ a \o b \in Seq(S)
        /\ Len(a \o b) = Len(a) + Len(b)
        /\ \A j \in 1..Len(a) + Len(b) :
             (a \o b)[j] = IF j <= Len(a) THEN a[j] ELSE b[j - Len(a)]
    BY <1>1, <1>2, ConcatProperties
  <2>2. Len(a) + Len(b) = Len(s) - 1
    BY <1>1, <1>2, <1>3
  <2> QED BY <2>1, <2>2, <1>1
<1>6. ASSUME NEW j \in 1..Len(s) - 1
      PROVE  (a \o b)[j] = IF j < i THEN s[j] ELSE s[j + 1]
  <2>1. CASE j < i
    <3>1. j \in 1..i - 1 /\ j <= i - 1
      BY <2>1, <1>3
    <3> QED BY <2>1, <3>1, <1>1, <1>5
  <2>2. CASE j >= i
    <3>1. /\ j - (i - 1) \in 1..Len(s) - i
          /\ i + (j - (i - 1)) = j + 1
          /\ ~(j < i) /\ ~(j <= i - 1)
      BY <2>2, <1>3
    <3>2. (a \o b)[j] = b[j - (i - 1)]
      BY <3>1, <1>5
    <3>3. b[j - (i - 1)] = s[i + (j - (i - 1))]
      BY <3>1, <1>2
    <3> QED BY <3>1, <3>2, <3>3
  <2>3. j < i \/ j >= i
    BY <1>3
  <2> QED BY <2>1, <2>2, <2>3
<1> QED BY <1>4, <1>5, <1>6

(* Whoever gives up leaves the middle of the line.                          *)
LEMMA LineRemoved ==
  ASSUME NEW S, NEW q, IsLine(q, S), NEW n \in 1..Len(q)
  PROVE  /\ IsLine(RemoveAt(q, n), S)
         /\ InLine(RemoveAt(q, n)) = InLine(q) \ {q[n]}
<1> DEFINE p == RemoveAt(q, n)
           At(j) == IF j < n THEN j ELSE j + 1
<1>1. /\ p \in Seq(S) /\ Len(q) \in Nat /\ Len(p) = Len(q) - 1
      /\ \A j \in 1..Len(p) : p[j] = IF j < n THEN q[j] ELSE q[j + 1]
  BY RemoveAtProperties, LenProperties DEF IsLine
<1> HIDE DEF p
<1>2. \A j \in 1..Len(p) : At(j) \in 1..Len(q) /\ At(j) # n /\ p[j] = q[At(j)]
  BY <1>1
<1>3. ASSUME NEW i \in 1..Len(q), i # n
      PROVE  \E j \in 1..Len(p) : At(j) = i
  <2>1. CASE i < n
    <3>1. i \in 1..Len(p) /\ At(i) = i
      BY <2>1, <1>1
    <3> QED BY <3>1
  <2>2. CASE i > n
    <3>1. i - 1 \in 1..Len(p) /\ At(i - 1) = i
      BY <2>2, <1>1
    <3> QED BY <3>1
  <2> QED BY <2>1, <2>2, <1>1, <1>3
<1>4. \A i, j \in 1..Len(p) : At(i) = At(j) => i = j
  BY <1>1
<1> HIDE DEF At
<1>5. ASSUME NEW i \in 1..Len(p) PROVE p[i] \in InLine(q) \ {q[n]}
  BY <1>2 DEF IsLine, InLine
<1>6. ASSUME NEW x \in InLine(q) \ {q[n]} PROVE x \in InLine(p)
  <2>1. PICK i \in 1..Len(q) : x = q[i]
    BY DEF InLine
  <2>2. i # n
    BY <2>1
  <2> QED BY <2>1, <2>2, <1>2, <1>3 DEF InLine
<1>7. InLine(p) = InLine(q) \ {q[n]}
  BY <1>5, <1>6 DEF InLine
<1>8. \A i, j \in 1..Len(p) : p[i] = p[j] => i = j
  BY <1>2, <1>4 DEF IsLine
<1> QED BY <1>1, <1>7, <1>8 DEF IsLine, p

(* The head of the line is served.                                          *)
LEMMA LineTail ==
  ASSUME NEW S, NEW q, IsLine(q, S), q # <<>>
  PROVE  /\ IsLine(Tail(q), S)
         /\ Head(q) \in S /\ Head(q) \in InLine(q)
         /\ InLine(Tail(q)) = InLine(q) \ {Head(q)}
<1> DEFINE p == Tail(q)
<1>1. /\ p \in Seq(S) /\ Len(q) \in Nat \ {0} /\ Len(p) = Len(q) - 1
      /\ \A i \in 1..Len(p) : p[i] = q[i + 1]
      /\ Head(q) = q[1] /\ Head(q) \in S
  BY HeadTailProperties, EmptySeq, LenProperties DEF IsLine
<1> HIDE DEF p
<1>2. 1 \in 1..Len(q) /\ \A i \in 1..Len(p) : i + 1 \in 1..Len(q) /\ i + 1 # 1
  BY <1>1
<1>3. \A i \in 1..Len(q) : i # 1 => i - 1 \in 1..Len(p) /\ (i - 1) + 1 = i
  BY <1>1
<1>4. ASSUME NEW i \in 1..Len(p) PROVE p[i] \in InLine(q) \ {Head(q)}
  <2>1. q[i + 1] # q[1]
    BY <1>2 DEF IsLine
  <2> QED BY <2>1, <1>1, <1>2 DEF InLine
<1>5. ASSUME NEW x \in InLine(q) \ {Head(q)} PROVE x \in InLine(p)
  <2>1. PICK i \in 1..Len(q) : x = q[i]
    BY DEF InLine
  <2>2. i # 1
    BY <2>1, <1>1
  <2> QED BY <2>1, <2>2, <1>1, <1>3 DEF InLine
<1>6. InLine(p) = InLine(q) \ {Head(q)}
  BY <1>4, <1>5 DEF InLine
<1>7. ASSUME NEW i \in 1..Len(p), NEW j \in 1..Len(p), p[i] = p[j]
      PROVE  i = j
  <2>1. i + 1 = j + 1
    BY <1>1, <1>2, <1>7 DEF IsLine
  <2> QED BY <2>1
<1>8. Head(q) \in InLine(q)
  BY <1>1, <1>2 DEF InLine
<1> QED BY <1>1, <1>6, <1>7, <1>8 DEF IsLine, p

-----------------------------------------------------------------------------
(* The accounts of total slots, of which free ones are neither held by a    *)
(* member of H nor kept from the waiters W, who stand in the line q.  That  *)
(* no slot is lost is not inductive alone: handing a slot to the head of    *)
(* the line is a mere swap of holders because the line lists exactly the    *)
(* waiters, each once.                                                      *)
Accounts(q, W, H, free, total, S) ==
  /\ IsLine(q, S) /\ InLine(q) = W
  /\ W \cap H = {}
  /\ IsFiniteSet(H)
  /\ free \in Nat /\ free + Cardinality(H) = total
  /\ q # <<>> => free = 0

(* A free slot is taken.                                                    *)
LEMMA SlotTaken ==
  ASSUME NEW S, NEW q, NEW W, NEW H, NEW free, NEW total \in Nat,
         Accounts(q, W, H, free, total, S), free > 0, NEW c \in S, c \notin W, c \notin H
  PROVE  Accounts(q, W, H \cup {c}, free - 1, total, S)
<1>1. /\ IsFiniteSet(H \cup {c}) /\ Cardinality(H \cup {c}) = Cardinality(H) + 1
      /\ Cardinality(H) \in Nat
  BY FS_AddElement, FS_CardinalityType DEF Accounts
<1>2. q = <<>> /\ free - 1 \in Nat
  BY DEF Accounts
<1> QED BY <1>1, <1>2 DEF Accounts

(* No slot is free: the newcomer waits.                                     *)
LEMMA SlotAwaited ==
  ASSUME NEW S, NEW q, NEW W, NEW H, NEW free, NEW total,
         Accounts(q, W, H, free, total, S), free = 0, NEW c \in S, c \notin W, c \notin H
  PROVE  Accounts(Append(q, c), W \cup {c}, H, free, total, S)
BY LineAppended DEF Accounts

(* A waiter gives up.                                                       *)
LEMMA SlotForgone ==
  ASSUME NEW S, NEW q, NEW W, NEW H, NEW free, NEW total,
         Accounts(q, W, H, free, total, S), NEW i \in 1..Len(q)
  PROVE  Accounts(RemoveAt(q, i), W \ {q[i]}, H, free, total, S)
<1>1. q # <<>>
  BY EmptySeq, LenProperties DEF Accounts, IsLine
<1> QED BY <1>1, LineRemoved DEF Accounts

(* A slot nobody waits for becomes free.                                    *)
LEMMA SlotFreed ==
  ASSUME NEW S, NEW q, NEW W, NEW H, NEW free, NEW total \in Nat,
         Accounts(q, W, H, free, total, S), q = <<>>, NEW c \in H
  PROVE  Accounts(q, W, H \ {c}, free + 1, total, S)
<1>1. /\ IsFiniteSet(H \ {c}) /\ Cardinality(H \ {c}) = Cardinality(H) - 1
      /\ Cardinality(H) \in Nat
  BY FS_RemoveElement, FS_CardinalityType DEF Accounts
<1> QED BY <1>1 DEF Accounts

(* A slot is handed to the head of the line.                                *)
LEMMA SlotHandedOver ==
  ASSUME NEW S, NEW q, NEW W, NEW H, NEW free, NEW total \in Nat,
         Accounts(q, W, H, free, total, S), q # <<>>, NEW c \in H
  PROVE  /\ Head(q) \in S /\ Head(q) \in W /\ Head(q) \notin H /\ Head(q) # c
         /\ Accounts(Tail(q), W \ {Head(q)}, (H \ {c}) \cup {Head(q)}, free, total, S)
<1> DEFINE h == Head(q)
           G == H \ {c}
<1>1. /\ IsLine(Tail(q), S) /\ h \in S /\ h \in W
      /\ InLine(Tail(q)) = W \ {h}
  BY LineTail DEF Accounts
<1>2. h \notin H /\ h # c
  BY <1>1 DEF Accounts
<1>3. /\ IsFiniteSet(G) /\ Cardinality(G) = Cardinality(H) - 1
      /\ Cardinality(H) \in Nat
  BY FS_RemoveElement, FS_CardinalityType DEF Accounts
<1> HIDE DEF h
<1>4. h \notin G
  BY <1>2
<1> HIDE DEF G
<1>5. IsFiniteSet(G \cup {h}) /\ Cardinality(G \cup {h}) = Cardinality(G) + 1
  BY <1>3, <1>4, FS_AddElement
<1>6. (W \ {h}) \cap (G \cup {h}) = {}
  BY DEF Accounts, G
<1>7. Accounts(Tail(q), W \ {h}, G \cup {h}, free, total, S)
  BY <1>1, <1>3, <1>5, <1>6 DEF Accounts
<1> QED BY <1>1, <1>2, <1>7 DEF h, G

(* A pool at rest.                                                          *)
LEMMA SlotsAtRest ==
  ASSUME NEW S, NEW total \in Nat
  PROVE  Accounts(<<>>, {}, {}, total, total, S)
<1>1. <<>> \in Seq(S) /\ Len(<<>>) = 0
  BY EmptySeq
<1>2. \A i \in 1..Len(<<>>) : FALSE
  BY <1>1
<1>3. InLine(<<>>) = {}
  BY <1>2 DEF InLine
<1> QED BY <1>1, <1>2, <1>3, FS_EmptySet DEF Accounts, IsLine

-----------------------------------------------------------------------------
(* Positions among the first n: a set of them is finite, each has a rank.   *)
Among(P, n) == n \in Nat /\ P \subseteq 1..n

LEMMA Positions ==
  ASSUME NEW n, NEW P, Among(P, n)
  PROVE  /\ IsFiniteSet(P) /\ Cardinality(P) \in 0..n
         /\ \A m : IsFiniteSet({j \in P : j <= m}) /\ Cardinality({j \in P : j <= m}) \in 0..Cardinality(P)
<1>1. IsFiniteSet(1..n) /\ Cardinality(1..n) = n /\ n \in Nat /\ P \in SUBSET (1..n)
  BY FS_Interval DEF Among
<1>2. IsFiniteSet(P) /\ Cardinality(P) \in Nat /\ Cardinality(P) <= n
  BY <1>1, FS_Subset, FS_CardinalityType
<1>3. ASSUME NEW m
      PROVE  IsFiniteSet({j \in P : j <= m}) /\ Cardinality({j \in P : j <= m}) \in 0..Cardinality(P)
  <2> DEFINE Q == {j \in P : j <= m}
  <2>1. Q \in SUBSET P
    OBVIOUS
  <2> HIDE DEF Q
  <2>2. IsFiniteSet(Q) /\ Cardinality(Q) \in Nat /\ Cardinality(Q) <= Cardinality(P)
    BY <1>2, <2>1, FS_Subset, FS_CardinalityType
  <2> QED BY <1>2, <2>2 DEF Q
<1> QED BY <1>2, <1>3

LEMMA RankRises ==
  ASSUME NEW n, NEW P, Among(P, n), NEW i \in P
  PROVE  /\ Rank(P, i) \in 1..Cardinality(P)
         /\ \A j \in P : i < j => Rank(P, i) < Rank(P, j)
<1> DEFINE Upto(m) == {j \in P : j <= m}
<1>1. /\ IsFiniteSet(P) /\ Cardinality(P) \in 0..n
      /\ \A m : IsFiniteSet(Upto(m)) /\ Cardinality(Upto(m)) \in 0..Cardinality(P)
  BY Positions
<1>2. \A m : Rank(P, m) = Cardinality(Upto(m))
  BY DEF Rank
<1>3. i \in Upto(i) /\ \A j \in P : j \in Nat
  BY DEF Among
<1>4. ASSUME NEW j \in P, i < j
      PROVE  Upto(i) \in SUBSET Upto(j) /\ Upto(i) # Upto(j)
  <2>1. i \in Nat /\ j \in Nat /\ \A m \in P : m \in Nat
    BY DEF Among
  <2>2. j \in Upto(j) /\ j \notin Upto(i)
    BY <1>4, <2>1
  <2>3. \A m \in P : m <= i => m <= j
    BY <1>4, <2>1
  <2>4. Upto(i) \in SUBSET Upto(j)
    BY <2>3
  <2> QED BY <2>2, <2>4
<1> HIDE DEF Upto
<1>5. Cardinality(Upto(i)) # 0
  BY <1>1, <1>3, FS_EmptySet
<1>6. ASSUME NEW j \in P, i < j
      PROVE  Cardinality(Upto(i)) < Cardinality(Upto(j))
  <2>1. /\ Cardinality(Upto(i)) <= Cardinality(Upto(j))
        /\ Cardinality(Upto(i)) # Cardinality(Upto(j))
    BY <1>1, <1>4, <1>6, FS_Subset
  <2> QED BY <1>1, <2>1
<1> QED BY <1>1, <1>2, <1>5, <1>6

(* Every rank is some position's.                                           *)
LEMMA NthRight ==
  ASSUME NEW n, NEW P, Among(P, n), NEW k \in 1..Cardinality(P)
  PROVE  Nth(P, k) \in P /\ Rank(P, Nth(P, k)) = k
<1> DEFINE f == [i \in P |-> Rank(P, i)]
           T == 1..Cardinality(P)
<1>1. IsFiniteSet(P) /\ Cardinality(P) \in Nat
  BY Positions
<1>2. f \in [P -> T]
  BY RankRises
<1>3. ASSUME NEW i \in P, NEW j \in P, f[i] = f[j]
      PROVE  i = j
  <2>1. i \in Nat /\ j \in Nat
    BY DEF Among
  <2>2. Rank(P, i) = Rank(P, j) /\ Rank(P, i) \in 1..Cardinality(P)
    BY <1>3, RankRises
  <2>3. ~(Rank(P, i) < Rank(P, j)) /\ ~(Rank(P, j) < Rank(P, i))
    BY <1>1, <2>2
  <2>4. ~(i < j) /\ ~(j < i)
    BY <2>3, RankRises
  <2> QED BY <2>1, <2>4
<1>4. f \in Injection(P, T)
  BY <1>2, <1>3 DEF Injection, IsInjective
<1>5. IsFiniteSet(T) /\ Cardinality(T) = Cardinality(P)
  BY <1>1, FS_Interval
<1>6. f \in Surjection(P, T)
  BY <1>4, <1>5, FS_Injection
<1>7. \E i \in P : Rank(P, i) = k
  BY <1>6 DEF Surjection
<1> QED BY <1>7 DEF Nth, Ranked

(* The position of a rank is the only one.                                  *)
LEMMA NthOfRank ==
  ASSUME NEW n, NEW P, Among(P, n), NEW i \in P
  PROVE  Nth(P, Rank(P, i)) = i
<1> DEFINE k == Rank(P, i)
           j == Nth(P, k)
<1>1. k \in 1..Cardinality(P) /\ Cardinality(P) \in Nat
  BY RankRises, Positions
<1>2. j \in P /\ Rank(P, j) = k
  BY <1>1, NthRight
<1> HIDE DEF j
<1>3. i \in Nat /\ j \in Nat /\ k \in Nat
  BY <1>1, <1>2 DEF Among
<1>4. ~(i < j) /\ ~(j < i)
  BY <1>2, <1>3, RankRises
<1> QED BY <1>3, <1>4 DEF j

LEMMA NthRises ==
  ASSUME NEW n, NEW P, Among(P, n),
         NEW k \in 1..Cardinality(P), NEW l \in 1..Cardinality(P), k < l
  PROVE  Nth(P, k) < Nth(P, l)
<1> DEFINE i == Nth(P, k)
           j == Nth(P, l)
<1>1. /\ i \in P /\ Rank(P, i) = k /\ j \in P /\ Rank(P, j) = l
      /\ Cardinality(P) \in Nat
  BY NthRight, Positions
<1> HIDE DEF i, j
<1>2. i \in Nat /\ j \in Nat /\ k \in Nat /\ l \in Nat
  BY <1>1 DEF Among
<1>3. ~(j < i) /\ i # j
  BY <1>1, <1>2, RankRises
<1> QED BY <1>2, <1>3 DEF i, j

(* The first positions of a set are those of its beginning.                 *)
LEMMA NthOfBeginning ==
  ASSUME NEW n, NEW P, Among(P, n), NEW m \in Nat
  PROVE  /\ Cardinality(P \cap (1..m)) \in 0..Cardinality(P)
         /\ \A k \in 1..Cardinality(P \cap (1..m)) : Nth(P, k) = Nth(P \cap (1..m), k)
<1> DEFINE Q == P \cap (1..m)
<1>1. Among(Q, n) /\ Q = {j \in P : j <= m}
  <2>1. n \in Nat /\ \A j \in P : j \in 1..n
    BY DEF Among
  <2>2. \A j \in P : j \in 1..m <=> j <= m
    BY <2>1
  <2>3. Q = {j \in P : j <= m}
    BY <2>2
  <2> QED BY <2>1, <2>3 DEF Among
<1>2. Cardinality(Q) \in 0..Cardinality(P)
  BY <1>1, Positions
<1>3. ASSUME NEW i \in Q PROVE Rank(P, i) = Rank(Q, i)
  <2>1. \A j \in P : j <= i => j \in Q
    BY DEF Among
  <2>2. {j \in P : j <= i} = {j \in Q : j <= i}
    BY <2>1
  <2> QED BY <2>2 DEF Rank
<1> HIDE DEF Q
<1>4. ASSUME NEW k \in 1..Cardinality(Q) PROVE Nth(P, k) = Nth(Q, k)
  <2>1. Nth(Q, k) \in Q /\ Rank(Q, Nth(Q, k)) = k
    BY <1>1, NthRight
  <2>2. Nth(Q, k) \in P /\ Rank(P, Nth(Q, k)) = k
    BY <1>1, <1>3, <2>1
  <2> QED BY <2>2, NthOfRank
<1> QED BY <1>2, <1>4 DEF Q

(* What is chosen, element by element.                                      *)
LEMMA ChosenTyped ==
  ASSUME NEW n, NEW P, Among(P, n), NEW S, NEW s, \A i \in P : s[i] \in S
  PROVE  /\ Chosen(s, P) \in Seq(S)
         /\ Len(Chosen(s, P)) = Cardinality(P)
         /\ Cardinality(P) \in 0..n
         /\ \A k \in 1..Cardinality(P) : Chosen(s, P)[k] = s[Nth(P, k)]
<1>1. Cardinality(P) \in Nat /\ Cardinality(P) \in 0..n
  BY Positions
<1>2. Chosen(s, P) \in [1..Cardinality(P) -> S]
  BY NthRight DEF Chosen
<1> QED BY <1>1, <1>2 DEF Chosen

(* The sequence t has the elements of s at P, and one at n + 1.             *)
Extends(t, s, P, n, S) ==
  /\ Among(P, n)
  /\ \A i \in P : s[i] \in S /\ t[i] = s[i]
  /\ t[n + 1] \in S

(* One more position, beyond the others.                                    *)
LEMMA ChosenMore ==
  ASSUME NEW n, NEW P, NEW S, NEW s, NEW t, Extends(t, s, P, n, S),
         NEW Q, Q = P \cup {n + 1}
  PROVE  Chosen(t, Q) = Append(Chosen(s, P), t[n + 1])
<1> USE DEF Extends
<1> DEFINE c == Cardinality(P)
           a == Chosen(t, Q)
           b == Append(Chosen(s, P), t[n + 1])
<1>1. /\ n \in Nat /\ Among(Q, n + 1) /\ Q \cap (1..n) = P /\ n + 1 \notin P
      /\ \A j \in Q : j <= n + 1
  <2>1. n \in Nat /\ \A j \in P : j \in 1..n
    BY DEF Among
  <2>2. n + 1 \notin P /\ \A j \in Q : j \in 1..n + 1 /\ j <= n + 1
    BY <2>1
  <2>3. Q \cap (1..n) = P
    BY <2>1
  <2> QED BY <2>1, <2>2, <2>3 DEF Among
<1>2. IsFiniteSet(P) /\ c \in Nat /\ Cardinality(Q) = c + 1
  BY <1>1, Positions, FS_AddElement
<1>3. \A k \in 1..c : Nth(Q, k) = Nth(P, k) /\ Nth(P, k) \in P
  BY <1>1, NthOfBeginning, NthRight
<1>4. Nth(Q, c + 1) = n + 1
  <2>1. {j \in Q : j <= n + 1} = Q
    BY <1>1
  <2>2. Rank(Q, n + 1) = c + 1
    BY <1>2, <2>1 DEF Rank
  <2>3. n + 1 \in Q
    OBVIOUS
  <2> QED BY <1>1, <2>2, <2>3, NthOfRank
<1>5. \A i \in Q : t[i] \in S
  OBVIOUS
<1>6. /\ a \in Seq(S) /\ Len(a) = c + 1
      /\ \A k \in 1..c + 1 : a[k] = t[Nth(Q, k)]
  <2>1. /\ a \in Seq(S) /\ Len(a) = Cardinality(Q)
        /\ \A k \in 1..Cardinality(Q) : a[k] = t[Nth(Q, k)]
    BY ONLY <1>1, <1>5, ChosenTyped
  <2> QED BY <1>2, <2>1
<1>7. /\ Chosen(s, P) \in Seq(S) /\ Len(Chosen(s, P)) = c
      /\ \A k \in 1..c : Chosen(s, P)[k] = s[Nth(P, k)]
  BY ChosenTyped
<1>8. /\ b \in Seq(S) /\ Len(b) = c + 1
      /\ \A k \in 1..c : b[k] = Chosen(s, P)[k]
      /\ b[c + 1] = t[n + 1]
  BY <1>7, AppendProperties
<1> HIDE DEF a, b, c
<1>9. ASSUME NEW k \in 1..c + 1 PROVE a[k] = b[k]
  <2>1. CASE k = c + 1
    BY <2>1, <1>4, <1>6, <1>8
  <2>2. CASE k \in 1..c
    BY <2>2, <1>3, <1>6, <1>7, <1>8
  <2> QED BY <1>2, <2>1, <2>2
<1>10. a = b
  BY <1>6, <1>8, <1>9, SeqEqual
<1> QED BY <1>10 DEF a, b

(* Positions that have all the smaller ones with them are the first ones.   *)
LEMMA FirstPositions ==
  ASSUME NEW n, NEW P, Among(P, n),
         \A i \in P : \A j \in 1..i : j \in P
  PROVE  Cardinality(P) \in 0..n /\ P = 1..Cardinality(P)
<1> DEFINE c == Cardinality(P)
<1>1. IsFiniteSet(P) /\ c \in 0..n
  BY Positions
<1>2. ASSUME NEW i \in P PROVE i <= c
  <2>1. 1..i \in SUBSET P /\ i \in Nat
    BY DEF Among
  <2>2. Cardinality(1..i) = i
    BY <2>1, FS_Interval
  <2> QED BY <1>1, <2>1, <2>2, FS_Subset
<1> HIDE DEF c
<1>3. P \in SUBSET (1..c)
  BY <1>1, <1>2 DEF Among
<1>4. IsFiniteSet(1..c) /\ Cardinality(1..c) = c
  BY <1>1, FS_Interval
<1>5. P = 1..c
  BY <1>3, <1>4, FS_Subset DEF c
<1> QED BY <1>1, <1>5 DEF c

(* Q are the positions of s in P up to m.                                   *)
FirstOf(Q, m, s, P, n, S) ==
  Among(P, n) /\ m \in Nat /\ Q = P \cap (1..m) /\ \A i \in P : s[i] \in S

(* What is chosen from the beginning is the beginning of what is chosen.     *)
LEMMA ChosenBeginning ==
  ASSUME NEW Q, NEW m, NEW s, NEW P, NEW n, NEW S, FirstOf(Q, m, s, P, n, S)
  PROVE  /\ Len(Chosen(s, Q)) <= Len(Chosen(s, P))
         /\ \A k \in 1..Len(Chosen(s, Q)) : Chosen(s, Q)[k] = Chosen(s, P)[k]
<1>1. Among(P, n) /\ m \in Nat /\ Q = P \cap (1..m) /\ \A i \in P : s[i] \in S
  BY DEF FirstOf
<1>2. /\ Among(Q, n) /\ \A i \in Q : s[i] \in S
      /\ Cardinality(Q) \in 0..Cardinality(P)
      /\ \A k \in 1..Cardinality(Q) : Nth(P, k) = Nth(Q, k)
  <2>1. /\ Cardinality(P \cap (1..m)) \in 0..Cardinality(P)
        /\ \A k \in 1..Cardinality(P \cap (1..m)) : Nth(P, k) = Nth(P \cap (1..m), k)
    BY <1>1, NthOfBeginning
  <2> QED BY <1>1, <2>1 DEF Among
<1>3. Len(Chosen(s, Q)) = Cardinality(Q)
      /\ \A k \in 1..Cardinality(Q) : Chosen(s, Q)[k] = s[Nth(Q, k)]
  <2>1. Among(Q, n)
    BY <1>2
  <2>2. \A i \in Q : s[i] \in S
    BY <1>2
  <2> QED BY ONLY <2>1, <2>2, ChosenTyped
<1>4. Cardinality(P) \in Nat /\ Len(Chosen(s, P)) = Cardinality(P)
      /\ \A k \in 1..Cardinality(P) : Chosen(s, P)[k] = s[Nth(P, k)]
  <2>1. Among(P, n)
    BY <1>1
  <2>2. \A i \in P : s[i] \in S
    BY <1>1
  <2>3. /\ Len(Chosen(s, P)) = Cardinality(P)
        /\ \A k \in 1..Cardinality(P) : Chosen(s, P)[k] = s[Nth(P, k)]
    BY ONLY <2>1, <2>2, ChosenTyped
  <2> QED BY ONLY <2>1, <2>3, Positions
<1>5. Cardinality(Q) <= Cardinality(P)
      /\ \A k \in 1..Cardinality(Q) : k \in 1..Cardinality(P)
  BY <1>2, <1>4
<1>6. \A k \in 1..Cardinality(Q) : Chosen(s, Q)[k] = Chosen(s, P)[k]
  BY <1>2, <1>3, <1>4, <1>5
<1>7. Len(Chosen(s, Q)) <= Len(Chosen(s, P))
  BY <1>3, <1>4, <1>5
<1>8. \A k \in 1..Len(Chosen(s, Q)) : Chosen(s, Q)[k] = Chosen(s, P)[k]
  BY <1>3, <1>6
<1> QED BY <1>7, <1>8

(* Choosing all of the first positions takes the beginning as it is.         *)
LEMMA ChosenAll ==
  ASSUME NEW n \in Nat, NEW S, NEW s, \A i \in 1..n : s[i] \in S
  PROVE  /\ Chosen(s, 1..n) \in Seq(S) /\ Len(Chosen(s, 1..n)) = n
         /\ \A k \in 1..n : Chosen(s, 1..n)[k] = s[k]
<1> DEFINE P == 1..n
<1>1. Among(P, n) /\ Cardinality(P) = n /\ \A i \in P : s[i] \in S
  BY FS_Interval DEF Among
<1>2. ASSUME NEW k \in 1..n PROVE k \in P /\ Rank(P, k) = k
  <2>1. {j \in P : j <= k} = 1..k /\ Cardinality(1..k) = k
    BY FS_Interval
  <2> QED BY <2>1 DEF Rank
<1> HIDE DEF P
<1>3. ASSUME NEW k \in 1..n PROVE Nth(P, k) = k
  BY <1>1, <1>2, NthOfRank
<1>4. Chosen(s, P) = [k \in 1..n |-> s[Nth(P, k)]]
  BY <1>1 DEF Chosen
<1>5. Chosen(s, P) = [k \in 1..n |-> s[k]]
  BY <1>3, <1>4
<1> QED BY <1>5 DEF P

(* Only what is at the chosen positions counts.                             *)
LEMMA ChosenSame ==
  ASSUME NEW n, NEW P, Among(P, n), NEW s, NEW t, \A i \in P : t[i] = s[i]
  PROVE  Chosen(t, P) = Chosen(s, P)
<1>1. \A k \in 1..Cardinality(P) : Nth(P, k) \in P
  BY NthRight
<1> QED BY <1>1 DEF Chosen

(* What is at a chosen position is among what is chosen.                    *)
LEMMA ChosenHas ==
  ASSUME NEW n, NEW P, Among(P, n), NEW s, NEW i \in P
  PROVE  \E k \in DOMAIN Chosen(s, P) : Chosen(s, P)[k] = s[i]
<1>1. Rank(P, i) \in 1..Cardinality(P) /\ Nth(P, Rank(P, i)) = i
  BY RankRises, NthOfRank
<1>2. DOMAIN Chosen(s, P) = 1..Cardinality(P)
      /\ \A k \in 1..Cardinality(P) : Chosen(s, P)[k] = s[Nth(P, k)]
  BY DEF Chosen
<1> QED BY <1>1, <1>2
=============================================================================
