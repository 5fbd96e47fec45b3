---------------------------- MODULE ShellLineProofs ----------------------------
(***************************************************************************)
(* Theorems about ShellLine: what the scanners, the parser and the printer *)
(* make of a text of any length.  Each loop over a text is a function of   *)
(* the number of its turns; the lemmas called ...Runs say that it exists   *)
(* and what one turn does, and Counting carries what a turn keeps to the   *)
(* last one.                                                               *)
(***************************************************************************)
EXTENDS ShellLine, TLAPS, Integers, SequenceTheorems, WellFoundedInduction

USE DEF Nothing
-----------------------------------------------------------------------------
(* Numbers and loops.                                                      *)

LEMMA LeastExists ==
  ASSUME NEW S, S \subseteq Nat, S # {}
  PROVE  \E m \in S : \A x \in S : m <= x
<1>1. PICK m \in S : \A x \in S : <<x, m>> \notin OpToRel(<, Nat)
  BY NatLessThanWellFounded, WFMin, Zenon
<1>2. \A x \in S : ~(x < m)
  BY <1>1, Zenon DEF OpToRel
<1> QED BY <1>2

LEMMA MinIs ==
  ASSUME NEW S, NEW x \in S, S \subseteq Nat, \A y \in S : x <= y
  PROVE  Min(S) = x
<1>1. \A z \in S : (\A y \in S : z <= y) <=> z = x
  OBVIOUS
<1> QED BY <1>1 DEF Min

LEMMA MinOf ==
  ASSUME NEW S, S \subseteq Nat, S # {}
  PROVE  Min(S) \in S /\ Min(S) \in Nat /\ \A y \in S : Min(S) <= y
<1>1. PICK x \in S : \A y \in S : x <= y
  BY LeastExists
<1>2. Min(S) = x
  BY <1>1, MinIs
<1> QED BY <1>1, <1>2

LEMMA MinOfTwo ==
  ASSUME NEW a \in Nat, NEW b \in Nat
  PROVE  /\ Min({a, b}) = IF a <= b THEN a ELSE b
         /\ Min({a, b}) <= a /\ Min({a, b}) <= b /\ Min({a, b}) \in Nat
<1> DEFINE m == IF a <= b THEN a ELSE b
<1>1. m \in {a, b} /\ {a, b} \subseteq Nat /\ \A y \in {a, b} : m <= y
  OBVIOUS
<1>2. Min({a, b}) = m
  BY <1>1, MinIs
<1> QED BY <1>2

\* What holds at the start and is kept by every step holds all along.
LEMMA Counting ==
  ASSUME NEW n \in Nat, NEW S, 0 \in S, \A j \in 1..n : j - 1 \in S => j \in S
  PROVE  \A j \in 0..n : j \in S
<1> DEFINE Bad == {k \in 0..n : k \notin S}
<1> SUFFICES ASSUME Bad # {} PROVE FALSE
  OBVIOUS
<1>1. PICK k \in Bad : \A x \in Bad : k <= x
  <2>1. Bad \subseteq Nat
    OBVIOUS
  <2> HIDE DEF Bad
  <2> QED BY <2>1, LeastExists
<1>2. k \in 0..n /\ k # 0
  OBVIOUS
<1>3. k \in 1..n /\ k - 1 \in 0..n /\ ~(k <= k - 1)
  BY <1>2
<1> QED BY <1>1, <1>3

\* The turns of a loop: F says what the j-th turn makes of each state.
Loop(F, s, n, at) == at[0] = s /\ \A j \in 1..n : at[j] = F[j][at[j - 1]]

LEMMA LoopRuns ==
  ASSUME NEW S, NEW s \in S, NEW n \in Nat, NEW F \in [1..n -> [S -> S]]
  PROVE  \E at \in [0..n -> S] : Loop(F, s, n, at)
<1> DEFINE Far(k) == \E at \in [0..k -> S] : Loop(F, s, k, at)
           Good == {k \in 0..n : Far(k)}
<1>1. 0 \in Good
  <2> DEFINE z == [i \in 0..0 |-> s]
  <2>1. z \in [0..0 -> S] /\ z[0] = s /\ \A j \in 1..0 : FALSE
    OBVIOUS
  <2> HIDE DEF z
  <2>2. Loop(F, s, 0, z)
    BY <2>1 DEF Loop
  <2> QED BY <2>1, <2>2
<1>2. ASSUME NEW k \in 1..n, k - 1 \in Good PROVE k \in Good
  <2>1. PICK at \in [0..(k - 1) -> S] : Loop(F, s, k - 1, at)
    BY <1>2
  <2> DEFINE new == [i \in 0..k |-> IF i = k THEN F[k][at[k - 1]] ELSE at[i]]
  <2>2. F[k] \in [S -> S] /\ at[k - 1] \in S
    OBVIOUS
  <2>3. new \in [0..k -> S]
    BY <2>2
  <2>4. new[0] = s
    BY <2>1 DEF Loop
  <2>5. ASSUME NEW j \in 1..k PROVE new[j] = F[j][new[j - 1]]
    <3>1. j - 1 \in 0..k /\ j - 1 # k /\ j \in 0..k
      OBVIOUS
    <3>2. CASE j = k
      BY <3>1, <3>2
    <3>3. CASE j # k
      <4>1. j \in 1..(k - 1)
        BY <3>3
      <4> QED BY <2>1, <3>1, <3>3, <4>1 DEF Loop
    <3> QED BY <3>2, <3>3
  <2> HIDE DEF new
  <2>6. Loop(F, s, k, new)
    BY <2>4, <2>5 DEF Loop
  <2>7. Far(k)
    BY <2>3, <2>6
  <2> QED BY <2>7
<1> HIDE DEF Good
<1>3. \A j \in 0..n : j \in Good
  BY <1>1, <1>2, Counting
<1>4. n \in Good
  BY <1>3
<1> QED BY <1>4 DEF Good

-----------------------------------------------------------------------------
(* Sequences: cutting, joining, spans, blanks.                             *)

LEMMA Cut ==
  ASSUME NEW X, NEW s \in Seq(X), NEW n \in 0..Len(s)
  PROVE  /\ Take(s, n) \in Seq(X) /\ Len(Take(s, n)) = n
         /\ \A i \in 1..n : Take(s, n)[i] = s[i]
         /\ Drop(s, n) \in Seq(X) /\ Len(Drop(s, n)) = Len(s) - n
         /\ \A i \in 1..(Len(s) - n) : Drop(s, n)[i] = s[n + i]
<1>1. Len(s) \in Nat /\ \A i \in 1..Len(s) : s[i] \in X
  OBVIOUS
<1>2. /\ SubSeq(s, 1, n) \in Seq(X) /\ Len(SubSeq(s, 1, n)) = n
      /\ \A i \in 1..n : SubSeq(s, 1, n)[i] = s[i]
  <2>1. \A i \in 1..n : s[i] \in X
    BY <1>1
  <2> QED BY <1>1, <2>1, SubSeqProperties
<1>3. /\ SubSeq(s, n + 1, Len(s)) \in Seq(X) /\ Len(SubSeq(s, n + 1, Len(s))) = Len(s) - n
      /\ \A i \in 1..(Len(s) - n) : SubSeq(s, n + 1, Len(s))[i] = s[n + i]
  <2>1. \A i \in (n + 1)..Len(s) : s[i] \in X
    BY <1>1
  <2>2. n + 1 \in Int /\ Len(s) \in Int
    BY <1>1
  <2>3. /\ SubSeq(s, n + 1, Len(s)) \in Seq(X)
        /\ Len(SubSeq(s, n + 1, Len(s))) = IF n + 1 <= Len(s) THEN Len(s) - (n + 1) + 1 ELSE 0
        /\ \A i \in 1..(Len(s) - (n + 1) + 1) : SubSeq(s, n + 1, Len(s))[i] = s[n + 1 + i - 1]
    BY <2>1, <2>2, SubSeqProperties
  <2> QED BY <1>1, <2>3
<1> QED BY <1>2, <1>3 DEF Take, Drop

LEMMA SameSeq ==
  ASSUME NEW X, NEW s \in Seq(X), NEW t \in Seq(X), Len(s) = Len(t),
         \A i \in 1..Len(s) : s[i] = t[i]
  PROVE  s = t
BY SeqEqual

LEMMA Rejoined ==
  ASSUME NEW X, NEW s \in Seq(X), NEW n \in 0..Len(s)
  PROVE  Take(s, n) \o Drop(s, n) = s
<1> DEFINE a == Take(s, n)
           b == Drop(s, n)
<1>1. /\ a \in Seq(X) /\ Len(a) = n /\ \A i \in 1..n : a[i] = s[i]
      /\ b \in Seq(X) /\ Len(b) = Len(s) - n /\ \A i \in 1..(Len(s) - n) : b[i] = s[n + i]
  BY Cut
<1> HIDE DEF a, b
<1>2. /\ a \o b \in Seq(X) /\ Len(a \o b) = Len(s)
      /\ \A i \in 1..Len(s) : (a \o b)[i] = IF i <= n THEN a[i] ELSE b[i - n]
  BY <1>1, ConcatProperties
<1>3. \A i \in 1..Len(s) : (a \o b)[i] = s[i]
  <2> TAKE i \in 1..Len(s)
  <2>1. CASE i <= n
    BY <1>1, <1>2, <2>1
  <2>2. CASE ~(i <= n)
    <3>1. i - n \in 1..(Len(s) - n)
      BY <2>2
    <3> QED BY <1>1, <1>2, <2>2, <3>1
  <2> QED BY <2>1, <2>2
<1>4. a \o b = s
  BY <1>2, <1>3, SameSeq
<1> QED BY <1>4 DEF a, b

LEMMA Joined ==
  ASSUME NEW X, NEW a \in Seq(X), NEW b \in Seq(X)
  PROVE  Take(a \o b, Len(a)) = a /\ Drop(a \o b, Len(a)) = b
<1> DEFINE s == a \o b
           n == Len(a)
<1>1. /\ s \in Seq(X) /\ Len(s) = Len(a) + Len(b)
      /\ \A i \in 1..(Len(a) + Len(b)) : s[i] = IF i <= Len(a) THEN a[i] ELSE b[i - Len(a)]
  BY ConcatProperties
<1>2. n \in Nat /\ Len(b) \in Nat
  OBVIOUS
<1> HIDE DEF s
<1>3. n \in 0..Len(s)
  BY <1>1, <1>2
<1>4. /\ Take(s, n) \in Seq(X) /\ Len(Take(s, n)) = n
      /\ \A i \in 1..n : Take(s, n)[i] = s[i]
      /\ Drop(s, n) \in Seq(X) /\ Len(Drop(s, n)) = Len(s) - n
      /\ \A i \in 1..(Len(s) - n) : Drop(s, n)[i] = s[n + i]
  BY <1>1, <1>3, Cut
<1>5. Take(s, n) = a
  <2>1. \A i \in 1..n : Take(s, n)[i] = a[i]
    BY <1>1, <1>2, <1>4
  <2> QED BY <1>4, <2>1, SameSeq
<1>6. Drop(s, n) = b
  <2>1. \A i \in 1..Len(b) : Drop(s, n)[i] = b[i]
    <3> TAKE i \in 1..Len(b)
    <3> DEFINE k == Len(a) + i
    <3>1. k \in 1..(Len(a) + Len(b)) /\ ~(k <= Len(a)) /\ k - Len(a) = i
      BY <1>2
    <3>2. Drop(s, n)[i] = s[k]
      BY <1>1, <1>2, <1>4
    <3> HIDE DEF k
    <3>3. s[k] = b[k - Len(a)]
      BY <1>1, <3>1
    <3> QED BY <3>1, <3>2, <3>3
  <2>2. Len(Drop(s, n)) = Len(b)
    BY <1>1, <1>2, <1>4
  <2> HIDE DEF n
  <2> QED BY <1>4, <2>1, <2>2, SameSeq
<1> QED BY <1>5, <1>6 DEF s

LEMMA HeadTail ==
  ASSUME NEW X, NEW s \in Seq(X), s # <<>>
  PROVE  /\ Len(s) \in Nat \ {0} /\ Head(s) = s[1] /\ Head(s) \in X
         /\ Tail(s) = Drop(s, 1) /\ Tail(s) \in Seq(X) /\ Len(Tail(s)) = Len(s) - 1
         /\ s = <<Head(s)>> \o Tail(s)
<1>1. Len(s) \in Nat \ {0} /\ 1 \in 0..Len(s) /\ s[1] \in X /\ Head(s) = s[1]
  BY EmptySeq
<1>2. Tail(s) = Drop(s, 1) /\ Tail(s) \in Seq(X) /\ Len(Tail(s)) = Len(s) - 1
  BY <1>1, TailIsSubSeq, HeadTailProperties DEF Drop
<1>3. SubSeq(s, 1, Len(s)) = <<s[1]>> \o SubSeq(s, 1 + 1, Len(s))
  <2>1. 1 \in 1..Len(s) /\ Len(s) \in 1..Len(s)
    BY <1>1
  <2> QED BY <2>1, SubSeqRecursiveFirst
<1>4. SubSeq(s, 1, Len(s)) = s
  BY SubSeqFull
<1> QED BY <1>1, <1>2, <1>3, <1>4 DEF Drop

LEMMA FirstOf ==
  ASSUME NEW X, NEW c \in X, NEW t \in Seq(X)
  PROVE  /\ <<c>> \o t \in Seq(X) /\ <<c>> \o t # <<>> /\ Head(<<c>> \o t) = c /\ Tail(<<c>> \o t) = t
         /\ Len(<<c>> \o t) = Len(t) + 1 /\ (<<c>> \o t)[1] = c
<1> DEFINE a == <<c>>
           s == a \o t
<1>1. a \in Seq(X) /\ Len(a) = 1 /\ a[1] = c /\ Len(t) \in Nat
  OBVIOUS
<1> HIDE DEF a
<1>0. /\ s \in Seq(X) /\ Len(s) = Len(a) + Len(t)
      /\ \A i \in 1..(Len(a) + Len(t)) : s[i] = IF i <= Len(a) THEN a[i] ELSE t[i - Len(a)]
  BY <1>1, ConcatProperties
<1>2. s \in Seq(X) /\ Len(s) = 1 + Len(t) /\ s[1] = a[1]
  <2> HIDE DEF s
  <2>1. 1 \in 1..(Len(a) + Len(t)) /\ 1 <= Len(a)
    BY <1>1
  <2> QED BY <1>0, <1>1, <2>1
<1>3. Drop(s, 1) = t
  BY <1>1, Joined
<1> HIDE DEF s
<1>4. s # <<>> /\ s[1] = c
  BY <1>1, <1>2
<1>5. Head(s) = c /\ Tail(s) = t
  BY <1>2, <1>3, <1>4, HeadTail
<1> QED BY <1>1, <1>2, <1>4, <1>5 DEF s, a

LEMMA LastOf ==
  ASSUME NEW X, NEW t \in Seq(X), NEW c \in X
  PROVE  /\ Append(t, c) = t \o <<c>> /\ t \o <<c>> \in Seq(X) /\ Len(t \o <<c>>) = Len(t) + 1
         /\ (t \o <<c>>)[Len(t) + 1] = c /\ \A i \in 1..Len(t) : (t \o <<c>>)[i] = t[i]
BY AppendProperties, AppendIsConcat

\* How far the characters of C go.
LEMMA SpanIs ==
  ASSUME NEW X, NEW s \in Seq(X), NEW C
  PROVE  /\ Span(s, C) \in 0..Len(s)
         /\ \A i \in 1..Span(s, C) : s[i] \in C
         /\ Span(s, C) < Len(s) => s[Span(s, C) + 1] \notin C
<1> DEFINE Outside == {i \in DOMAIN s : s[i] \notin C}
<1>1. DOMAIN s = 1..Len(s) /\ Len(s) \in Nat
  OBVIOUS
<1>2. Outside \subseteq Nat /\ Span(s, C) = IF Outside = {} THEN Len(s) ELSE Min(Outside) - 1
  BY <1>1 DEF Span
<1>3. CASE Outside = {}
  BY <1>1, <1>2, <1>3
<1>4. CASE Outside # {}
  <2> DEFINE m == Min(Outside)
  <2>1. m \in Outside /\ \A y \in Outside : m <= y
    <3> HIDE DEF Outside
    <3> QED BY <1>2, <1>4, MinOf
  <2> HIDE DEF m
  <2>2. Span(s, C) = m - 1
    BY <1>2, <1>4 DEF m
  <2>3. m \in 1..Len(s) /\ s[m] \notin C
    BY <1>1, <2>1
  <2>4. \A i \in 1..(m - 1) : s[i] \in C
    BY <1>1, <2>1, <2>3
  <2> QED BY <1>1, <2>2, <2>3, <2>4
<1> QED BY <1>3, <1>4

LEMMA SpanIsThat ==
  ASSUME NEW X, NEW s \in Seq(X), NEW C, NEW n \in 0..Len(s), \A i \in 1..n : s[i] \in C,
         n < Len(s) => s[n + 1] \notin C
  PROVE  Span(s, C) = n
<1> DEFINE m == Span(s, C)
<1>1. m \in 0..Len(s) /\ (\A i \in 1..m : s[i] \in C) /\ (m < Len(s) => s[m + 1] \notin C)
  BY SpanIs
<1> HIDE DEF m
<1>2. ~(m < n)
  <2> SUFFICES ASSUME m < n PROVE FALSE
    OBVIOUS
  <2>1. m + 1 \in 1..n /\ m < Len(s)
    BY <1>1
  <2> QED BY <1>1, <2>1
<1>3. ~(n < m)
  <2> SUFFICES ASSUME n < m PROVE FALSE
    OBVIOUS
  <2>1. n + 1 \in 1..m /\ n < Len(s)
    BY <1>1
  <2> QED BY <1>1, <2>1
<1>4. m = n
  BY <1>1, <1>2, <1>3
<1> QED BY <1>4 DEF m

LEMMA SpanOver ==
  ASSUME NEW X, NEW a \in Seq(X), NEW b \in Seq(X), NEW C,
         \A i \in 1..Len(a) : a[i] \in C, b # <<>> => Head(b) \notin C
  PROVE  Span(a \o b, C) = Len(a)
<1> DEFINE s == a \o b
           n == Len(a)
<1>1. /\ s \in Seq(X) /\ Len(s) = Len(a) + Len(b)
      /\ \A i \in 1..(Len(a) + Len(b)) : s[i] = IF i <= Len(a) THEN a[i] ELSE b[i - Len(a)]
  BY ConcatProperties
<1>2. n \in Nat /\ Len(b) \in Nat
  OBVIOUS
<1>3. ASSUME n < Len(s) PROVE s[n + 1] \notin C
  <2>1. b # <<>> /\ n + 1 \in 1..(Len(a) + Len(b)) /\ ~(n + 1 <= Len(a)) /\ n + 1 - Len(a) = 1
    BY <1>1, <1>2, <1>3
  <2>2. Head(b) = b[1]
    BY <2>1, HeadTail
  <2> QED BY <1>1, <2>1, <2>2
<1>4. n \in 0..Len(s) /\ \A i \in 1..n : s[i] \in C
  BY <1>1, <1>2
<1> HIDE DEF s, n
<1>5. Span(s, C) = n
  BY <1>1, <1>3, <1>4, SpanIsThat
<1> QED BY <1>5 DEF s, n

\* What is left is again a text over the same characters.
LEMMA Skip ==
  ASSUME NEW X, NEW s \in Seq(X)
  PROVE  /\ SkipBlanks(s) \in Seq(X) /\ Len(SkipBlanks(s)) \in 0..Len(s)
         /\ SkipBlanks(s) # <<>> => Head(SkipBlanks(s)) # Blank
<1> DEFINE n == Span(s, {Blank})
<1>1. n \in 0..Len(s) /\ (n < Len(s) => s[n + 1] # Blank) /\ Len(s) \in Nat
  BY SpanIs
<1>2. SkipBlanks(s) = Drop(s, n)
  BY DEF SkipBlanks
<1> HIDE DEF n
<1>3. /\ Drop(s, n) \in Seq(X) /\ Len(Drop(s, n)) = Len(s) - n
      /\ \A i \in 1..(Len(s) - n) : Drop(s, n)[i] = s[n + i]
  BY <1>1, Cut
<1>4. ASSUME Drop(s, n) # <<>> PROVE Head(Drop(s, n)) # Blank
  <2> DEFINE d == Drop(s, n)
  <2>1. Head(d) = d[1] /\ Len(d) \in Nat \ {0}
    BY <1>3, <1>4, HeadTail
  <2>2. n < Len(s) /\ 1 \in 1..(Len(s) - n)
    BY <1>1, <1>3, <2>1
  <2> QED BY <1>1, <1>3, <2>1, <2>2
<1> QED BY <1>1, <1>2, <1>3, <1>4

LEMMA SkipOver ==
  ASSUME NEW X, Blank \in X, NEW a \in Seq({Blank}), NEW b \in Seq(X), b # <<>> => Head(b) # Blank
  PROVE  SkipBlanks(a \o b) = b
<1>1. a \in Seq(X) /\ \A i \in 1..Len(a) : a[i] \in {Blank}
  <2>1. {Blank} \subseteq X
    OBVIOUS
  <2> QED BY <2>1, SeqMonotonic
<1>2. Span(a \o b, {Blank}) = Len(a)
  BY <1>1, SpanOver
<1>3. Drop(a \o b, Len(a)) = b
  BY <1>1, Joined
<1> QED BY <1>2, <1>3 DEF SkipBlanks

LEMMA SkipNone ==
  ASSUME NEW X, NEW s \in Seq(X), s # <<>> => Head(s) # Blank
  PROVE  SkipBlanks(s) = s
<1> DEFINE Y == X \cup {Blank}
           e == <<>>
<1>1. e \in Seq({Blank}) /\ s \in Seq(Y) /\ Blank \in Y
  <2>1. X \subseteq Y
    OBVIOUS
  <2> HIDE DEF Y
  <2> QED BY <2>1, SeqMonotonic DEF Y
<1>2. e \o s = s
  BY ConcatEmptySeq
<1> HIDE DEF e, Y
<1>3. SkipBlanks(e \o s) = s
  BY <1>1, SkipOver
<1> QED BY <1>2, <1>3

LEMMA SkipOne ==
  ASSUME NEW X, Blank \in X, NEW b \in Seq(X), b # <<>> => Head(b) # Blank
  PROVE  SkipBlanks(<<Blank>> \o b) = b
<1> DEFINE a == <<Blank>>
<1>1. a \in Seq({Blank})
  OBVIOUS
<1> HIDE DEF a
<1>2. SkipBlanks(a \o b) = b
  BY <1>1, SkipOver
<1> QED BY <1>2 DEF a

LEMMA Reversed ==
  ASSUME NEW X, NEW s \in Seq(X)
  PROVE  /\ Reverse(s) \in Seq(X) /\ Len(Reverse(s)) = Len(s)
         /\ \A i \in 1..Len(s) : Reverse(s)[i] = s[Len(s) - i + 1]
         /\ Reverse(Reverse(s)) = s
<1> DEFINE r(t) == [i \in 1..Len(t) |-> t[(Len(t) - i) + 1]]
<1>1. ASSUME NEW t \in Seq(X)
      PROVE  r(t) \in Seq(X) /\ Len(r(t)) = Len(t) /\ \A i \in 1..Len(t) : r(t)[i] = t[Len(t) - i + 1]
  <2>1. Len(t) \in Nat /\ \A i \in 1..Len(t) : Len(t) - i + 1 \in 1..Len(t)
    OBVIOUS
  <2>2. \A i \in 1..Len(t) : t[Len(t) - i + 1] \in X
    BY <2>1
  <2>3. r(t) \in [1..Len(t) -> X]
    BY <2>2
  <2>4. r(t) \in Seq(X)
    BY <2>1, <2>3
  <2> QED BY <2>1, <2>4
<1>2. \A t : Reverse(t) = r(t)
  BY DEF Reverse
<1> HIDE DEF r
<1>3. /\ Reverse(s) \in Seq(X) /\ Len(Reverse(s)) = Len(s)
      /\ \A i \in 1..Len(s) : Reverse(s)[i] = s[Len(s) - i + 1]
  BY <1>1, <1>2
<1> DEFINE q == Reverse(s)
           p == Reverse(q)
<1>4. p \in Seq(X) /\ Len(p) = Len(s) /\ \A i \in 1..Len(q) : p[i] = q[Len(q) - i + 1]
  BY <1>1, <1>2, <1>3
<1>5. \A i \in 1..Len(p) : p[i] = s[i]
  <2> HIDE DEF p, q
  <2> TAKE i \in 1..Len(p)
  <2>1. Len(s) \in Nat /\ Len(q) = Len(s)
    BY <1>3 DEF q
  <2>2. i \in 1..Len(q) /\ Len(q) - i + 1 \in 1..Len(s)
    BY <1>4, <2>1
  <2>3. p[i] = q[Len(q) - i + 1]
    BY <1>4, <2>2
  <2>4. q[Len(q) - i + 1] = s[Len(s) - (Len(q) - i + 1) + 1]
    BY <1>3, <2>2 DEF q
  <2>5. Len(s) - (Len(q) - i + 1) + 1 = i
    BY <2>1, <2>2
  <2> QED BY <2>3, <2>4, <2>5
<1>6. p = s
  <2> HIDE DEF p
  <2> QED BY <1>4, <1>5, SameSeq
<1> QED BY <1>3, <1>6

LEMMA ReverseJoined ==
  ASSUME NEW X, NEW a \in Seq(X), NEW b \in Seq(X)
  PROVE  Reverse(a \o b) = Reverse(b) \o Reverse(a)
<1> DEFINE s == a \o b
           ra == Reverse(a)
           rb == Reverse(b)
           r == Reverse(s)
           q == rb \o ra
<1>1. /\ s \in Seq(X) /\ Len(s) = Len(a) + Len(b)
      /\ \A i \in 1..(Len(a) + Len(b)) : s[i] = IF i <= Len(a) THEN a[i] ELSE b[i - Len(a)]
  BY ConcatProperties
<1>2. ra \in Seq(X) /\ Len(ra) = Len(a) /\ \A i \in 1..Len(a) : ra[i] = a[Len(a) - i + 1]
  BY Reversed
<1>3. rb \in Seq(X) /\ Len(rb) = Len(b) /\ \A i \in 1..Len(b) : rb[i] = b[Len(b) - i + 1]
  BY Reversed
<1> HIDE DEF ra, rb
<1>4. /\ q \in Seq(X) /\ Len(q) = Len(rb) + Len(ra)
      /\ \A i \in 1..(Len(rb) + Len(ra)) : q[i] = IF i <= Len(rb) THEN rb[i] ELSE ra[i - Len(rb)]
  <2>1. rb \in Seq(X) /\ ra \in Seq(X)
    BY <1>2, <1>3
  <2> QED BY <2>1, ConcatProperties
<1> HIDE DEF s, q
<1>5. r \in Seq(X) /\ Len(r) = Len(s) /\ \A i \in 1..Len(s) : r[i] = s[Len(s) - i + 1]
  BY <1>1, Reversed
<1> HIDE DEF r
<1>6. Len(a) \in Nat /\ Len(b) \in Nat
  OBVIOUS
<1>7. \A i \in 1..Len(r) : r[i] = q[i]
  <2> TAKE i \in 1..Len(r)
  <2> DEFINE j == Len(s) - i + 1
  <2>1. i \in 1..(Len(a) + Len(b)) /\ j \in 1..(Len(a) + Len(b)) /\ Len(s) = Len(a) + Len(b)
    BY <1>1, <1>5, <1>6
  <2>2. r[i] = s[j]
    BY <1>1, <1>5, <2>1
  <2>3. s[j] = IF j <= Len(a) THEN a[j] ELSE b[j - Len(a)]
    BY <1>1, <2>1
  <2>4. q[i] = IF i <= Len(b) THEN rb[i] ELSE ra[i - Len(b)]
    BY <1>2, <1>3, <1>4, <1>6, <2>1
  <2>5. CASE i <= Len(b)
    <3>1. ~(j <= Len(a)) /\ j - Len(a) = Len(b) - i + 1 /\ i \in 1..Len(b)
      BY <1>6, <2>1, <2>5
    <3> QED BY <1>3, <2>2, <2>3, <2>4, <2>5, <3>1
  <2>6. CASE ~(i <= Len(b))
    <3>1. j <= Len(a) /\ j = Len(a) - (i - Len(b)) + 1 /\ i - Len(b) \in 1..Len(a)
      BY <1>6, <2>1, <2>6
    <3>2. ra[i - Len(b)] = a[Len(a) - (i - Len(b)) + 1]
      BY <1>2, <3>1
    <3> QED BY <2>2, <2>3, <2>4, <2>6, <3>1, <3>2
  <2> QED BY <2>5, <2>6
<1>8. Len(r) = Len(q)
  BY <1>1, <1>2, <1>3, <1>4, <1>5, <1>6
<1>9. r = q
  BY <1>1, <1>4, <1>5, <1>7, <1>8, SameSeq
<1> QED BY <1>9 DEF r, q, s, ra, rb

LEMMA TrimIs ==
  ASSUME NEW X, NEW s \in Seq(X)
  PROVE  Trim(s) \in Seq(X)
BY Skip, Reversed DEF Trim

\* Blanks that follow a text end with it.
LEMMA CutBehind ==
  ASSUME NEW X, Blank \in X, NEW t \in Seq(X), NEW b \in Seq({Blank}), t # <<>> => t[Len(t)] # Blank
  PROVE  Reverse(SkipBlanks(Reverse(t \o b))) = t
<1>1. {Blank} \subseteq X /\ b \in Seq(X)
  <2>1. {Blank} \subseteq X
    OBVIOUS
  <2> QED BY <2>1, SeqMonotonic
<1>2. Reverse(t \o b) = Reverse(b) \o Reverse(t)
  BY <1>1, ReverseJoined
<1>3. Reverse(b) \in Seq({Blank})
  BY Reversed
<1>4. Reverse(t) \in Seq(X) /\ Len(Reverse(t)) = Len(t) /\ Reverse(Reverse(t)) = t
      /\ \A i \in 1..Len(t) : Reverse(t)[i] = t[Len(t) - i + 1]
  BY Reversed
<1> DEFINE r == Reverse(t)
<1>5. ASSUME r # <<>> PROVE Head(r) # Blank
  <2> HIDE DEF r
  <2>1. Head(r) = r[1] /\ Len(r) \in Nat \ {0}
    BY <1>4, <1>5, HeadTail DEF r
  <2>2. 1 \in 1..Len(t) /\ t # <<>> /\ Len(t) - 1 + 1 = Len(t)
    BY <1>4, <2>1 DEF r
  <2>3. r[1] = t[Len(t) - 1 + 1]
    BY <1>4, <2>2 DEF r
  <2> QED BY <2>1, <2>2, <2>3
<1>6. SkipBlanks(Reverse(b) \o r) = r
  <2> HIDE DEF r
  <2>1. r \in Seq(X)
    BY <1>4 DEF r
  <2> QED BY <1>3, <1>5, <2>1, SkipOver
<1> QED BY <1>2, <1>4, <1>6

\* Trim cuts the blanks on both sides.
LEMMA TrimTo ==
  ASSUME NEW X, Blank \in X, NEW a \in Seq({Blank}), NEW t \in Seq(X), NEW b \in Seq({Blank}),
         t # <<>>, t[1] # Blank, t[Len(t)] # Blank
  PROVE  Trim(a \o (t \o b)) = t
<1>1. b \in Seq(X)
  <2>1. {Blank} \subseteq X
    OBVIOUS
  <2> QED BY <2>1, SeqMonotonic
<1>2. /\ t \o b \in Seq(X) /\ Len(t \o b) = Len(t) + Len(b) /\ Len(t) \in Nat \ {0} /\ Len(b) \in Nat
      /\ (t \o b)[1] = t[1]
  <2>1. Len(t) \in Nat \ {0} /\ Len(b) \in Nat
    BY EmptySeq
  <2>2. /\ t \o b \in Seq(X) /\ Len(t \o b) = Len(t) + Len(b)
        /\ \A i \in 1..(Len(t) + Len(b)) : (t \o b)[i] = IF i <= Len(t) THEN t[i] ELSE b[i - Len(t)]
    BY <1>1, ConcatProperties
  <2>3. 1 \in 1..(Len(t) + Len(b)) /\ 1 <= Len(t)
    BY <2>1
  <2> QED BY <2>1, <2>2, <2>3
<1> DEFINE u == t \o b
<1>3. u \in Seq(X) /\ u # <<>> /\ Head(u) # Blank
  <2>1. Len(u) > 0
    BY <1>2
  <2>2. u # <<>>
    BY <2>1, EmptySeq
  <2>3. Head(u) = u[1]
    BY <1>2, <2>2, HeadTail
  <2> QED BY <1>2, <2>2, <2>3
<1>4. SkipBlanks(a \o u) = u
  <2> HIDE DEF u
  <2> QED BY <1>3, SkipOver
<1>5. Reverse(SkipBlanks(Reverse(u))) = t
  BY CutBehind
<1> QED BY <1>4, <1>5 DEF Trim

-----------------------------------------------------------------------------
(* Characters, and the first pass over a line.                             *)

LEMMA Letters ==
  /\ Blank \in Char /\ "$" \in Char /\ "\\" \in Char /\ "@" \in Char
  /\ Quotes \subseteq Char /\ Operators \subseteq Char /\ WordChars \subseteq Char
BY CharAssumption, Zenon

LEMMA CharIs == Nothing \notin Char /\ Blank \in Char
BY CharAssumption, Zenon

LEMMA PrefixIs ==
  ASSUME NEW X, NEW a \in Seq(X), NEW p \in Seq(X)
  PROVE  IsPrefix(a, p) <=> Len(a) <= Len(p) /\ \A i \in 1..Len(a) : a[i] = p[i]
<1>1. SubSeq(a, 1, Len(a)) = a
  BY SubSeqFull
<1>2. CASE Len(a) <= Len(p)
  <2> DEFINE t == SubSeq(p, 1, Len(a))
  <2>1. Len(a) \in 0..Len(p)
    BY <1>2
  <2>2. t \in Seq(X) /\ Len(t) = Len(a) /\ \A i \in 1..Len(a) : t[i] = p[i]
    BY <2>1, Cut DEF Take
  <2> HIDE DEF t
  <2>3. a = t <=> \A i \in 1..Len(a) : a[i] = t[i]
    BY <2>2, SameSeq
  <2>4. a = t <=> \A i \in 1..Len(a) : a[i] = p[i]
    BY <2>2, <2>3
  <2> QED BY <1>1, <1>2, <2>4 DEF IsPrefix, t
<1>3. CASE ~(Len(a) <= Len(p))
  BY <1>3 DEF IsPrefix
<1> QED BY <1>2, <1>3

LEMMA TailStays ==
  ASSUME NEW X, NEW s \in Seq(X)
  PROVE  s # <<>> => Tail(s) \in Seq(X)
BY HeadTail

LEMMA ReferenceIs ==
  ASSUME NEW s \in Seq(Char)
  PROVE  LET ref == Reference(s) IN
         /\ ref.name \in Seq(Char) /\ ref.closed \in BOOLEAN /\ ref.rest \in Seq(Char)
<1> DEFINE isOpen == Head(s) = "{"
           braced == s # <<>> /\ isOpen
           body == IF braced THEN Tail(s) ELSE s
           n == Span(body, NameChars)
           name == Take(body, n)
           after == Drop(body, Len(name))
           isClosed == Head(after) = "}"
           closed == after # <<>> /\ isClosed
           left == IF braced /\ closed THEN Tail(after) ELSE after
           ok == braced => closed
<1>1. body \in Seq(Char)
  <2> HIDE DEF isOpen
  <2> QED BY TailStays
<1>2. Reference(s) = [name |-> name, closed |-> ok, rest |-> left]
  BY Zenon DEF Reference
<1>3. ok \in BOOLEAN
  BY Zenon
<1> HIDE DEF ok, body
<1>4. n \in 0..Len(body)
  BY <1>1, SpanIs
<1> HIDE DEF n
<1>5. name \in Seq(Char) /\ Len(name) = n
  BY <1>1, <1>4, Cut
<1>6. after \in Seq(Char)
  BY <1>1, <1>4, <1>5, Cut
<1> HIDE DEF name, after, isOpen, isClosed
<1>7. left \in Seq(Char)
  BY <1>6, TailStays
<1> HIDE DEF left
<1> QED BY <1>2, <1>3, <1>5, <1>7

LEMMA ValueIs ==
  ASSUME NEW name PROVE Value(name) \in Seq(Char)
BY TextsAssumption DEF Value

Expansions == [ok : BOOLEAN, quote : Quotes \cup {Nothing}, text : Seq(Char), rest : Seq(Char)]

LEMMA ExpandTurnIs ==
  ASSUME NEW e \in Expansions
  PROVE  ExpandTurn(e) \in Expansions
<1>1. e.ok \in BOOLEAN /\ e.quote \in Quotes \cup {Nothing} /\ e.text \in Seq(Char) /\ e.rest \in Seq(Char)
  BY DEF Expansions
<1>2. CASE e.rest = <<>>
  BY <1>2 DEF ExpandTurn
<1>3. CASE e.rest # <<>>
  <2> DEFINE c == Head(e.rest)
             t == Tail(e.rest)
             ref == Reference(t)
             val == IF ref.name = <<>> THEN <<"$">> ELSE Value(ref.name)
  <2>1. c \in Char /\ t \in Seq(Char)
    BY <1>1, <1>3, HeadTail
  <2> HIDE DEF t
  <2>2. ref.closed \in BOOLEAN /\ ref.rest \in Seq(Char)
    BY <2>1, ReferenceIs
  <2>3. val \in Seq(Char)
    <3>1. <<"$">> \in Seq(Char)
      BY Letters
    <3> QED BY <3>1, ValueIs
  <2> HIDE DEF val, ref, c
  <2>4. e.text \o val \in Seq(Char)
    BY <1>1, <2>3, ConcatProperties
  <2>5. Append(e.text, c) \in Seq(Char)
    BY <1>1, <2>1, AppendProperties
  <2>6. Toggle(c, e.quote) \in Quotes \cup {Nothing}
    BY <1>1 DEF Toggle
  <2>7. ExpandTurn(e) = IF c = "$" /\ e.quote # "'"
                        THEN [e EXCEPT !.ok = e.ok /\ ref.closed, !.rest = ref.rest, !.text = e.text \o val]
                        ELSE [e EXCEPT !.quote = Toggle(c, e.quote), !.rest = t, !.text = Append(e.text, c)]
    BY <1>3 DEF ExpandTurn, val, ref, c, t
  <2>8. [e EXCEPT !.ok = e.ok /\ ref.closed, !.rest = ref.rest, !.text = e.text \o val] \in Expansions
    <3>1. (e.ok /\ ref.closed) \in BOOLEAN
      OBVIOUS
    <3> QED BY <1>1, <2>2, <2>4, <3>1 DEF Expansions
  <2>9. [e EXCEPT !.quote = Toggle(c, e.quote), !.rest = t, !.text = Append(e.text, c)] \in Expansions
    BY <1>1, <2>1, <2>5, <2>6 DEF Expansions
  <2> QED BY <2>7, <2>8, <2>9
<1> QED BY <1>2, <1>3

LEMMA ExpandedRuns ==
  ASSUME NEW s \in Seq(Char)
  PROVE  \E at \in [0..Len(s) -> Expansions] :
           /\ at[0] = [ok |-> TRUE, quote |-> Nothing, text |-> <<>>, rest |-> s]
           /\ \A k \in 1..Len(s) : at[k] = ExpandTurn(at[k - 1])
           /\ Expanded(s) = at[Len(s)]
<1> DEFINE s0 == [ok |-> TRUE, quote |-> Nothing, text |-> <<>>, rest |-> s]
           F == [k \in 1..Len(s) |-> [x \in Expansions |-> ExpandTurn(x)]]
           Is(f) == f = [k \in 0..Len(s) |-> IF k = 0 THEN s0 ELSE ExpandTurn(f[k - 1])]
           g == CHOOSE f : Is(f)
<1>1. Len(s) \in Nat
  OBVIOUS
<1>2. s0 \in Expansions
  BY DEF Expansions
<1>3. \A x \in Expansions : ExpandTurn(x) \in Expansions
  BY ExpandTurnIs
<1>4. F \in [1..Len(s) -> [Expansions -> Expansions]]
  BY <1>3
<1>5. PICK at \in [0..Len(s) -> Expansions] : Loop(F, s0, Len(s), at)
  <2> HIDE DEF F, s0
  <2> QED BY <1>1, <1>2, <1>4, LoopRuns
<1>6. \A k \in 1..Len(s) : at[k] = ExpandTurn(at[k - 1])
  <2> TAKE k \in 1..Len(s)
  <2>1. at[k - 1] \in Expansions /\ at[k] = F[k][at[k - 1]]
    BY <1>5 DEF Loop
  <2> QED BY <2>1
<1>7. at[0] = s0
  BY <1>5 DEF Loop
<1>8. Is(at)
  BY <1>1, <1>6, <1>7
<1>9. Is(g)
  BY <1>8
<1>10. Expanded(s) = g[Len(s)]
  BY DEF Expanded
<1>11. g[0] = s0 /\ \A k \in 1..Len(s) : g[k] = ExpandTurn(g[k - 1])
  <2> HIDE DEF g, s0
  <2> QED BY <1>1, <1>9
<1>12. g \in [0..Len(s) -> Expansions]
  <2> DEFINE Good == {k \in 0..Len(s) : g[k] \in Expansions}
  <2>1. 0 \in Good
    BY <1>1, <1>2, <1>11
  <2>2. ASSUME NEW k \in 1..Len(s), k - 1 \in Good PROVE k \in Good
    <3> HIDE DEF g
    <3>1. g[k - 1] \in Expansions /\ g[k] = ExpandTurn(g[k - 1]) /\ k \in 0..Len(s)
      BY <1>1, <1>11, <2>2
    <3> QED BY <1>3, <3>1
  <2> HIDE DEF Good
  <2>3. \A k \in 0..Len(s) : k \in Good
    BY <1>1, <2>1, <2>2, Counting
  <2>4. \A k \in 0..Len(s) : g[k] \in Expansions
    BY <2>3 DEF Good
  <2> HIDE DEF g, s0
  <2> QED BY <1>9, <2>4
<1> HIDE DEF g
<1> QED BY <1>10, <1>11, <1>12

LEMMA ExpandedIs ==
  ASSUME NEW s \in Seq(Char)
  PROVE  Expanded(s).text \in Seq(Char)
<1>1. PICK at \in [0..Len(s) -> Expansions] : Expanded(s) = at[Len(s)]
  BY ExpandedRuns
<1>2. Len(s) \in 0..Len(s)
  OBVIOUS
<1>3. at[Len(s)] \in Expansions
  BY <1>2
<1> QED BY <1>1, <1>3 DEF Expansions

-----------------------------------------------------------------------------
(* The scanners on texts without quotes, backslashes and dollar signs.     *)

Plain == Char \ (Quotes \cup {"\\", "$"})

LEMMA PlainChars ==
  /\ Plain \subseteq Char /\ Blank \in Plain /\ Operators \subseteq Plain /\ WordChars \subseteq Plain
  /\ \A c \in Plain : c \notin Quotes /\ c # "\\" /\ c # "$"
<1>1. Blank # "\\" /\ Blank # "$" /\ Blank \notin Quotes
  BY Zenon DEF Blank, Quotes
<1>2. \A c \in Operators : c # "\\" /\ c # "$" /\ c \notin Quotes
  BY Zenon DEF Operators, Quotes
<1>3. \A c \in WordChars : c # "\\" /\ c # "$" /\ c \notin Quotes
  BY Zenon DEF WordChars, NameChars, Quotes
<1> QED BY <1>1, <1>2, <1>3, Letters, Zenon DEF Plain

LEMMA NotBlank ==
  /\ "<" # Blank /\ ">" # Blank /\ "2" # Blank /\ "|" # Blank /\ "&" # Blank
  /\ Nothing \notin Quotes /\ Nothing # "'"
BY Zenon DEF Blank, Quotes

LEMMA RedirStartIs ==
  ASSUME NEW p \in Seq(Char), p # <<>>
  PROVE  IsRedirStart(p) <=> \/ p[1] = "<" \/ p[1] = ">"
                             \/ Len(p) > 1 /\ p[1] = "2" /\ p[2] = ">"
<1>1. "<" \in Char /\ ">" \in Char /\ "2" \in Char
  <2>1. "2" \in WordChars /\ "<" \in Operators /\ ">" \in Operators
    BY Zenon DEF WordChars, NameChars, Operators
  <2> QED BY <2>1, Letters
<1>2. Len(p) \in Nat \ {0}
  BY EmptySeq
<1>3. IsPrefix(<<"<">>, p) <=> p[1] = "<"
  <2> DEFINE a == <<"<">>
  <2>1. a \in Seq(Char) /\ Len(a) = 1 /\ a[1] = "<"
    BY <1>1
  <2> HIDE DEF a
  <2>2. IsPrefix(a, p) <=> Len(a) <= Len(p) /\ \A i \in 1..Len(a) : a[i] = p[i]
    <3>1. a \in Seq(Char)
      BY <2>1
    <3> QED BY <3>1, PrefixIs
  <2>3. IsPrefix(a, p) <=> p[1] = "<"
    BY <1>2, <2>1, <2>2
  <2> QED BY <2>3 DEF a
<1>4. IsPrefix(<<">">>, p) <=> p[1] = ">"
  <2> DEFINE a == <<">">>
  <2>1. a \in Seq(Char) /\ Len(a) = 1 /\ a[1] = ">"
    BY <1>1
  <2> HIDE DEF a
  <2>2. IsPrefix(a, p) <=> Len(a) <= Len(p) /\ \A i \in 1..Len(a) : a[i] = p[i]
    <3>1. a \in Seq(Char)
      BY <2>1
    <3> QED BY <3>1, PrefixIs
  <2>3. IsPrefix(a, p) <=> p[1] = ">"
    BY <1>2, <2>1, <2>2
  <2> QED BY <2>3 DEF a
<1>5. IsPrefix(<<"2", ">">>, p) <=> Len(p) > 1 /\ p[1] = "2" /\ p[2] = ">"
  <2> DEFINE a == <<"2", ">">>
  <2>1. a \in Seq(Char) /\ Len(a) = 2 /\ a[1] = "2" /\ a[2] = ">"
    BY <1>1
  <2> HIDE DEF a
  <2>2. IsPrefix(a, p) <=> Len(a) <= Len(p) /\ \A i \in 1..Len(a) : a[i] = p[i]
    <3>1. a \in Seq(Char)
      BY <2>1
    <3> QED BY <3>1, PrefixIs
  <2>3. IsPrefix(a, p) <=> Len(p) > 1 /\ p[1] = "2" /\ p[2] = ">"
    BY <1>2, <2>1, <2>2
  <2> QED BY <2>3 DEF a
<1> QED BY <1>3, <1>4, <1>5 DEF IsRedirStart

PlainWords == [ok : {TRUE}, quote : {Nothing}, word : Seq(Plain), rest : Seq(Plain)]

\* Where a word without quotes ends.
Stop(s) == s = <<>> \/ Head(s) = Blank \/ IsRedirStart(s)

LEMMA WordTurnPlain ==
  ASSUME NEW w \in PlainWords
  PROVE  /\ WordTurn(w) \in PlainWords
         /\ WordTurn(w) = IF Stop(w.rest) THEN w
                          ELSE [w EXCEPT !.word = Append(w.word, Head(w.rest)), !.rest = Tail(w.rest)]
<1> DEFINE s == w.rest
           c == Head(s)
           next == [w EXCEPT !.word = Append(w.word, c), !.rest = Tail(s)]
<1>1. w.ok = TRUE /\ w.quote = Nothing /\ w.word \in Seq(Plain) /\ s \in Seq(Plain)
  BY DEF PlainWords
<1>2. CASE s = <<>>
  <2>1. WordTurn(w) = w
    BY <1>2 DEF WordTurn
  <2> QED BY <1>2, <2>1 DEF Stop
<1>3. ASSUME s # <<>>
      PROVE  c \in Plain /\ Tail(s) \in Seq(Plain) /\ c \notin Quotes /\ c # "\\" /\ c # "$" /\ c # Nothing
  <2>1. c \in Plain /\ Tail(s) \in Seq(Plain)
    BY <1>1, <1>3, HeadTail
  <2>2. c \notin Quotes /\ c # "\\" /\ c # "$"
    BY <2>1, PlainChars
  <2>3. c \in Char /\ Nothing \notin Char
    BY <2>1, PlainChars, CharIs
  <2> HIDE DEF c
  <2> QED BY <2>1, <2>2, <2>3
<1>5. CASE s # <<>> /\ Stop(s)
  <2>1. c = Blank \/ IsRedirStart(s)
    BY <1>5 DEF Stop
  <2>2. c \notin Quotes /\ c # "\\" /\ c # "$" /\ c # Nothing
    BY <1>3, <1>5
  <2>3. s # <<>>
    BY <1>5
  <2> HIDE DEF c
  <2>4. WordTurn(w) = w
    BY <1>1, <2>1, <2>2, <2>3, Zenon DEF WordTurn, c
  <2> QED BY <1>5, <2>4
<1>4. CASE ~Stop(s)
  <2>1. s # <<>> /\ c # Blank /\ ~IsRedirStart(s)
    BY <1>4 DEF Stop
  <2>2. c \in Plain /\ Tail(s) \in Seq(Plain)
    BY <1>3, <2>1
  <2>3. c \notin Quotes /\ c # "\\" /\ c # "$" /\ c # Nothing
    BY <1>3, <2>1
  <2>4. Append(w.word, c) \in Seq(Plain)
    BY <1>1, <2>2, AppendProperties
  <2> HIDE DEF c
  <2>5. WordTurn(w) = next
    BY <1>1, <2>1, <2>3, Zenon DEF WordTurn, c
  <2>6. next \in PlainWords
    BY <1>1, <2>2, <2>4 DEF PlainWords
  <2> QED BY <1>4, <2>5, <2>6 DEF c
<1> QED BY <1>2, <1>4, <1>5

LEMMA WordTurnStays ==
  ASSUME NEW w \in PlainWords
  PROVE  WordTurn(w) \in PlainWords
BY WordTurnPlain, Zenon

LEMMA WordRuns ==
  ASSUME NEW s \in Seq(Plain)
  PROVE  \E at \in [0..Len(s) -> PlainWords] :
           /\ at[0] = [ok |-> TRUE, quote |-> Nothing, word |-> <<>>, rest |-> s]
           /\ \A k \in 1..Len(s) : at[k] = WordTurn(at[k - 1])
           /\ Word(s) = at[Len(s)]
<1> DEFINE s0 == [ok |-> TRUE, quote |-> Nothing, word |-> <<>>, rest |-> s]
           F == [k \in 1..Len(s) |-> [x \in PlainWords |-> WordTurn(x)]]
           Is(f) == f = [k \in 0..Len(s) |-> IF k = 0 THEN s0 ELSE WordTurn(f[k - 1])]
           g == CHOOSE f : Is(f)
<1>1. Len(s) \in Nat
  OBVIOUS
<1>2. s0 \in PlainWords
  BY DEF PlainWords
<1>3. \A x \in PlainWords : WordTurn(x) \in PlainWords
  BY WordTurnStays
<1>4. F \in [1..Len(s) -> [PlainWords -> PlainWords]]
  BY <1>3
<1>5. PICK at \in [0..Len(s) -> PlainWords] : Loop(F, s0, Len(s), at)
  <2> HIDE DEF F, s0
  <2> QED BY <1>1, <1>2, <1>4, LoopRuns
<1>6. \A k \in 1..Len(s) : at[k] = WordTurn(at[k - 1])
  <2> TAKE k \in 1..Len(s)
  <2>1. at[k - 1] \in PlainWords /\ at[k] = F[k][at[k - 1]]
    BY <1>5 DEF Loop
  <2> QED BY <2>1
<1>7. at[0] = s0
  BY <1>5 DEF Loop
<1>8. Is(at)
  BY <1>1, <1>6, <1>7
<1>9. Is(g)
  BY <1>8
<1>10. Word(s) = g[Len(s)]
  BY DEF Word
<1>11. g[0] = s0 /\ \A k \in 1..Len(s) : g[k] = WordTurn(g[k - 1])
  <2> HIDE DEF g, s0
  <2> QED BY <1>1, <1>9
<1>12. g \in [0..Len(s) -> PlainWords]
  <2> DEFINE Good == {k \in 0..Len(s) : g[k] \in PlainWords}
  <2>1. 0 \in Good
    BY <1>1, <1>2, <1>11
  <2>2. ASSUME NEW k \in 1..Len(s), k - 1 \in Good PROVE k \in Good
    <3> HIDE DEF g
    <3>1. g[k - 1] \in PlainWords /\ g[k] = WordTurn(g[k - 1]) /\ k \in 0..Len(s)
      BY <1>1, <1>11, <2>2
    <3> QED BY <1>3, <3>1
  <2> HIDE DEF Good
  <2>3. \A k \in 0..Len(s) : k \in Good
    BY <1>1, <2>1, <2>2, Counting
  <2>4. \A k \in 0..Len(s) : g[k] \in PlainWords
    BY <2>3 DEF Good
  <2> HIDE DEF g, s0
  <2> QED BY <1>9, <2>4
<1> HIDE DEF g
<1> QED BY <1>10, <1>11, <1>12

\* A word is what goes to the first place where it may end.
Reads(s, n) == Stop(Drop(s, n)) /\ \A i \in 1..n : ~Stop(Drop(s, i - 1))

LEMMA WordIs ==
  ASSUME NEW s \in Seq(Plain)
  PROVE  \E n \in 0..Len(s) :
           /\ Reads(s, n)
           /\ Word(s).ok = TRUE /\ Word(s).quote = Nothing
           /\ Word(s).word = Take(s, n) /\ Word(s).rest = Drop(s, n)
<1>1. PICK at \in [0..Len(s) -> PlainWords] :
        /\ at[0] = [ok |-> TRUE, quote |-> Nothing, word |-> <<>>, rest |-> s]
        /\ \A k \in 1..Len(s) : at[k] = WordTurn(at[k - 1])
        /\ Word(s) = at[Len(s)]
  BY WordRuns
<1> DEFINE At(k, n) == /\ at[k].word = Take(s, n) /\ at[k].rest = Drop(s, n)
                       /\ \A i \in 1..n : ~Stop(Drop(s, i - 1))
                       /\ n = k \/ Stop(Drop(s, n))
           Good == {k \in 0..Len(s) : \E n \in 0..k : At(k, n)}
<1>2. Len(s) \in Nat
  OBVIOUS
<1>3. 0 \in Good
  <2>1. Take(s, 0) = <<>> /\ Drop(s, 0) = s
    <3>1. SubSeq(s, 1, 0) = <<>> /\ SubSeq(s, 1, Len(s)) = s
      BY SubSeqEmpty, SubSeqFull
    <3> QED BY <3>1 DEF Take, Drop
  <2>2. At(0, 0)
    BY <1>1, <2>1
  <2> HIDE DEF At
  <2> QED BY <1>2, <2>2
<1>4. ASSUME NEW k \in 1..Len(s), k - 1 \in Good PROVE k \in Good
  <2>1. PICK n \in 0..(k - 1) : At(k - 1, n)
    BY <1>4
  <2> DEFINE w == at[k - 1]
  <2>2. w \in PlainWords /\ at[k] = WordTurn(w) /\ n \in 0..k
    BY <1>1, <1>2
  <2>3. at[k] = IF Stop(w.rest) THEN w
                ELSE [w EXCEPT !.word = Append(w.word, Head(w.rest)), !.rest = Tail(w.rest)]
    <3> HIDE DEF w
    <3> QED BY <2>2, WordTurnPlain, Zenon
  <2>4. CASE Stop(Drop(s, n))
    <3>1. at[k] = w
      BY <2>1, <2>3, <2>4
    <3>2. At(k, n)
      BY <2>1, <2>4, <3>1
    <3> HIDE DEF At
    <3> QED BY <1>2, <2>2, <3>2
  <2>5. CASE ~Stop(Drop(s, n))
    <3>1. n = k - 1 /\ n \in 0..Len(s) /\ n + 1 \in 0..Len(s) /\ n + 1 = k
      BY <1>2, <2>1, <2>5
    <3> DEFINE d == Drop(s, n)
    <3>2. d \in Seq(Plain) /\ Len(d) = Len(s) - n /\ \A i \in 1..(Len(s) - n) : d[i] = s[n + i]
      BY <3>1, Cut
    <3>3. d # <<>> /\ Head(d) = s[n + 1] /\ Tail(d) = Drop(s, n + 1)
      <4>1. d # <<>>
        BY <2>5 DEF Stop
      <4>2. Head(d) = d[1] /\ 1 \in 1..(Len(s) - n)
        <5> HIDE DEF d
        <5> QED BY <1>2, <3>1, <3>2, <4>1, HeadTail
      <4>3. Tail(d) = SubSeq(s, n + 1 + 1, Len(s))
        <5>1. n + 1 \in 1..Len(s) /\ Len(s) \in (n + 1)..Len(s)
          BY <1>2, <3>1
        <5> QED BY <5>1, HeadTailOfSubSeq DEF Drop
      <4> QED BY <3>2, <4>1, <4>2, <4>3 DEF Drop
    <3>4. Append(Take(s, n), s[n + 1]) = Take(s, n + 1)
      <4>1. n + 1 \in 1..Len(s) /\ 1 \in 1..Len(s) /\ n + 1 \in 1..Len(s) /\ (n + 1) - 1 = n
        BY <1>2, <3>1
      <4>2. SubSeq(s, 1, n + 1) = SubSeq(s, 1, n) \o <<s[n + 1]>>
        BY <4>1, SubSeqRecursiveSecond
      <4>3. SubSeq(s, 1, n) \in Seq(Plain) /\ s[n + 1] \in Plain
        BY <3>1, <4>1, Cut DEF Take
      <4>4. Append(SubSeq(s, 1, n), s[n + 1]) = SubSeq(s, 1, n) \o <<s[n + 1]>>
        BY <4>3, AppendIsConcat
      <4> QED BY <4>2, <4>4 DEF Take
    <3>5. at[k].word = Take(s, n + 1) /\ at[k].rest = Drop(s, n + 1)
      <4>1. w.word = Take(s, n) /\ w.rest = d /\ ~Stop(w.rest)
        BY <2>1, <2>5
      <4>2. at[k] = [w EXCEPT !.word = Append(w.word, Head(w.rest)), !.rest = Tail(w.rest)]
        BY <2>3, <4>1
      <4>3. at[k].word = Append(w.word, Head(w.rest)) /\ at[k].rest = Tail(w.rest)
        BY <2>2, <4>2 DEF PlainWords
      <4> QED BY <3>3, <3>4, <4>1, <4>3
    <3>6. ASSUME NEW i \in 1..(n + 1) PROVE ~Stop(Drop(s, i - 1))
      <4>1. CASE i \in 1..n
        BY <2>1, <4>1
      <4>2. CASE i = n + 1
        <5>1. i - 1 = n
          BY <3>1, <4>2
        <5> QED BY <2>5, <5>1
      <4> QED BY <3>1, <4>1, <4>2
    <3>7. At(k, n + 1)
      BY <3>1, <3>5, <3>6
    <3>8. n + 1 \in 0..k
      BY <3>1
    <3> HIDE DEF At
    <3> QED BY <1>2, <3>7, <3>8
  <2> QED BY <2>4, <2>5
<1> HIDE DEF Good
<1>5. \A k \in 0..Len(s) : k \in Good
  BY <1>2, <1>3, <1>4, Counting
<1>6. Len(s) \in Good
  BY <1>2, <1>5
<1>7. PICK n \in 0..Len(s) : At(Len(s), n)
  BY <1>6 DEF Good
<1>8. Stop(Drop(s, n))
  <2>1. CASE n = Len(s)
    <3>1. Drop(s, Len(s)) = <<>>
      BY <1>2, SubSeqEmpty DEF Drop
    <3> QED BY <2>1, <3>1 DEF Stop
  <2> QED BY <1>7, <2>1
<1>9. at[Len(s)] \in PlainWords
  BY <1>2
<1> QED BY <1>1, <1>7, <1>8, <1>9 DEF Reads, PlainWords

-----------------------------------------------------------------------------
(* strtok.                                                                 *)

Splits(X) == [rest : Seq(X), words : Seq(Seq(X))]

LEMMA SplitTurnIs ==
  ASSUME NEW X, NEW x \in Splits(X)
  PROVE  LET p == SkipBlanks(x.rest) n == Span(p, {c \in Range(p) : c # Blank}) IN
         /\ SplitTurn(x) \in Splits(X)
         /\ p \in Seq(X) /\ n \in 0..Len(p)
         /\ p = <<>> => SplitTurn(x) = x
         /\ p # <<>> => /\ n > 0
                        /\ SplitTurn(x).rest = Drop(p, n)
                        /\ SplitTurn(x).words = Append(x.words, Take(p, n))
<1> DEFINE p == SkipBlanks(x.rest)
           n == Span(p, {c \in Range(p) : c # Blank})
<1>1. x.rest \in Seq(X) /\ x.words \in Seq(Seq(X))
  BY DEF Splits
<1>2. p \in Seq(X) /\ (p # <<>> => Head(p) # Blank)
  BY <1>1, Skip
<1>3. CASE p = <<>>
  <2>1. SplitTurn(x) = x
    BY <1>3 DEF SplitTurn
  <2>2. n \in 0..Len(p)
    <3> HIDE DEF p
    <3> QED BY <1>2, SpanIs
  <2> QED BY <1>2, <1>3, <2>1, <2>2
<1>4. CASE p # <<>>
  <2>1. SplitTurn(x) = [rest |-> Drop(p, n), words |-> Append(x.words, Take(p, n))]
    BY <1>4 DEF SplitTurn
  <2> DEFINE C == {c \in Range(p) : c # Blank}
  <2>2. n = Span(p, C)
    OBVIOUS
  <2> HIDE DEF n, p, C
  <2>3. n \in 0..Len(p) /\ (n < Len(p) => p[n + 1] \notin C)
    BY <1>2, <2>2, SpanIs
  <2>4. Head(p) = p[1] /\ Len(p) \in Nat \ {0} /\ p[1] # Blank
    BY <1>2, <1>4, HeadTail
  <2>5. p[1] \in Range(p)
    BY <1>2, <2>4 DEF Range
  <2>6. p[1] \in C
    BY <2>4, <2>5 DEF C
  <2>7. n > 0
    BY <2>3, <2>4, <2>6
  <2>8. Take(p, n) \in Seq(X) /\ Drop(p, n) \in Seq(X)
    BY <1>2, <2>3, Cut
  <2>9. Append(x.words, Take(p, n)) \in Seq(Seq(X))
    BY <1>1, <2>8, AppendProperties
  <2>10. SplitTurn(x) \in Splits(X)
    BY <2>1, <2>8, <2>9 DEF Splits
  <2> QED BY <1>2, <1>4, <2>1, <2>3, <2>7, <2>10 DEF n, p
<1> QED BY <1>3, <1>4

LEMMA SplitTurnStays ==
  ASSUME NEW X, NEW x \in Splits(X)
  PROVE  SplitTurn(x) \in Splits(X)
BY SplitTurnIs, Zenon

\* A run of the loop of parse_command.
SplitAt(s, n, at) == /\ at[0] = [rest |-> s, words |-> <<>>]
                     /\ \A k \in 1..n : at[k] = SplitTurn(at[k - 1])

LEMMA SplitRun ==
  ASSUME NEW X, NEW s \in Seq(X), NEW n \in Nat
  PROVE  \E at \in [0..n -> Splits(X)] : SplitAt(s, n, at)
<1> DEFINE S == Splits(X)
           s0 == [rest |-> s, words |-> <<>>]
           F == [k \in 1..n |-> [x \in S |-> SplitTurn(x)]]
<1>1. s0 \in S
  BY DEF Splits
<1>2. \A x \in S : SplitTurn(x) \in S
  BY SplitTurnStays
<1>3. F \in [1..n -> [S -> S]]
  BY <1>2
<1>4. PICK at \in [0..n -> S] : Loop(F, s0, n, at)
  <2> HIDE DEF F, s0, S
  <2> QED BY <1>1, <1>3, LoopRuns
<1>5. ASSUME NEW k \in 1..n PROVE at[k] = SplitTurn(at[k - 1])
  <2>1. at[k - 1] \in S /\ at[k] = F[k][at[k - 1]]
    BY <1>4 DEF Loop
  <2> QED BY <2>1
<1> QED BY <1>4, <1>5 DEF Loop, SplitAt

LEMMA SplitIsRun ==
  ASSUME NEW X, NEW s \in Seq(X)
  PROVE  \E at : SplitAt(s, Len(s), at) /\ Split(s) = at[Len(s)].words
<1> DEFINE n == Len(s)
           Is(f) == f = [k \in 0..n |-> IF k = 0 THEN [rest |-> s, words |-> <<>>] ELSE SplitTurn(f[k - 1])]
           g == CHOOSE f : Is(f)
<1>1. n \in Nat
  OBVIOUS
<1>2. PICK at \in [0..n -> Splits(X)] : SplitAt(s, n, at)
  <2> HIDE DEF n
  <2> QED BY <1>1, SplitRun
<1>3. Is(at)
  BY <1>1, <1>2 DEF SplitAt
<1>4. Is(g)
  BY <1>3
<1>5. Split(s) = g[n].words
  BY DEF Split
<1>6. SplitAt(s, n, g)
  <2> HIDE DEF g
  <2> QED BY <1>1, <1>4 DEF SplitAt
<1> HIDE DEF g
<1> QED BY <1>5, <1>6

\* Two runs that start alike go alike.
LEMMA SplitRunsAgree ==
  ASSUME NEW s, NEW n \in Nat, NEW m \in 0..n, NEW f, SplitAt(s, n, f), NEW g, SplitAt(s, m, g)
  PROVE  f[m] = g[m]
<1> DEFINE Good == {k \in 0..m : f[k] = g[k]}
<1>1. m \in Nat
  OBVIOUS
<1>2. 0 \in Good
  BY DEF SplitAt
<1>3. ASSUME NEW k \in 1..m, k - 1 \in Good PROVE k \in Good
  <2>1. k \in 1..n /\ k \in 0..m
    BY <1>1
  <2> QED BY <1>3, <2>1 DEF SplitAt
<1> HIDE DEF Good
<1>4. \A k \in 0..m : k \in Good
  BY <1>1, <1>2, <1>3, Counting
<1>5. m \in Good
  BY <1>1, <1>4
<1> QED BY <1>5 DEF Good

\* Each turn takes a character at least, so the text is read after as many turns.
LEMMA SplitEnds ==
  ASSUME NEW X, NEW s \in Seq(X), NEW n \in Nat, NEW at \in [0..n -> Splits(X)], SplitAt(s, n, at),
         NEW k \in 0..n
  PROVE  Len(at[k].rest) + k <= Len(s) \/ SkipBlanks(at[k].rest) = <<>>
<1> DEFINE Done(j) == Len(at[j].rest) + j <= Len(s) \/ SkipBlanks(at[j].rest) = <<>>
           Good == {j \in 0..n : Done(j)}
<1>1. 0 \in Good
  BY DEF SplitAt
<1>2. ASSUME NEW j \in 1..n, j - 1 \in Good PROVE j \in Good
  <2> DEFINE x == at[j - 1]
             p == SkipBlanks(x.rest)
             m == Span(p, {c \in Range(p) : c # Blank})
  <2>1. x \in Splits(X) /\ at[j] = SplitTurn(x) /\ Done(j - 1) /\ j \in 0..n
    BY <1>2 DEF SplitAt
  <2> HIDE DEF x
  <2>2. x.rest \in Seq(X) /\ Len(x.rest) \in Nat
    BY <2>1 DEF Splits
  <2>3. Len(p) \in 0..Len(x.rest)
    BY <2>2, Skip
  <2>4. /\ p \in Seq(X) /\ m \in 0..Len(p)
        /\ p = <<>> => SplitTurn(x) = x
        /\ p # <<>> => m > 0 /\ SplitTurn(x).rest = Drop(p, m)
    BY <2>1, SplitTurnIs
  <2>5. CASE p = <<>>
    <3>1. at[j] = x
      BY <2>1, <2>4, <2>5
    <3> QED BY <2>1, <2>5, <3>1
  <2>6. CASE p # <<>>
    <3> HIDE DEF p, m
    <3>1. Len(Drop(p, m)) = Len(p) - m
      BY <2>4, Cut
    <3>2. Len(x.rest) + (j - 1) <= Len(s)
      BY <2>1, <2>6 DEF x, p
    <3>3. at[j].rest = Drop(p, m) /\ m > 0
      BY <2>1, <2>4, <2>6
    <3>4. Len(at[j].rest) + j <= Len(s)
      <4>1. ASSUME NEW a \in Nat, NEW b \in Nat, NEW c \in Nat, NEW d \in Nat, NEW i \in Nat \ {0},
                   b <= a, c \in 0..b, c > 0, a + (i - 1) <= d
            PROVE  (b - c) + i <= d
        BY <4>1
      <4>2. Len(p) \in Nat /\ Len(p) <= Len(x.rest) /\ Len(s) \in Nat /\ j \in Nat \ {0}
        BY <2>2, <2>3
      <4>3. (Len(p) - m) + j <= Len(s)
        BY <2>2, <2>4, <3>2, <3>3, <4>1, <4>2
      <4> QED BY <3>1, <3>3, <4>3
    <3> QED BY <2>1, <3>4
  <2> QED BY <2>5, <2>6
<1> HIDE DEF Good
<1>3. \A j \in 0..n : j \in Good
  BY <1>1, <1>2, Counting
<1> QED BY <1>3 DEF Good

\* More turns than that change nothing.
LEMMA SplitLong ==
  ASSUME NEW X, NEW s \in Seq(X), NEW n \in Nat, Len(s) <= n,
         NEW at \in [0..n -> Splits(X)], SplitAt(s, n, at)
  PROVE  at[n].words = Split(s)
<1> DEFINE m == Len(s)
<1>1. m \in 0..n /\ n - m \in Nat
  OBVIOUS
<1>2. PICK g : SplitAt(s, m, g) /\ Split(s) = g[m].words
  BY SplitIsRun
<1>3. at[m] = g[m]
  <2> HIDE DEF m
  <2> QED BY <1>1, <1>2, SplitRunsAgree
<1>4. SkipBlanks(at[m].rest) = <<>>
  <2>1. Len(at[m].rest) + m <= m \/ SkipBlanks(at[m].rest) = <<>>
    BY <1>1, SplitEnds
  <2>2. at[m].rest \in Seq(X)
    BY <1>1 DEF Splits
  <2>3. CASE Len(at[m].rest) + m <= m
    <3> DEFINE r == at[m].rest
    <3>1. Len(r) = 0
      BY <1>1, <2>2, <2>3
    <3> HIDE DEF r
    <3>2. r = <<>>
      BY <2>2, <3>1, EmptySeq DEF r
    <3>3. SkipBlanks(r) = r
      BY <2>2, <3>2, SkipNone DEF r
    <3> QED BY <3>2, <3>3 DEF r
  <2> QED BY <2>1, <2>3
<1> DEFINE Good == {j \in 0..(n - m) : at[m + j] = at[m]}
<1>5. 0 \in Good
  BY <1>1
<1>6. ASSUME NEW j \in 1..(n - m), j - 1 \in Good PROVE j \in Good
  <2>1. m + j \in 1..n /\ (m + j) - 1 = m + (j - 1) /\ j \in 0..(n - m)
    BY <1>1
  <2> DEFINE i == m + j
  <2>2. at[i] = SplitTurn(at[i - 1])
    BY <2>1 DEF SplitAt
  <2>3. at[i - 1] = at[m]
    BY <1>6, <2>1
  <2>4. SplitTurn(at[m]) = at[m]
    <3>1. at[m] \in Splits(X)
      BY <1>1
    <3> HIDE DEF m
    <3> QED BY <1>4, <3>1, SplitTurnIs
  <2> QED BY <2>1, <2>2, <2>3, <2>4
<1> HIDE DEF Good
<1>7. \A j \in 0..(n - m) : j \in Good
  BY <1>1, <1>5, <1>6, Counting
<1>8. n - m \in Good
  BY <1>1, <1>7
<1>9. at[m + (n - m)] = at[m]
  BY <1>8 DEF Good
<1> QED BY <1>1, <1>2, <1>3, <1>9

LEMMA SplitIs ==
  ASSUME NEW X, NEW s \in Seq(X)
  PROVE  Split(s) \in Seq(Seq(X)) /\ (SkipBlanks(s) = <<>> => Split(s) = <<>>)
<1>1. Len(s) \in Nat
  OBVIOUS
<1>2. PICK at \in [0..Len(s) -> Splits(X)] : SplitAt(s, Len(s), at)
  BY <1>1, SplitRun
<1>3. at[Len(s)].words = Split(s)
  BY <1>1, <1>2, SplitLong
<1>4. at[Len(s)] \in Splits(X)
  BY <1>1
<1>5. ASSUME SkipBlanks(s) = <<>> PROVE Split(s) = <<>>
  <2> DEFINE Good == {j \in 0..Len(s) : at[j] = [rest |-> s, words |-> <<>>]}
  <2>1. 0 \in Good
    BY <1>1, <1>2 DEF SplitAt
  <2>2. ASSUME NEW j \in 1..Len(s), j - 1 \in Good PROVE j \in Good
    <3> DEFINE x == at[j - 1]
    <3>1. x \in Splits(X) /\ x = [rest |-> s, words |-> <<>>] /\ at[j] = SplitTurn(x) /\ j \in 0..Len(s)
      BY <1>1, <1>2, <2>2 DEF SplitAt
    <3>2. SkipBlanks(x.rest) = <<>>
      BY <1>5, <3>1
    <3> HIDE DEF x
    <3>3. SplitTurn(x) = x
      BY <3>1, <3>2, SplitTurnIs
    <3> QED BY <3>1, <3>3
  <2> HIDE DEF Good
  <2>3. \A j \in 0..Len(s) : j \in Good
    BY <1>1, <2>1, <2>2, Counting
  <2>4. Len(s) \in Good
    BY <1>1, <2>3
  <2>5. at[Len(s)].words = <<>>
    BY <2>4 DEF Good
  <2> QED BY <1>3, <2>5
<1> QED BY <1>3, <1>4, <1>5 DEF Splits

-----------------------------------------------------------------------------
(* Texts joined to one.                                                    *)

\* f holds the text of the first k of them.
Flat(q, f) == f[0] = <<>> /\ \A k \in 1..Len(q) : f[k] = f[k - 1] \o q[k]

LEMMA FlatExists ==
  ASSUME NEW X, NEW q \in Seq(Seq(X))
  PROVE  \E f \in [0..Len(q) -> Seq(X)] : Flat(q, f)
<1> DEFINE S == Seq(X)
           n == Len(q)
           F == [k \in 1..n |-> [x \in S |-> x \o q[k]]]
           e == <<>>
<1>1. n \in Nat /\ e \in S
  OBVIOUS
<1>2. \A k \in 1..n : \A x \in S : x \o q[k] \in S
  BY ConcatProperties
<1>3. F \in [1..n -> [S -> S]]
  BY <1>2
<1>4. PICK f \in [0..n -> S] : Loop(F, e, n, f)
  <2> HIDE DEF F, S, n, e
  <2> QED BY <1>1, <1>3, LoopRuns
<1>5. ASSUME NEW k \in 1..n PROVE f[k] = f[k - 1] \o q[k]
  <2>1. f[k] = F[k][f[k - 1]]
    BY <1>4 DEF Loop
  <2>2. f[k - 1] \in S
    <3>1. k - 1 \in 0..n
      BY <1>1
    <3> HIDE DEF S, n
    <3> QED BY <1>4, <3>1
  <2> QED BY <2>1, <2>2
<1> QED BY <1>4, <1>5 DEF Loop, Flat

LEMMA FlatTurn ==
  ASSUME NEW q, NEW f, Flat(q, f)
  PROVE  f[0] = <<>> /\ \A k \in 1..Len(q) : f[k] = f[k - 1] \o q[k]
BY Zenon DEF Flat

LEMMA FlatIs ==
  ASSUME NEW X, NEW q \in Seq(Seq(X)), NEW f, Flat(q, f)
  PROVE  FlattenSeq(q) = f[Len(q)]
<1> DEFINE n == Len(q)
           Is(h) == h = [i \in 1..n |-> IF i = 1 THEN q[i] ELSE h[i - 1] \o q[i]]
           g == CHOOSE h : Is(h)
<1>1. n \in Nat
  OBVIOUS
<1>2. CASE n = 0
  <2>1. FlattenSeq(q) = q /\ q = <<>>
    BY <1>2, EmptySeq DEF FlattenSeq
  <2> QED BY <1>2, <2>1 DEF Flat
<1>3. CASE n # 0
  <2>1. FlattenSeq(q) = g[n]
    BY <1>3 DEF FlattenSeq
  <2> DEFINE h == [i \in 1..n |-> f[i]]
  <2>2. f[1] = q[1]
    <3>1. 1 \in 1..Len(q) /\ 1 - 1 = 0
      BY <1>1, <1>3
    <3>2. f[1] = f[1 - 1] \o q[1] /\ f[0] = <<>>
      BY <3>1, FlatTurn, Zenon
    <3>3. f[1] = f[0] \o q[1]
      BY <3>1, <3>2, Zenon
    <3>4. q[1] \in Seq(X)
      BY <3>1
    <3>5. <<>> \o q[1] = q[1]
      BY <3>4, ConcatEmptySeq
    <3> QED BY <3>2, <3>3, <3>5, Zenon
  <2>3. \A i \in 1..n : i # 1 => i - 1 \in 1..n /\ f[i] = f[i - 1] \o q[i]
    <3>1. \A i \in 1..n : i # 1 => i - 1 \in 1..n
      BY <1>1
    <3>2. \A i \in 1..n : f[i] = f[i - 1] \o q[i]
      BY FlatTurn, Zenon
    <3> QED BY <3>1, <3>2, Zenon
  <2>4. Is(h)
    <3> HIDE DEF n
    <3> QED BY <2>2, <2>3
  <2>5. Is(g)
    <3> HIDE DEF h
    <3> QED BY <2>4
  <2> DEFINE Good == {k \in 0..n : k > 0 => g[k] = f[k]}
  <2>6. 0 \in Good
    BY <1>1
  <2>7. ASSUME NEW k \in 1..n, k - 1 \in Good PROVE k \in Good
    <3> HIDE DEF g, h
    <3>1. g[k] = IF k = 1 THEN q[k] ELSE g[k - 1] \o q[k]
      BY <2>5
    <3>2. CASE k = 1
      BY <1>1, <2>2, <3>1, <3>2
    <3>3. CASE k # 1
      <4>1. g[k - 1] = f[k - 1] /\ k \in 0..n
        BY <1>1, <2>7, <3>3
      <4> QED BY <2>3, <3>1, <3>3, <4>1
    <3> QED BY <3>2, <3>3
  <2> HIDE DEF Good, g
  <2>8. \A k \in 0..n : k \in Good
    BY <1>1, <2>6, <2>7, Counting
  <2>9. n \in Good
    BY <1>1, <2>8
  <2> QED BY <1>1, <1>3, <2>1, <2>9 DEF Good
<1> QED BY <1>2, <1>3

LEMMA Flattened ==
  ASSUME NEW X, NEW q \in Seq(Seq(X))
  PROVE  FlattenSeq(q) \in Seq(X) /\ (q = <<>> => FlattenSeq(q) = <<>>)
<1>1. PICK f \in [0..Len(q) -> Seq(X)] : Flat(q, f)
  BY FlatExists
<1>2. FlattenSeq(q) = f[Len(q)]
  BY <1>1, FlatIs
<1>3. Len(q) \in 0..Len(q)
  OBVIOUS
<1>4. q = <<>> => Len(q) = 0
  OBVIOUS
<1> QED BY <1>1, <1>2, <1>3, <1>4 DEF Flat

LEMMA FlattenAppend ==
  ASSUME NEW X, NEW q \in Seq(Seq(X)), NEW t \in Seq(X)
  PROVE  FlattenSeq(Append(q, t)) = FlattenSeq(q) \o t
<1> DEFINE a == Append(q, t)
           n == Len(q)
<1>1. n \in Nat /\ a \in Seq(Seq(X)) /\ Len(a) = n + 1 /\ a[n + 1] = t /\ \A i \in 1..n : a[i] = q[i]
  BY AppendProperties
<1> HIDE DEF a
<1>2. PICK f \in [0..Len(a) -> Seq(X)] : Flat(a, f)
  BY <1>1, FlatExists
<1>3. Flat(q, f)
  <2>1. \A k \in 1..n : k \in 1..Len(a)
    BY <1>1
  <2>2. f[0] = <<>> /\ \A k \in 1..Len(a) : f[k] = f[k - 1] \o a[k]
    BY <1>2, FlatTurn, Zenon
  <2>3. \A k \in 1..n : f[k] = f[k - 1] \o q[k]
    BY <1>1, <2>1, <2>2, Zenon
  <2> QED BY <2>2, <2>3, Zenon DEF Flat
<1>4. FlattenSeq(a) = f[n + 1]
  BY <1>1, <1>2, FlatIs
<1>5. FlattenSeq(q) = f[n]
  BY <1>3, FlatIs
<1>6. f[n + 1] = f[n] \o t
  <2>1. n + 1 \in 1..Len(a) /\ (n + 1) - 1 = n
    BY <1>1
  <2>2. f[n + 1] = f[(n + 1) - 1] \o a[n + 1]
    BY <1>2, <2>1, FlatTurn, Zenon
  <2> QED BY <1>1, <2>1, <2>2, Zenon
<1> QED BY <1>4, <1>5, <1>6 DEF a

LEMMA FlattenCons ==
  ASSUME NEW X, NEW q \in Seq(Seq(X)), NEW t \in Seq(X)
  PROVE  FlattenSeq(<<t>> \o q) = t \o FlattenSeq(q)
<1> DEFINE a == <<t>> \o q
           n == Len(q)
<1>1. n \in Nat /\ a \in Seq(Seq(X)) /\ Len(a) = n + 1 /\ a[1] = t /\ \A i \in 1..n : a[i + 1] = q[i]
  <2>1. <<t>> \in Seq(Seq(X)) /\ Len(<<t>>) = 1 /\ <<t>>[1] = t
    OBVIOUS
  <2> DEFINE b == <<t>>
  <2>2. /\ a = b \o q /\ b \o q \in Seq(Seq(X)) /\ Len(b \o q) = Len(b) + Len(q)
        /\ \A i \in 1..(Len(b) + Len(q)) : (b \o q)[i] = IF i <= Len(b) THEN b[i] ELSE q[i - Len(b)]
    BY ConcatProperties
  <2> HIDE DEF a, b
  <2>3. Len(b) = 1 /\ b[1] = t /\ n \in Nat
    BY <2>1 DEF b
  <2>4. a \in Seq(Seq(X)) /\ Len(a) = n + 1 /\ a[1] = t
    BY <2>2, <2>3
  <2>5. ASSUME NEW i \in 1..n PROVE a[i + 1] = q[i]
    BY <2>2, <2>3
  <2> QED BY <2>3, <2>4, <2>5
<1> HIDE DEF a
<1>0. ASSUME NEW u \in Seq(X), NEW v \in Seq(X)
      PROVE  (t \o u) \o v = t \o (u \o v)
  BY ConcatAssociative
<1>2. PICK f \in [0..Len(q) -> Seq(X)] : Flat(q, f)
  BY FlatExists
<1>3. PICK g \in [0..Len(a) -> Seq(X)] : Flat(a, g)
  BY <1>1, FlatExists
<1> DEFINE Good == {k \in 0..n : g[k + 1] = t \o f[k]}
<1>4. 0 \in Good
  <2>1. 1 \in 1..Len(a) /\ 1 - 1 = 0 /\ 0 + 1 = 1 /\ 0 \in 0..n
    BY <1>1
  <2>2. g[1] = g[1 - 1] \o a[1] /\ g[0] = <<>> /\ f[0] = <<>>
    BY <1>2, <1>3, <2>1, FlatTurn, Zenon
  <2>3. <<>> \o t = t /\ t \o <<>> = t
    BY ConcatEmptySeq
  <2> QED BY <1>1, <2>1, <2>2, <2>3, Zenon
<1>5. ASSUME NEW k \in 1..n, k - 1 \in Good PROVE k \in Good
  <2>1. /\ k + 1 \in 1..Len(a) /\ (k + 1) - 1 = k /\ (k - 1) + 1 = k /\ k \in 0..n
        /\ k - 1 \in 0..Len(q) /\ a[k + 1] = q[k]
    BY <1>1
  <2>2. g[k + 1] = g[k] \o q[k]
    BY <1>3, <2>1, FlatTurn, Zenon
  <2>3. g[k] = t \o f[k - 1]
    <3>1. g[(k - 1) + 1] = t \o f[k - 1]
      BY <1>5, Zenon
    <3> QED BY <2>1, <3>1, Zenon
  <2>4. f[k] = f[k - 1] \o q[k]
    BY <1>2, FlatTurn, Zenon
  <2>5. f[k - 1] \in Seq(X) /\ q[k] \in Seq(X)
    <3> DEFINE S == Seq(X)
    <3>1. q \in Seq(S) /\ f \in [0..Len(q) -> S] /\ k \in 1..Len(q)
      OBVIOUS
    <3> HIDE DEF S
    <3>2. f[k - 1] \in S
      BY <2>1, <3>1
    <3>3. q[k] \in S
      BY <3>1, ElementOfSeq
    <3> QED BY <3>2, <3>3 DEF S
  <2> DEFINE u == f[k - 1]
             v == q[k]
  <2>6. (t \o u) \o v = t \o (u \o v)
    <3>1. u \in Seq(X) /\ v \in Seq(X)
      BY <2>5
    <3> HIDE DEF u, v
    <3> QED BY <1>0, <3>1
  <2> QED BY <2>1, <2>2, <2>3, <2>4, <2>6, Zenon
<1> HIDE DEF Good
<1>6. \A k \in 0..n : k \in Good
  BY <1>1, <1>4, <1>5, Counting
<1>7. n \in Good
  BY <1>1, <1>6
<1>8. FlattenSeq(q) = f[n] /\ FlattenSeq(a) = g[n + 1]
  <2>1. FlattenSeq(a) = g[Len(a)]
    BY <1>1, <1>3, FlatIs
  <2>2. FlattenSeq(q) = f[Len(q)]
    BY <1>2, FlatIs
  <2> QED BY <1>1, <2>1, <2>2
<1> QED BY <1>7, <1>8 DEF Good, a

-----------------------------------------------------------------------------
(* The lexer.                                                              *)

LEMMA SymbolsAre ==
  /\ Len(Symbols) = 7 /\ DOMAIN Symbols = 1..7
  /\ Symbols \in Seq(Seq(Operators \cup WordChars)) /\ Symbols \in Seq(Seq(Char))
  /\ \A i \in 1..7 : Symbols[i] # <<>> /\ Len(Symbols[i]) \in Nat \ {0}
<1>1. Len(Symbols) = 7 /\ DOMAIN Symbols = 1..7
  BY DEF Symbols
<1>2. "2" \in WordChars /\ "<" \in Operators /\ ">" \in Operators /\ "|" \in Operators /\ "&" \in Operators
  BY Zenon DEF WordChars, NameChars, Operators
<1>3. ASSUME NEW X, "2" \in X, "<" \in X, ">" \in X, "|" \in X, "&" \in X
      PROVE  Symbols \in Seq(Seq(X))
  BY <1>3 DEF Symbols
<1>4. Symbols \in Seq(Seq(Operators \cup WordChars))
  <2> DEFINE X == Operators \cup WordChars
  <2>1. "2" \in X /\ "<" \in X /\ ">" \in X /\ "|" \in X /\ "&" \in X
    BY <1>2
  <2> HIDE DEF X
  <2> QED BY <1>3, <2>1 DEF X
<1>5. Symbols \in Seq(Seq(Char))
  <2>1. "2" \in Char /\ "<" \in Char /\ ">" \in Char /\ "|" \in Char /\ "&" \in Char
    BY <1>2, Letters
  <2> QED BY <1>3, <2>1
<1>6. \A i \in 1..7 : Symbols[i] # <<>> /\ Len(Symbols[i]) \in Nat \ {0}
  <2> DEFINE S == Seq(Char)
  <2>1. \A i \in 1..7 : Symbols[i] \in S
    <3>1. Symbols \in Seq(S)
      BY <1>5
    <3> HIDE DEF S
    <3> QED BY <1>1, <3>1, ElementOfSeq
  <2>2. \A i \in 1..7 : Symbols[i] # <<>>
    BY DEF Symbols
  <2> QED BY <2>1, <2>2, EmptySeq
<1> QED BY <1>1, <1>4, <1>5, <1>6

LEMMA KindsAre ==
  /\ \A i \in 1..7 : Kinds[i] = "symbol"
  /\ Kinds[8] = "comment" /\ Kinds[9] = "open" /\ Kinds[10] = "word" /\ Kinds[11] = "blank"
  /\ Kinds[12] = "error"
BY DEF Kinds

\* How much each rule matches.
LEMMA MatchesAre ==
  ASSUME NEW s \in Seq(Char), s # <<>>
  PROVE  LET m == Matches(s) IN
         /\ m \in Seq(Nat) /\ Len(m) = 12 /\ DOMAIN m = 1..12
         /\ \A i \in 1..12 : m[i] \in 0..Len(s)
         /\ \A i \in 1..7 : m[i] = IF IsPrefix(Symbols[i], s) THEN Len(Symbols[i]) ELSE 0
         /\ m[8] = IF IsPrefix(<<"/", "/">>, s) THEN Len(s) ELSE 0
         /\ m[9] = IF IsPrefix(<<"/", "*">>, s) THEN 2 ELSE 0
         /\ m[10] = Span(s, WordChars)
         /\ m[11] = Span(Take(s, 1), {Blank})
         /\ m[12] = 1
<1> DEFINE m == Matches(s)
           A == [i \in DOMAIN Symbols |-> IF IsPrefix(Symbols[i], s) THEN Len(Symbols[i]) ELSE 0]
           w == Span(s, WordChars)
           b == Span(Take(s, 1), {Blank})
           c == IF IsPrefix(<<"/", "/">>, s) THEN Len(s) ELSE 0
           o == IF IsPrefix(<<"/", "*">>, s) THEN 2 ELSE 0
           B == <<c, o, w, b, 1>>
<1>1. Len(s) \in Nat \ {0}
  BY EmptySeq
<1>2. m = A \o B
  BY Zenon DEF Matches
<1>3. w \in 0..Len(s)
  BY SpanIs
<1>4. b \in 0..1
  <2> DEFINE t == Take(s, 1)
  <2>1. t \in Seq(Char) /\ Len(t) = 1
    <3>1. 1 \in 0..Len(s)
      BY <1>1
    <3> QED BY <3>1, Cut
  <2> HIDE DEF t
  <2>2. Span(t, {Blank}) \in 0..1
    BY <2>1, SpanIs
  <2> QED BY <2>2 DEF t
<1>5. c \in 0..Len(s)
  BY <1>1
<1>6. o \in 0..Len(s)
  <2>1. ASSUME IsPrefix(<<"/", "*">>, s) PROVE 2 <= Len(s)
    BY <2>1 DEF IsPrefix
  <2> QED BY <1>1, <2>1
<1>7. A \in Seq(Nat) /\ Len(A) = 7 /\ \A i \in 1..7 : A[i] \in 0..Len(s)
  <2>1. \A i \in 1..7 : (IsPrefix(Symbols[i], s) => Len(Symbols[i]) <= Len(s)) /\ Len(Symbols[i]) \in Nat
    BY SymbolsAre DEF IsPrefix
  <2>2. \A i \in 1..7 : A[i] \in 0..Len(s)
    BY <1>1, <2>1, SymbolsAre
  <2>3. A = [i \in 1..7 |-> A[i]]
    BY SymbolsAre
  <2> HIDE DEF A
  <2> QED BY <2>2, <2>3
<1>8. \A i \in 1..7 : A[i] = IF IsPrefix(Symbols[i], s) THEN Len(Symbols[i]) ELSE 0
  BY SymbolsAre
<1> HIDE DEF A, w, b, c, o, m
<1>9. B \in Seq(Nat) /\ Len(B) = 5 /\ B[1] = c /\ B[2] = o /\ B[3] = w /\ B[4] = b /\ B[5] = 1
  BY <1>1, <1>3, <1>4, <1>5, <1>6
<1> HIDE DEF B
<1>10. /\ m \in Seq(Nat) /\ Len(m) = 12
       /\ \A i \in 1..12 : m[i] = IF i <= 7 THEN A[i] ELSE B[i - 7]
  <2>1. /\ A \o B \in Seq(Nat) /\ Len(A \o B) = Len(A) + Len(B)
        /\ \A i \in 1..(Len(A) + Len(B)) : (A \o B)[i] = IF i <= Len(A) THEN A[i] ELSE B[i - Len(A)]
    BY <1>7, <1>9, ConcatProperties
  <2>2. A \o B \in Seq(Nat) /\ Len(A \o B) = 12
    BY <1>7, <1>9, <2>1
  <2>3. \A i \in 1..12 : (A \o B)[i] = IF i <= 7 THEN A[i] ELSE B[i - 7]
    <3>1. Len(A) = 7 /\ Len(B) = 5 /\ 7 + 5 = 12
      BY <1>7, <1>9
    <3>2. \A i \in 1..(7 + 5) : (A \o B)[i] = IF i <= 7 THEN A[i] ELSE B[i - 7]
      BY <2>1, <3>1, Zenon
    <3> QED BY <3>1, <3>2, Zenon
  <2> QED BY <1>2, <2>2, <2>3, Zenon
<1>11. m[8] = c /\ m[9] = o /\ m[10] = w /\ m[11] = b /\ m[12] = 1
  BY <1>9, <1>10
<1>12. \A i \in 1..7 : m[i] = A[i]
  BY <1>10
<1>13. \A i \in 1..12 : m[i] \in 0..Len(s)
  <2> TAKE i \in 1..12
  <2>1. i \in 1..7 \/ i = 8 \/ i = 9 \/ i = 10 \/ i = 11 \/ i = 12
    OBVIOUS
  <2>2. CASE i \in 1..7
    BY <1>7, <1>12, <2>2
  <2>3. b \in 0..Len(s) /\ 1 \in 0..Len(s)
    BY <1>1, <1>4
  <2>4. CASE i \notin 1..7
    BY <1>3, <1>5, <1>6, <1>11, <2>1, <2>3, <2>4
  <2> QED BY <2>2, <2>4
<1>14. DOMAIN m = 1..12
  BY <1>10
<1> QED BY <1>8, <1>10, <1>11, <1>12, <1>13, <1>14 DEF m, c, o, w, b

\* A number of a finite range is the largest.
LEMMA LargestIs ==
  ASSUME NEW n \in Nat, NEW m, NEW l \in Nat, \A i \in 1..(n + 1) : m[i] \in 0..l
  PROVE  \E i \in 1..(n + 1) : \A q \in 1..(n + 1) : m[q] <= m[i]
<1> DEFINE Top(k) == \E i \in 1..(k + 1) : \A q \in 1..(k + 1) : m[q] <= m[i]
           Good == {k \in 0..n : Top(k)}
<1>1. 0 \in Good
  <2>1. \A q \in 1..(0 + 1) : q = 1
    OBVIOUS
  <2>2. m[1] <= m[1] /\ 1 \in 1..(0 + 1)
    OBVIOUS
  <2>3. Top(0)
    BY <2>1, <2>2
  <2> HIDE DEF Top
  <2> QED BY <2>3
<1>2. ASSUME NEW k \in 1..n, k - 1 \in Good PROVE k \in Good
  <2>1. Top(k - 1)
    BY <1>2
  <2>2. PICK i \in 1..((k - 1) + 1) : \A q \in 1..((k - 1) + 1) : m[q] <= m[i]
    BY <2>1
  <2>3. i \in 1..(n + 1) /\ k + 1 \in 1..(n + 1) /\ i \in 1..(k + 1) /\ k + 1 \in 1..(k + 1)
    OBVIOUS
  <2>4. m[i] \in 0..l /\ m[k + 1] \in 0..l
    BY <2>3
  <2>5. \A q \in 1..(k + 1) : q = k + 1 \/ q \in 1..((k - 1) + 1)
    OBVIOUS
  <2>6. \A q \in 1..(k + 1) : m[q] \in 0..l
    OBVIOUS
  <2>7. CASE m[k + 1] <= m[i]
    <3>1. \A q \in 1..(k + 1) : m[q] <= m[i]
      BY <2>2, <2>5, <2>7
    <3>2. Top(k)
      BY <2>3, <3>1
    <3> QED BY <3>2
  <2>8. CASE m[i] <= m[k + 1]
    <3>1. \A q \in 1..(k + 1) : m[q] <= m[k + 1]
      BY <2>2, <2>4, <2>5, <2>6, <2>8
    <3>2. Top(k)
      BY <2>3, <3>1
    <3> QED BY <3>2
  <2> QED BY <2>4, <2>7, <2>8
<1> HIDE DEF Good
<1>3. \A k \in 0..n : k \in Good
  BY <1>1, <1>2, Counting
<1>4. n \in Good
  BY <1>3
<1> QED BY <1>4 DEF Good

\* The longest match, of the earliest rule with it.
LEMMA BestIs ==
  ASSUME NEW s \in Seq(Char), s # <<>>
  PROVE  LET m == Matches(s) b == BestRule(s) IN
         /\ b \in 1..12 /\ m[b] \in 1..Len(s)
         /\ \A q \in 1..12 : m[q] <= m[b] /\ (m[q] = m[b] => b <= q)
<1> DEFINE m == Matches(s)
           b == BestRule(s)
           D == DOMAIN m
           All == {r \in D : \A q \in D : m[q] <= m[r]}
<1>1. D = 1..12 /\ (\A i \in 1..12 : m[i] \in 0..Len(s)) /\ m[12] = 1
  BY MatchesAre
<1>2. b = Min(All)
  BY DEF BestRule
<1> HIDE DEF m, b, D
<1>3. All # {} /\ All \subseteq Nat
  <2>1. Len(s) \in Nat /\ 11 \in Nat /\ 12 = 11 + 1
    OBVIOUS
  <2>2. \E i \in 1..(11 + 1) : \A q \in 1..(11 + 1) : m[q] <= m[i]
    BY <1>1, <2>1, LargestIs
  <2>3. \E i \in 1..12 : \A q \in 1..12 : m[q] <= m[i]
    BY <2>1, <2>2
  <2>4. PICK i \in 1..12 : \A q \in 1..12 : m[q] <= m[i]
    BY <2>3
  <2>5. i \in All
    BY <1>1, <2>4
  <2>6. All \subseteq D
    OBVIOUS
  <2>7. All \subseteq Nat
    <3> HIDE DEF All
    <3> QED BY <1>1, <2>6
  <2> QED BY <2>5, <2>7, Zenon
<1>4. b \in All /\ \A r \in All : b <= r
  <2> HIDE DEF All
  <2> QED BY <1>2, <1>3, MinOf
<1>5. b \in 1..12 /\ \A q \in 1..12 : m[q] <= m[b]
  <2>1. b \in D /\ \A q \in D : m[q] <= m[b]
    BY <1>4
  <2> QED BY <1>1, <2>1, Zenon
<1>6. ASSUME NEW q \in 1..12, m[q] = m[b] PROVE b <= q
  <2>1. \A z \in 1..12 : m[z] <= m[q]
    BY <1>5, <1>6
  <2>2. q \in All
    BY <1>1, <2>1, Zenon
  <2> QED BY <1>4, <2>2
<1>7. m[b] \in 1..Len(s)
  <2>0. 12 \in 1..12
    OBVIOUS
  <2>1. m[b] \in 0..Len(s) /\ m[12] <= m[b]
    BY <1>1, <1>5, <2>0, Zenon
  <2> QED BY <1>1, <2>1
<1> QED BY <1>5, <1>6, <1>7 DEF m, b

Token ==
  {t \in [kind : {"symbol", "word", "error"}, text : Seq(Char)] :
     /\ t.kind = "word" => t.text \in Seq(WordChars) /\ t.text # <<>>
     /\ t.kind = "symbol" => \E i \in 1..7 : t.text = Symbols[i]}
Lexes == [rest : Seq(Char), toks : Seq(Token)]

LEMMA AfterCommentIs ==
  ASSUME NEW X, NEW s \in Seq(X)
  PROVE  AfterComment(s) \in Seq(X) /\ Len(AfterComment(s)) <= Len(s)
<1> DEFINE Ends == {i \in 1..Len(s) - 1 : s[i] = "*" /\ s[i + 1] = "/"}
<1>1. Len(s) \in Nat
  OBVIOUS
<1>2. CASE Ends = {}
  <2>1. AfterComment(s) = <<>>
    BY <1>2 DEF AfterComment
  <2> QED BY <1>1, <2>1
<1>3. CASE Ends # {}
  <2>1. Ends \subseteq 1..Len(s) - 1
    OBVIOUS
  <2>2. AfterComment(s) = Drop(s, Min(Ends) + 1)
    BY <1>3 DEF AfterComment
  <2> HIDE DEF Ends
  <2>3. Ends \subseteq Nat
    BY <1>1, <2>1
  <2>4. Min(Ends) \in 1..Len(s) - 1
    BY <1>3, <2>1, <2>3, MinOf
  <2>5. Min(Ends) + 1 \in 0..Len(s)
    BY <1>1, <2>4
  <2> DEFINE k == Min(Ends) + 1
  <2> HIDE DEF k
  <2>6. k \in 0..Len(s)
    BY <2>5 DEF k
  <2>7. Drop(s, k) \in Seq(X) /\ Len(Drop(s, k)) = Len(s) - k
    BY <2>6, Cut
  <2> QED BY <1>1, <2>2, <2>6, <2>7 DEF k
<1> QED BY <1>2, <1>3

\* One turn of yylex, by the rule that wins.
LEMMA LexTurnIs ==
  ASSUME NEW x \in Lexes, x.rest # <<>>
  PROVE  LET b == BestRule(x.rest)
             n == Matches(x.rest)[b]
             after == Drop(x.rest, n)
             tok == [kind |-> Kinds[b], text |-> Take(x.rest, n)]
         IN /\ b \in 1..12 /\ n \in 1..Len(x.rest)
            /\ after \in Seq(Char) /\ Len(after) = Len(x.rest) - n
            /\ b = 9 => LexTurn(x) = [x EXCEPT !.rest = AfterComment(after)]
            /\ b \in {8, 11} => LexTurn(x) = [x EXCEPT !.rest = after]
            /\ b \notin {8, 9, 11} =>
                 tok \in Token /\ LexTurn(x) = [rest |-> after, toks |-> Append(x.toks, tok)]
<1> DEFINE s == x.rest
           b == BestRule(s)
           m == Matches(s)
           n == m[b]
           after == Drop(s, n)
           kind == Kinds[b]
           piece == Take(s, n)
           tok == [kind |-> kind, text |-> piece]
<1>1. s \in Seq(Char) /\ s # <<>> /\ Len(s) \in Nat
  BY DEF Lexes
<1>2. LexTurn(x) = CASE kind = "open" -> [x EXCEPT !.rest = AfterComment(after)]
         [] kind \in {"comment", "blank"} -> [x EXCEPT !.rest = after]
         [] OTHER -> [rest |-> after, toks |-> Append(x.toks, tok)]
  <2>1. LexTurn(x) = LexRule(x, b)
    BY <1>1, Zenon DEF LexTurn
  <2> QED BY <2>1, Zenon DEF LexRule
<1>3. b \in 1..12 /\ n \in 1..Len(s)
  <2> HIDE DEF s
  <2> QED BY <1>1, BestIs
<1> HIDE DEF s
<1>4. /\ \A i \in 1..7 : m[i] = IF IsPrefix(Symbols[i], s) THEN Len(Symbols[i]) ELSE 0
      /\ m[10] = Span(s, WordChars)
  BY <1>1, MatchesAre
<1> HIDE DEF m, b
<1>5. n \in 0..Len(s)
  BY <1>1, <1>3
<1>6. after \in Seq(Char) /\ Len(after) = Len(s) - n
  <2> HIDE DEF n
  <2> QED BY <1>1, <1>5, Cut
<1>7. piece \in Seq(Char) /\ Len(piece) = n /\ \A i \in 1..n : piece[i] = s[i]
  <2> HIDE DEF n
  <2> QED BY <1>1, <1>5, Cut
<1>8. /\ b \in 1..7 => kind = "symbol"
      /\ b = 8 => kind = "comment"
      /\ b = 9 => kind = "open"
      /\ b = 10 => kind = "word"
      /\ b = 11 => kind = "blank"
      /\ b = 12 => kind = "error"
  BY KindsAre
<1>9. b \in 1..7 \/ b = 8 \/ b = 9 \/ b = 10 \/ b = 11 \/ b = 12
  BY <1>3
<1>10. CASE b = 9
  <2>1. kind = "open"
    BY <1>10, KindsAre
  <2> HIDE DEF kind, after, tok
  <2>2. LexTurn(x) = [x EXCEPT !.rest = AfterComment(after)]
    BY <1>1, <1>2, <2>1
  <2> QED BY <1>3, <1>6, <1>10, <2>2 DEF after, s, b, m
<1>11. CASE b \in {8, 11}
  <2>1. kind \in {"comment", "blank"} /\ kind # "open"
    BY <1>11, KindsAre
  <2> HIDE DEF kind, after, tok
  <2>2. LexTurn(x) = [x EXCEPT !.rest = after]
    BY <1>1, <1>2, <2>1
  <2> QED BY <1>3, <1>6, <1>11, <2>2 DEF after, s, b, m
<1>12. CASE b \notin {8, 9, 11}
  <2>1. kind \in {"symbol", "word", "error"}
    BY <1>9, <1>12, KindsAre
  <2>2. kind \notin {"open", "comment", "blank"}
    BY <2>1
  <2>3. ASSUME kind = "word" PROVE piece \in Seq(WordChars) /\ piece # <<>>
    <3>1. b = 10
      BY <1>9, <1>12, <2>3, KindsAre
    <3>2. n = Span(s, WordChars)
      BY <1>4, <3>1
    <3>3. \A i \in 1..n : s[i] \in WordChars
      BY <1>1, <3>2, SpanIs
    <3> HIDE DEF n, piece
    <3>4. \A i \in 1..Len(piece) : piece[i] \in WordChars
      BY <1>7, <3>3
    <3>5. piece \in Seq(WordChars)
      BY <1>7, <3>4
    <3> QED BY <1>3, <1>7, <3>5
  <2>4. ASSUME kind = "symbol" PROVE \E i \in 1..7 : piece = Symbols[i]
    <3>1. b \in 1..7
      BY <1>9, <1>12, <2>4, KindsAre
    <3>2. n = IF IsPrefix(Symbols[b], s) THEN Len(Symbols[b]) ELSE 0
      BY <1>4, <3>1
    <3>3. IsPrefix(Symbols[b], s) /\ n = Len(Symbols[b])
      BY <1>3, <3>2
    <3>4. SubSeq(Symbols[b], 1, Len(Symbols[b])) = SubSeq(s, 1, Len(Symbols[b]))
      BY <3>3 DEF IsPrefix
    <3>5. Symbols[b] \in Seq(Char)
      <4> DEFINE S == Seq(Char)
      <4>1. Symbols \in Seq(S) /\ b \in 1..Len(Symbols)
        BY <3>1, SymbolsAre
      <4> HIDE DEF S
      <4>2. Symbols[b] \in S
        BY <4>1, ElementOfSeq
      <4> QED BY <4>2 DEF S
    <3>6. SubSeq(Symbols[b], 1, Len(Symbols[b])) = Symbols[b]
      BY <3>5, SubSeqFull
    <3>7. piece = Symbols[b]
      BY <3>3, <3>4, <3>6 DEF Take
    <3> QED BY <3>1, <3>7
  <2>5. tok \in Token
    <3> HIDE DEF kind, piece
    <3> QED BY <1>7, <2>1, <2>3, <2>4 DEF Token
  <2>6. LexTurn(x) = [rest |-> after, toks |-> Append(x.toks, tok)]
    <3> HIDE DEF kind, after, tok
    <3> QED BY <1>1, <1>2, <2>2
  <2> QED BY <1>3, <1>6, <1>12, <2>5, <2>6 DEF s, b, m
<1> QED BY <1>9, <1>10, <1>11, <1>12

LEMMA LexTurnStays ==
  ASSUME NEW x \in Lexes
  PROVE  /\ LexTurn(x) \in Lexes
         /\ x.rest = <<>> => LexTurn(x) = x
         /\ x.rest # <<>> => Len(LexTurn(x).rest) < Len(x.rest)
<1>1. x.rest \in Seq(Char) /\ x.toks \in Seq(Token) /\ Len(x.rest) \in Nat
  BY DEF Lexes
<1>2. CASE x.rest = <<>>
  <2>1. LexTurn(x) = x
    BY <1>2 DEF LexTurn
  <2> QED BY <1>2, <2>1
<1>3. CASE x.rest # <<>>
  <2> DEFINE b == BestRule(x.rest)
             n == Matches(x.rest)[b]
             after == Drop(x.rest, n)
             tok == [kind |-> Kinds[b], text |-> Take(x.rest, n)]
  <2>1. /\ b \in 1..12 /\ n \in 1..Len(x.rest)
        /\ after \in Seq(Char) /\ Len(after) = Len(x.rest) - n
        /\ b = 9 => LexTurn(x) = [x EXCEPT !.rest = AfterComment(after)]
        /\ b \in {8, 11} => LexTurn(x) = [x EXCEPT !.rest = after]
        /\ b \notin {8, 9, 11} =>
             tok \in Token /\ LexTurn(x) = [rest |-> after, toks |-> Append(x.toks, tok)]
    BY <1>3, LexTurnIs, Zenon
  <2> HIDE DEF b, n, after, tok
  <2>2. Len(after) < Len(x.rest)
    BY <1>1, <2>1
  <2>3. CASE b = 9
    <3>1. AfterComment(after) \in Seq(Char) /\ Len(AfterComment(after)) <= Len(after)
      BY <2>1, AfterCommentIs
    <3>2. LexTurn(x).rest = AfterComment(after) /\ LexTurn(x) \in Lexes
      BY <2>1, <2>3, <3>1 DEF Lexes
    <3>3. Len(AfterComment(after)) < Len(x.rest)
      BY <1>1, <2>1, <2>2, <3>1
    <3> QED BY <1>3, <3>2, <3>3
  <2>4. CASE b \in {8, 11}
    <3>1. LexTurn(x).rest = after /\ LexTurn(x) \in Lexes
      BY <2>1, <2>4 DEF Lexes
    <3> QED BY <1>3, <2>2, <3>1
  <2>5. CASE b \notin {8, 9, 11}
    <3>1. LexTurn(x) = [rest |-> after, toks |-> Append(x.toks, tok)] /\ tok \in Token
      BY <2>1, <2>5
    <3>2. Append(x.toks, tok) \in Seq(Token)
      BY <1>1, <3>1, AppendProperties
    <3>3. LexTurn(x) \in Lexes /\ LexTurn(x).rest = after
      BY <2>1, <3>1, <3>2 DEF Lexes
    <3> QED BY <1>3, <2>2, <3>3
  <2> QED BY <2>3, <2>4, <2>5
<1> QED BY <1>2, <1>3

LEMMA LexRuns ==
  ASSUME NEW s \in Seq(Char)
  PROVE  \E at \in [0..Len(s) -> Lexes] :
           /\ at[0] = [rest |-> s, toks |-> <<>>]
           /\ \A k \in 1..Len(s) : at[k] = LexTurn(at[k - 1])
           /\ Tokens(s) = at[Len(s)].toks
<1> DEFINE s0 == [rest |-> s, toks |-> <<>>]
           F == [k \in 1..Len(s) |-> [x \in Lexes |-> LexTurn(x)]]
           Is(f) == f = [k \in 0..Len(s) |-> IF k = 0 THEN s0 ELSE LexTurn(f[k - 1])]
           g == CHOOSE f : Is(f)
<1>1. Len(s) \in Nat
  OBVIOUS
<1>2. s0 \in Lexes
  BY DEF Lexes
<1>3. \A x \in Lexes : LexTurn(x) \in Lexes
  BY LexTurnStays, Zenon
<1>4. F \in [1..Len(s) -> [Lexes -> Lexes]]
  BY <1>3
<1>5. PICK at \in [0..Len(s) -> Lexes] : Loop(F, s0, Len(s), at)
  <2> HIDE DEF F, s0
  <2> QED BY <1>1, <1>2, <1>4, LoopRuns
<1>6. \A k \in 1..Len(s) : at[k] = LexTurn(at[k - 1])
  <2> TAKE k \in 1..Len(s)
  <2>1. at[k - 1] \in Lexes /\ at[k] = F[k][at[k - 1]]
    BY <1>5 DEF Loop
  <2> QED BY <2>1
<1>7. at[0] = s0
  BY <1>5 DEF Loop
<1>8. Is(at)
  BY <1>1, <1>6, <1>7
<1>9. Is(g)
  BY <1>8
<1>10. Tokens(s) = g[Len(s)].toks
  BY DEF Tokens
<1>11. g[0] = s0 /\ \A k \in 1..Len(s) : g[k] = LexTurn(g[k - 1])
  <2> HIDE DEF g, s0
  <2> QED BY <1>1, <1>9
<1>12. g \in [0..Len(s) -> Lexes]
  <2> DEFINE Good == {k \in 0..Len(s) : g[k] \in Lexes}
  <2>1. 0 \in Good
    BY <1>1, <1>2, <1>11
  <2>2. ASSUME NEW k \in 1..Len(s), k - 1 \in Good PROVE k \in Good
    <3> HIDE DEF g
    <3>1. g[k - 1] \in Lexes /\ g[k] = LexTurn(g[k - 1]) /\ k \in 0..Len(s)
      BY <1>1, <1>11, <2>2
    <3> QED BY <1>3, <3>1
  <2> HIDE DEF Good
  <2>3. \A k \in 0..Len(s) : k \in Good
    BY <1>1, <2>1, <2>2, Counting
  <2>4. \A k \in 0..Len(s) : g[k] \in Lexes
    BY <2>3 DEF Good
  <2> HIDE DEF g, s0
  <2> QED BY <1>9, <2>4
<1> HIDE DEF g
<1> QED BY <1>10, <1>11, <1>12

LEMMA TokensAre ==
  ASSUME NEW s \in Seq(Char)
  PROVE  \E at \in [0..Len(s) -> Lexes] :
           /\ at[0] = [rest |-> s, toks |-> <<>>]
           /\ \A k \in 1..Len(s) : at[k] = LexTurn(at[k - 1])
           /\ Tokens(s) = at[Len(s)].toks /\ at[Len(s)].rest = <<>>
           /\ Tokens(s) \in Seq(Token)
<1>1. Len(s) \in Nat
  OBVIOUS
<1>2. PICK at \in [0..Len(s) -> Lexes] :
        /\ at[0] = [rest |-> s, toks |-> <<>>]
        /\ \A k \in 1..Len(s) : at[k] = LexTurn(at[k - 1])
        /\ Tokens(s) = at[Len(s)].toks
  BY LexRuns
<1> DEFINE Good == {k \in 0..Len(s) : Len(at[k].rest) + k <= Len(s) \/ at[k].rest = <<>>}
<1>3. 0 \in Good
  BY <1>1, <1>2
<1>4. ASSUME NEW k \in 1..Len(s), k - 1 \in Good PROVE k \in Good
  <2> DEFINE x == at[k - 1]
             y == at[k]
  <2>1. x \in Lexes /\ y = LexTurn(x) /\ k \in 0..Len(s)
    BY <1>1, <1>2
  <2>2. Len(x.rest) + (k - 1) <= Len(s) \/ x.rest = <<>>
    BY <1>4
  <2> HIDE DEF x, y
  <2>3. /\ y \in Lexes /\ (x.rest = <<>> => y = x)
        /\ x.rest # <<>> => Len(y.rest) < Len(x.rest)
    BY <2>1, LexTurnStays, Zenon
  <2>4. Len(x.rest) \in Nat /\ Len(y.rest) \in Nat
    BY <2>1, <2>3 DEF Lexes
  <2>5. Len(y.rest) + k <= Len(s) \/ y.rest = <<>>
    <3>1. CASE x.rest = <<>>
      BY <2>3, <3>1
    <3>2. CASE x.rest # <<>>
      BY <1>1, <2>2, <2>3, <2>4, <3>2
    <3> QED BY <3>1, <3>2
  <2> QED BY <2>1, <2>5 DEF y
<1> HIDE DEF Good
<1>5. \A k \in 0..Len(s) : k \in Good
  BY <1>1, <1>3, <1>4, Counting
<1>6. Len(s) \in Good /\ at[Len(s)] \in Lexes
  BY <1>1, <1>5
<1>7. at[Len(s)].rest = <<>>
  <2> DEFINE r == at[Len(s)].rest
  <2>1. r \in Seq(Char) /\ (Len(r) + Len(s) <= Len(s) \/ r = <<>>)
    BY <1>6 DEF Good, Lexes
  <2> HIDE DEF r
  <2>2. r = <<>>
    BY <1>1, <2>1, EmptySeq
  <2> QED BY <2>2 DEF r
<1>8. at[Len(s)].toks \in Seq(Token)
  BY <1>6 DEF Lexes
<1> QED BY <1>2, <1>7, <1>8

-----------------------------------------------------------------------------
(* The parser's trees.                                                     *)

Words == Seq(WordChars) \ {<<>>}
RedirSymbols == { <<"<">>, <<">">>, <<">", ">">>, <<"2", ">">>, <<"2", ">", ">">> }
InForm(redir, form) == Len(redir) = Len(form) /\ \A i \in 1..Len(form) : redir[i][1] = form[i]

Trees ==
  {t \in [pipeline : Seq(Seq(Words)), redir : Seq(RedirSymbols \X Words), background : BOOLEAN] :
     /\ t.pipeline # <<>> /\ \A i \in 1..Len(t.pipeline) : t.pipeline[i] # <<>>
     /\ \E form \in RedirForms : InForm(t.redir, form)}

Parses ==
  {p \in [ok : BOOLEAN, more : BOOLEAN, pipeline : Seq(Seq(Words)), after : Seq(Token)] :
     /\ p.ok \/ p.more => \A i \in 1..Len(p.pipeline) : p.pipeline[i] # <<>>
     /\ p.ok => p.pipeline # <<>>}

\* The words in front of a sequence of tokens.
LEMMA TextsAre ==
  ASSUME NEW toks \in Seq(Token), \A i \in 1..Len(toks) : IsWord(toks[i])
  PROVE  Texts(toks) \in Seq(Words) /\ Len(Texts(toks)) = Len(toks)
         /\ \A i \in 1..Len(toks) : Texts(toks)[i] = toks[i].text
<1> DEFINE n == Len(toks)
<1>1. n \in Nat /\ DOMAIN toks = 1..n
  OBVIOUS
<1>2. \A i \in 1..n : toks[i].text \in Words
  <2> TAKE i \in 1..n
  <2>1. toks[i] \in Token
    BY ElementOfSeq
  <2>2. IsWord(toks[i])
    OBVIOUS
  <2> DEFINE t == toks[i]
  <2> HIDE DEF t
  <2>3. t.text \in Words
    BY <2>1, <2>2 DEF Token, IsWord, Words, t
  <2> QED BY <2>3 DEF t
<1>3. Texts(toks) = [i \in 1..n |-> toks[i].text]
  BY <1>1 DEF Texts
<1> HIDE DEF n
<1>4. [i \in 1..n |-> toks[i].text] \in [1..n -> Words]
  BY <1>2
<1>5. Texts(toks) \in Seq(Words) /\ Len(Texts(toks)) = n
  BY <1>1, <1>3, <1>4
<1> QED BY <1>3, <1>5 DEF n

LEMMA FrontWords ==
  ASSUME NEW toks \in Seq(Token)
  PROVE  LET n == Span(toks, {t \in Range(toks) : IsWord(t)}) words == Take(toks, n) IN
         /\ n \in 0..Len(toks) /\ words \in Seq(Token) /\ Len(words) = n
         /\ \A i \in 1..n : IsWord(words[i]) /\ words[i] = toks[i]
         /\ n < Len(toks) => ~IsWord(toks[n + 1])
<1> DEFINE C == {t \in Range(toks) : IsWord(t)}
           n == Span(toks, C)
           words == Take(toks, n)
<1> HIDE DEF C
<1>1. n \in 0..Len(toks) /\ (\A i \in 1..n : toks[i] \in C) /\ (n < Len(toks) => toks[n + 1] \notin C)
  BY SpanIs
<1> HIDE DEF n
<1>2. words \in Seq(Token) /\ Len(words) = n /\ \A i \in 1..n : words[i] = toks[i]
  BY <1>1, Cut
<1>3. \A i \in 1..n : IsWord(words[i])
  BY <1>1, <1>2 DEF C
<1>4. ASSUME n < Len(toks) PROVE ~IsWord(toks[n + 1])
  <2>1. n + 1 \in 1..Len(toks)
    BY <1>1, <1>4
  <2>2. toks[n + 1] \in Range(toks)
    BY <2>1 DEF Range
  <2> QED BY <1>1, <1>4, <2>2 DEF C
<1> QED BY <1>1, <1>2, <1>3, <1>4 DEF n, C

LEMMA StageTokensIs ==
  ASSUME NEW p \in Parses
  PROVE  StageTokens(p) \in Parses
<1> DEFINE words == Take(p.after, Span(p.after, {t \in Range(p.after) : IsWord(t)}))
           after == Drop(p.after, Len(words))
           bar == after # <<>> /\ Head(after) = Symbol(<<"|">>)
           left == IF bar THEN Tail(after) ELSE after
           txt == Texts(words)
           new == [ok |-> words # <<>>, more |-> words # <<>> /\ bar,
                   pipeline |-> Append(p.pipeline, txt), after |-> left]
<1>1. StageTokens(p) = IF ~p.more THEN p ELSE new
  BY DEF StageTokens
<1>2. p.after \in Seq(Token) /\ p.pipeline \in Seq(Seq(Words)) /\ p.more \in BOOLEAN
  BY DEF Parses
<1>3. CASE ~p.more
  BY <1>1, <1>3
<1>4. CASE p.more
  <2>1. words \in Seq(Token) /\ Len(words) \in 0..Len(p.after) /\ \A i \in 1..Len(words) : IsWord(words[i])
    BY <1>2, FrontWords
  <2>2. \A i \in 1..Len(p.pipeline) : p.pipeline[i] # <<>>
    BY <1>4 DEF Parses
  <2> HIDE DEF words
  <2>3. txt \in Seq(Words) /\ Len(txt) = Len(words)
    BY <2>1, TextsAre
  <2>4. after \in Seq(Token)
    BY <1>2, <2>1, Cut
  <2> HIDE DEF after, txt
  <2>5. left \in Seq(Token)
    BY <2>4, TailStays
  <2>6. words # <<>> => txt # <<>>
    BY <2>1, <2>3, EmptySeq
  <2> DEFINE S == Seq(Words)
             q == Append(p.pipeline, txt)
  <2>7. p.pipeline \in Seq(S) /\ txt \in S
    BY <1>2, <2>3
  <2> HIDE DEF S
  <2>8. /\ q \in Seq(S) /\ q # <<>> /\ Len(q) = Len(p.pipeline) + 1
        /\ \A i \in 1..Len(p.pipeline) : q[i] = p.pipeline[i]
        /\ q[Len(p.pipeline) + 1] = txt
    BY <2>7, AppendProperties
  <2> HIDE DEF q
  <2>9. ASSUME words # <<>> PROVE \A i \in 1..Len(q) : q[i] # <<>>
    <3> TAKE i \in 1..Len(q)
    <3>1. Len(p.pipeline) \in Nat
      BY <2>7
    <3>2. i \in 1..Len(p.pipeline) \/ i = Len(p.pipeline) + 1
      BY <2>8, <3>1
    <3> QED BY <2>2, <2>6, <2>8, <2>9, <3>2
  <2> HIDE DEF left, bar
  <2>10. new = [ok |-> words # <<>>, more |-> words # <<>> /\ bar, pipeline |-> q, after |-> left]
    BY DEF q
  <2>11. new \in Parses
    <3> HIDE DEF new
    <3>1. q \in Seq(Seq(Words))
      BY <2>8 DEF S
    <3>2. (words # <<>>) \in BOOLEAN /\ (words # <<>> /\ bar) \in BOOLEAN
      OBVIOUS
    <3>3. new.ok = (words # <<>>) /\ new.more = (words # <<>> /\ bar) /\ new.pipeline = q
      BY <2>10
    <3>4. new \in [ok : BOOLEAN, more : BOOLEAN, pipeline : Seq(Seq(Words)), after : Seq(Token)]
      BY <2>5, <2>10, <3>1, <3>2
    <3>5. new.ok \/ new.more => \A i \in 1..Len(new.pipeline) : new.pipeline[i] # <<>>
      BY <2>9, <3>3
    <3> QED BY <2>8, <3>3, <3>4, <3>5 DEF Parses
  <2> QED BY <1>1, <1>4, <2>11
<1> QED BY <1>2, <1>3, <1>4

LEMMA PipelineRuns ==
  ASSUME NEW toks \in Seq(Token)
  PROVE  \E at \in [0..Len(toks) + 1 -> Parses] :
           /\ at[0] = [ok |-> FALSE, more |-> TRUE, pipeline |-> <<>>, after |-> toks]
           /\ \A k \in 1..Len(toks) + 1 : at[k] = StageTokens(at[k - 1])
           /\ Pipeline(toks) = at[Len(toks) + 1]
<1> DEFINE s0 == [ok |-> FALSE, more |-> TRUE, pipeline |-> <<>>, after |-> toks]
           F == [k \in 1..Len(toks) + 1 |-> [x \in Parses |-> StageTokens(x)]]
           Is(f) == f = [k \in 0..Len(toks) + 1 |-> IF k = 0 THEN s0 ELSE StageTokens(f[k - 1])]
           g == CHOOSE f : Is(f)
<1>1. Len(toks) + 1 \in Nat
  OBVIOUS
<1>2. s0 \in Parses
  BY DEF Parses
<1>3. \A x \in Parses : StageTokens(x) \in Parses
  BY StageTokensIs, Zenon
<1>4. F \in [1..Len(toks) + 1 -> [Parses -> Parses]]
  BY <1>3
<1>5. PICK at \in [0..Len(toks) + 1 -> Parses] : Loop(F, s0, Len(toks) + 1, at)
  <2> HIDE DEF F, s0
  <2> QED BY <1>1, <1>2, <1>4, LoopRuns
<1>6. \A k \in 1..Len(toks) + 1 : at[k] = StageTokens(at[k - 1])
  <2> TAKE k \in 1..Len(toks) + 1
  <2>1. at[k - 1] \in Parses /\ at[k] = F[k][at[k - 1]]
    BY <1>5 DEF Loop
  <2> QED BY <2>1
<1>7. at[0] = s0
  BY <1>5 DEF Loop
<1>8. Is(at)
  BY <1>1, <1>6, <1>7
<1>9. Is(g)
  BY <1>8
<1>10. Pipeline(toks) = g[Len(toks) + 1]
  BY DEF Pipeline
<1>11. g[0] = s0 /\ \A k \in 1..Len(toks) + 1 : g[k] = StageTokens(g[k - 1])
  <2> HIDE DEF g, s0
  <2> QED BY <1>1, <1>9
<1>12. g \in [0..Len(toks) + 1 -> Parses]
  <2> DEFINE Good == {k \in 0..Len(toks) + 1 : g[k] \in Parses}
  <2>1. 0 \in Good
    BY <1>1, <1>2, <1>11
  <2>2. ASSUME NEW k \in 1..Len(toks) + 1, k - 1 \in Good PROVE k \in Good
    <3> HIDE DEF g
    <3>1. g[k - 1] \in Parses /\ g[k] = StageTokens(g[k - 1]) /\ k \in 0..Len(toks) + 1
      BY <1>1, <1>11, <2>2
    <3> QED BY <1>3, <3>1
  <2> HIDE DEF Good
  <2>3. \A k \in 0..Len(toks) + 1 : k \in Good
    BY <1>1, <2>1, <2>2, Counting
  <2>4. \A k \in 0..Len(toks) + 1 : g[k] \in Parses
    BY <2>3 DEF Good
  <2> HIDE DEF g, s0
  <2> QED BY <1>9, <2>4
<1> HIDE DEF g
<1> QED BY <1>10, <1>11, <1>12

LEMMA FormsAre ==
  ASSUME NEW form \in RedirForms
  PROVE  /\ Len(form) \in 0..2 /\ DOMAIN form = 1..Len(form)
         /\ \A i \in 1..Len(form) : form[i] \in RedirSymbols
<1> DEFINE f1 == << <<"<">>, <<">">> >>
           f2 == << <<">">>, <<"<">> >>
           f3 == << <<">", ">">> >>
           f4 == << <<"2", ">">> >>
           f5 == << <<"2", ">", ">">> >>
           f6 == << <<">">> >>
           f7 == << <<"<">> >>
<1>1. form = <<>> \/ form = f1 \/ form = f2 \/ form = f3 \/ form = f4 \/ form = f5 \/ form = f6 \/ form = f7
  BY Zenon DEF RedirForms
<1>2. CASE form = <<>>
  BY <1>2
<1>3. CASE form = f1 \/ form = f2
  BY <1>3 DEF RedirSymbols
<1>4. CASE form = f3 \/ form = f4 \/ form = f5 \/ form = f6 \/ form = f7
  BY <1>4 DEF RedirSymbols
<1> QED BY <1>1, <1>2, <1>3, <1>4

LEMMA RedirectionsAre ==
  ASSUME NEW toks \in Seq(Token), OptRedir(toks)
  PROVE  /\ Redirections(toks) \in Seq(RedirSymbols \X Words)
         /\ \E form \in RedirForms : InForm(Redirections(toks), form)
<1>1. PICK form \in RedirForms :
        /\ Len(toks) = 2 * Len(form)
        /\ \A i \in DOMAIN form : toks[2 * i - 1] = Symbol(form[i]) /\ IsWord(toks[2 * i])
  BY DEF OptRedir
<1> DEFINE k == Len(form)
           r == Redirections(toks)
<1>2. k \in 0..2 /\ \A i \in 1..k : form[i] \in RedirSymbols
  BY FormsAre
<1>3. DOMAIN form = 1..k
  BY FormsAre
<1> HIDE DEF k
<1>4. r = [i \in 1..k |-> <<toks[2 * i - 1].text, toks[2 * i].text>>]
  <2>1. Len(toks) \div 2 = k
    BY <1>1, <1>2 DEF k
  <2> QED BY <2>1 DEF Redirections
<1>5. ASSUME NEW i \in 1..k
      PROVE  toks[2 * i - 1].text = form[i] /\ toks[2 * i].text \in Words
  <2>1. 2 * i \in 1..Len(toks)
    BY <1>1, <1>2 DEF k
  <2>2. toks[2 * i - 1] = Symbol(form[i]) /\ IsWord(toks[2 * i])
    BY <1>1, <1>3
  <2> DEFINE j == 2 * i
             t == toks[j]
  <2>3. t \in Token
    <3> HIDE DEF j
    <3> QED BY <2>1, ElementOfSeq DEF j
  <2>4. IsWord(t)
    BY <2>2
  <2> HIDE DEF t
  <2>5. t.text \in Words
    BY <2>3, <2>4 DEF Token, IsWord, Words
  <2>6. toks[2 * i - 1].text = form[i]
    BY <2>2 DEF Symbol
  <2> QED BY <2>5, <2>6 DEF t
<1>6. r \in Seq(RedirSymbols \X Words)
  <2>1. \A i \in 1..k : <<toks[2 * i - 1].text, toks[2 * i].text>> \in RedirSymbols \X Words
    BY <1>2, <1>5
  <2> DEFINE S == RedirSymbols \X Words
             pair(i) == <<toks[2 * i - 1].text, toks[2 * i].text>>
  <2>2. \A i \in 1..k : pair(i) \in S
    BY <2>1
  <2>3. r = [i \in 1..k |-> pair(i)]
    BY <1>4
  <2> HIDE DEF S, pair, r
  <2>4. k \in Nat
    BY <1>2
  <2>5. r \in Seq(S)
    BY <2>2, <2>3, <2>4
  <2> QED BY <2>5 DEF S, r
<1>7. Len(r) = k /\ \A i \in 1..k : r[i][1] = form[i]
  <2>1. k \in Nat
    BY <1>2
  <2>2. Len(r) = k
    <3> HIDE DEF r
    <3> QED BY <1>4, <2>1
  <2>3. \A i \in 1..k : r[i] = <<toks[2 * i - 1].text, toks[2 * i].text>>
    <3> HIDE DEF r
    <3> QED BY <1>4
  <2>4. \A i \in 1..k : <<toks[2 * i - 1].text, toks[2 * i].text>>[1] = toks[2 * i - 1].text
    OBVIOUS
  <2> HIDE DEF r
  <2>5. ASSUME NEW i \in 1..k PROVE r[i][1] = form[i]
    <3>1. toks[2 * i - 1].text = form[i]
      BY <1>5
    <3> QED BY <2>3, <2>4, <3>1, Zenon
  <2> QED BY <2>2, <2>5
<1>8. InForm(r, form)
  <2> HIDE DEF r
  <2> QED BY <1>7 DEF InForm, k
<1> QED BY <1>6, <1>8

LEMMA TreeIs ==
  ASSUME NEW s \in Seq(Char)
  PROVE  ParseInput(s) = NoTree \/ ParseInput(s) \in Trees
<1> DEFINE toks == Tokens(s)
           amp == toks # <<>> /\ Last(toks) = Symbol(<<"&">>)
           body == IF amp THEN Front(toks) ELSE toks
           p == Pipeline(body)
           t == [pipeline |-> p.pipeline, redir |-> Redirections(p.after), background |-> amp]
<1>1. ParseInput(s) = IF p.ok /\ OptRedir(p.after) THEN t ELSE NoTree
  BY DEF ParseInput, ParseTokens
<1>2. toks \in Seq(Token)
  BY TokensAre
<1> HIDE DEF toks
<1>3. body \in Seq(Token)
  <2>1. CASE toks # <<>>
    <3>1. Len(toks) - 1 \in 0..Len(toks)
      BY <1>2, <2>1, EmptySeq
    <3>2. Take(toks, Len(toks) - 1) \in Seq(Token)
      BY <1>2, <3>1, Cut
    <3>3. Front(toks) \in Seq(Token)
      BY <3>2 DEF Front, Take
    <3> QED BY <1>2, <3>3
  <2> QED BY <1>2, <2>1
<1>4. amp \in BOOLEAN
  OBVIOUS
<1> HIDE DEF body, amp
<1>5. p \in Parses
  <2>1. PICK at \in [0..(Len(body) + 1) -> Parses] : p = at[Len(body) + 1]
    BY <1>3, PipelineRuns
  <2>2. Len(body) + 1 \in 0..(Len(body) + 1)
    BY <1>3
  <2> QED BY <2>1, <2>2
<1> HIDE DEF p
<1>6. CASE p.ok /\ OptRedir(p.after)
  <2>1. p.after \in Seq(Token) /\ p.pipeline \in Seq(Seq(Words))
    BY <1>5 DEF Parses
  <2>2. p.pipeline # <<>> /\ \A i \in 1..Len(p.pipeline) : p.pipeline[i] # <<>>
    BY <1>5, <1>6 DEF Parses
  <2> DEFINE r == Redirections(p.after)
  <2>3. r \in Seq(RedirSymbols \X Words) /\ \E form \in RedirForms : InForm(r, form)
    BY <1>6, <2>1, RedirectionsAre
  <2> HIDE DEF r
  <2>4. t = [pipeline |-> p.pipeline, redir |-> r, background |-> amp]
    BY DEF r
  <2> HIDE DEF t
  <2>5. t.pipeline = p.pipeline /\ t.redir = r
    BY <2>4
  <2>6. t \in [pipeline : Seq(Seq(Words)), redir : Seq(RedirSymbols \X Words), background : BOOLEAN]
    BY <1>4, <2>1, <2>3, <2>4
  <2>7. t \in Trees
    BY <2>2, <2>3, <2>5, <2>6 DEF Trees
  <2> QED BY <1>1, <1>6, <2>7 DEF t
<1> QED BY <1>1, <1>6

\* The words and operators of a tree are texts.
LEMMA WordsAreTexts ==
  /\ Words \subseteq Seq(WordChars) /\ Words \subseteq Seq(Char) /\ RedirSymbols \subseteq Seq(Char)
  /\ <<"|">> \in Seq(Char) /\ <<"&">> \in Seq(Char)
<1>1. WordChars \subseteq Char
  BY Letters
<1>2. "2" \in Char /\ "<" \in Char /\ ">" \in Char /\ "|" \in Char /\ "&" \in Char
  <2>1. "2" \in WordChars /\ "<" \in Operators /\ ">" \in Operators /\ "|" \in Operators /\ "&" \in Operators
    BY Zenon DEF WordChars, NameChars, Operators
  <2> QED BY <2>1, Letters
<1>3. Words \subseteq Seq(WordChars)
  BY DEF Words
<1>4. Seq(WordChars) \subseteq Seq(Char)
  <2> HIDE DEF Words
  <2> QED BY <1>1, SeqMonotonic
<1>5. RedirSymbols \subseteq Seq(Char) /\ <<"|">> \in Seq(Char) /\ <<"&">> \in Seq(Char)
  BY <1>2 DEF RedirSymbols
<1> QED BY <1>3, <1>4, <1>5

LEMMA SpacedIs ==
  ASSUME NEW X, Blank \in X, NEW words \in Seq(Seq(X))
  PROVE  Spaced(words) \in Seq(X) /\ (words = <<>> => Spaced(words) = <<>>)
<1> DEFINE S == Seq(X)
           n == Len(words)
           q == [i \in 1..n |-> Append(words[i], Blank)]
<1>1. n \in Nat /\ DOMAIN words = 1..n /\ \A i \in 1..n : words[i] \in S
  <2> HIDE DEF S
  <2>1. words \in Seq(S)
    BY DEF S
  <2> QED BY <2>1
<1>2. \A i \in 1..n : Append(words[i], Blank) \in S
  BY <1>1, AppendProperties
<1>3. Spaced(words) = FlattenSeq(q)
  BY <1>1 DEF Spaced
<1>4. q \in Seq(S) /\ Len(q) = n
  <2> DEFINE e(i) == Append(words[i], Blank)
  <2>1. \A i \in 1..n : e(i) \in S
    BY <1>2
  <2>2. q = [i \in 1..n |-> e(i)]
    OBVIOUS
  <2> HIDE DEF e, S, q, n
  <2> QED BY <1>1, <2>1, <2>2
<1> HIDE DEF q
<1>5. FlattenSeq(q) \in Seq(X) /\ (q = <<>> => FlattenSeq(q) = <<>>)
  BY <1>4, Flattened
<1>6. words = <<>> => q = <<>>
  BY <1>4, EmptySeq
<1> QED BY <1>3, <1>5, <1>6

LEMMA PrintIs ==
  ASSUME NEW t \in Trees
  PROVE  PrintInput(t) \in Seq(Char)
<1> DEFINE T == Seq(Char)
           n == Len(t.pipeline)
           piece(i) == (IF i = 1 THEN <<>> ELSE Spaced(<< <<"|">> >>)) \o Spaced(t.pipeline[i])
           P == [i \in 1..n |-> piece(i)]
           k == Len(t.redir)
           R == [i \in 1..k |-> Spaced(t.redir[i])]
           A == IF t.background THEN Spaced(<< <<"&">> >>) ELSE <<>>
<1>1. t.pipeline \in Seq(Seq(Words)) /\ t.redir \in Seq(RedirSymbols \X Words)
  BY DEF Trees
<1>2. Blank \in Char
  BY CharIs
<1>3. << <<"|">> >> \in Seq(T) /\ << <<"&">> >> \in Seq(T)
  BY WordsAreTexts
<1>4. Spaced(<< <<"|">> >>) \in T /\ Spaced(<< <<"&">> >>) \in T
  BY <1>2, <1>3, SpacedIs
<1>5. \A i \in 1..n : piece(i) \in T
  <2> TAKE i \in 1..n
  <2>1. t.pipeline[i] \in Seq(Words)
    <3> DEFINE S == Seq(Words)
    <3>1. t.pipeline \in Seq(S)
      BY <1>1
    <3> HIDE DEF S
    <3>2. t.pipeline[i] \in S
      BY <3>1, ElementOfSeq
    <3> QED BY <3>2 DEF S
  <2>2. Seq(Words) \subseteq Seq(T)
    BY WordsAreTexts, SeqMonotonic
  <2>3. t.pipeline[i] \in Seq(T)
    BY <2>1, <2>2
  <2> DEFINE w == t.pipeline[i]
             b == IF i = 1 THEN <<>> ELSE Spaced(<< <<"|">> >>)
  <2>4. Spaced(w) \in T
    BY <1>2, <2>3, SpacedIs
  <2>5. b \in T
    BY <1>4
  <2> DEFINE u == Spaced(w)
  <2>6. piece(i) = b \o u
    OBVIOUS
  <2>7. u \in Seq(Char) /\ b \in Seq(Char)
    BY <2>4, <2>5
  <2> HIDE DEF u, b, piece, w, T
  <2>8. b \o u \in Seq(Char)
    BY <2>7, ConcatProperties
  <2> QED BY <2>6, <2>8 DEF T
<1>6. \A i \in 1..k : Spaced(t.redir[i]) \in T
  <2> TAKE i \in 1..k
  <2>1. t.redir[i] \in RedirSymbols \X Words
    BY <1>1, ElementOfSeq
  <2> DEFINE r == t.redir[i]
  <2> HIDE DEF r
  <2>2. r \in Seq(T)
    <3>1. r \in RedirSymbols \X Words
      BY <2>1 DEF r
    <3>2. r = <<r[1], r[2]>> /\ r[1] \in T /\ r[2] \in T
      BY <3>1, WordsAreTexts
    <3> HIDE DEF T
    <3>3. <<r[1], r[2]>> \in Seq(T)
      BY <3>2
    <3> QED BY <3>2, <3>3
  <2>3. Spaced(r) \in T
    BY <1>2, <2>2, SpacedIs
  <2> QED BY <2>3 DEF r
<1>7. DOMAIN t.pipeline = 1..n /\ n \in Nat /\ DOMAIN t.redir = 1..k /\ k \in Nat
  BY <1>1
<1>8. PrintPipeline(t.pipeline) = FlattenSeq(P) /\ PrintRedir(t.redir) = FlattenSeq(R)
  BY <1>7 DEF PrintPipeline, PrintRedir
<1>9. P \in Seq(T) /\ R \in Seq(T)
  <2> DEFINE rp(i) == Spaced(t.redir[i])
  <2>1. R = [i \in 1..k |-> rp(i)] /\ \A i \in 1..k : rp(i) \in T
    BY <1>6
  <2>2. P = [i \in 1..n |-> piece(i)]
    OBVIOUS
  <2> HIDE DEF rp, piece, P, R, T, n, k
  <2>3. P \in Seq(T)
    BY <1>5, <1>7, <2>2
  <2>4. R \in Seq(T)
    BY <1>7, <2>1
  <2> QED BY <2>3, <2>4
<1>10. A \in T
  BY <1>4
<1>11. PrintInput(t) = FlattenSeq(P) \o FlattenSeq(R) \o A
  BY <1>8, Zenon DEF PrintInput
<1> HIDE DEF P, R, A
<1>12. FlattenSeq(P) \in Seq(Char) /\ FlattenSeq(R) \in Seq(Char)
  BY <1>9, Flattened
<1> DEFINE x == FlattenSeq(P)
           y == FlattenSeq(R)
<1>13. x \in Seq(Char) /\ y \in Seq(Char) /\ A \in Seq(Char) /\ PrintInput(t) = x \o y \o A
  BY <1>10, <1>11, <1>12
<1> HIDE DEF x, y
<1>14. x \o y \in Seq(Char)
  BY <1>13, ConcatProperties
<1>15. (x \o y) \o A \in Seq(Char)
  BY <1>13, <1>14, ConcatProperties
<1> QED BY <1>13, <1>15

-----------------------------------------------------------------------------
(* Cutting a line without quotes.                                          *)

LEMMA UnquotedIs ==
  ASSUME NEW s \in Seq(Plain)
  PROVE  Unquoted(s) = 1..Len(s)
<1> DEFINE Is(f) == f = [i \in 0..Len(s) |-> IF i = 0 THEN Nothing ELSE Toggle(s[i], f[i - 1])]
           h == [i \in 0..Len(s) |-> Nothing]
           g == CHOOSE f : Is(f)
<1>1. Len(s) \in Nat /\ DOMAIN s = 1..Len(s)
  OBVIOUS
<1>2. \A i \in 1..Len(s) : Toggle(s[i], Nothing) = Nothing
  <2> TAKE i \in 1..Len(s)
  <2>1. s[i] \in Plain
    BY ElementOfSeq
  <2>2. s[i] \notin Quotes /\ s[i] # Nothing
    BY <2>1, PlainChars, CharIs
  <2> DEFINE c == s[i]
  <2> HIDE DEF c
  <2>3. c \notin Quotes /\ c # Nothing
    BY <2>2 DEF c
  <2>4. Toggle(c, Nothing) = Nothing
    BY <2>3 DEF Toggle
  <2> QED BY <2>4 DEF c
<1>3. Is(h)
  BY <1>1, <1>2
<1>4. Is(g)
  <2> HIDE DEF h
  <2> QED BY <1>3
<1>5. QuoteAfter(s) = g
  BY DEF QuoteAfter
<1> DEFINE Good == {i \in 0..Len(s) : g[i] = Nothing}
<1> HIDE DEF g
<1>6. 0 \in Good
  BY <1>1, <1>4
<1>7. ASSUME NEW i \in 1..Len(s), i - 1 \in Good PROVE i \in Good
  BY <1>1, <1>2, <1>4, <1>7
<1> HIDE DEF Good
<1>8. \A i \in 0..Len(s) : i \in Good
  BY <1>1, <1>6, <1>7, Counting
<1>9. \A i \in 1..Len(s) : g[i - 1] = Nothing
  <2> TAKE i \in 1..Len(s)
  <2>1. i - 1 \in 0..Len(s)
    BY <1>1
  <2>2. i - 1 \in Good
    BY <1>8, <2>1
  <2> QED BY <2>2 DEF Good
<1> QED BY <1>1, <1>5, <1>9 DEF Unquoted

LEMMA StripAmpIs ==
  ASSUME NEW s \in Seq(Plain)
  PROVE  StripAmp(s) \in Seq(Plain)
<1>1. CASE TrailingAmp(s) = {}
  BY <1>1 DEF StripAmp
<1>2. CASE TrailingAmp(s) # {}
  <2> DEFINE m == Min(TrailingAmp(s))
             t == Take(s, m - 1)
  <2>1. TrailingAmp(s) \subseteq 1..Len(s) /\ Len(s) \in Nat
    BY UnquotedIs DEF TrailingAmp
  <2>2. m \in 1..Len(s)
    BY <1>2, <2>1, MinOf
  <2> HIDE DEF m
  <2>3. m - 1 \in 0..Len(s)
    BY <2>1, <2>2
  <2>4. t \in Seq(Plain)
    BY <2>3, Cut
  <2> HIDE DEF t
  <2>5. Reverse(SkipBlanks(Reverse(t))) \in Seq(Plain)
    BY <2>4, Reversed, Skip
  <2> QED BY <1>2, <2>5 DEF StripAmp, t, m
<1> QED BY <1>1, <1>2

\* One turn of split_pipeline_stages: after i characters.
PieceTurn(s, i, x) ==
  IF i \notin Bars(s) THEN x
  ELSE [start |-> i + 1, pieces |-> Append(x.pieces, Trim(SubSeq(s, x.start, i - 1)))]
Cuts(s, X) == [start : 1..Len(s) + 1, pieces : Seq(Seq(X))]

LEMMA PieceTurnStays ==
  ASSUME NEW X, NEW s \in Seq(X), NEW i \in 1..Len(s), NEW x \in Cuts(s, X)
  PROVE  PieceTurn(s, i, x) \in Cuts(s, X)
<1> DEFINE t == SubSeq(s, x.start, i - 1)
<1>1. x.start \in 1..Len(s) + 1 /\ x.pieces \in Seq(Seq(X)) /\ Len(s) \in Nat
  BY DEF Cuts
<1>2. t \in Seq(X)
  <2>1. x.start \in Int /\ i - 1 \in Int /\ \A j \in x.start..(i - 1) : s[j] \in X
    BY <1>1
  <2> QED BY <2>1, SubSeqProperties
<1> HIDE DEF t
<1>3. Append(x.pieces, Trim(t)) \in Seq(Seq(X))
  <2> DEFINE S == Seq(X)
             u == Trim(t)
  <2>1. u \in S /\ x.pieces \in Seq(S)
    BY <1>1, <1>2, TrimIs
  <2> HIDE DEF S, u
  <2>2. Append(x.pieces, u) \in Seq(S)
    BY <2>1, AppendProperties
  <2> QED BY <2>2 DEF S, u
<1>4. i + 1 \in 1..Len(s) + 1
  BY <1>1
<1>5. [start |-> i + 1, pieces |-> Append(x.pieces, Trim(t))] \in Cuts(s, X)
  BY <1>3, <1>4 DEF Cuts
<1> QED BY <1>5 DEF PieceTurn, t

LEMMA PiecesRuns ==
  ASSUME NEW X, NEW s \in Seq(X)
  PROVE  \E at \in [0..Len(s) -> Cuts(s, X)] :
           /\ at[0] = [start |-> 1, pieces |-> <<>>]
           /\ \A k \in 1..Len(s) : at[k] = PieceTurn(s, k, at[k - 1])
           /\ Pieces(s) = Append(at[Len(s)].pieces, Trim(SubSeq(s, at[Len(s)].start, Len(s))))
<1> DEFINE S == Cuts(s, X)
           n == Len(s)
           s0 == [start |-> 1, pieces |-> <<>>]
           F == [k \in 1..n |-> [x \in S |-> PieceTurn(s, k, x)]]
           Is(f) == f = [i \in 0..n |->
                           IF i = 0 THEN [start |-> 1, pieces |-> <<>>]
                           ELSE LET x == f[i - 1] IN
                                IF i \notin Bars(s) THEN x
                                ELSE [start |-> i + 1,
                                      pieces |-> Append(x.pieces, Trim(SubSeq(s, x.start, i - 1)))]]
           g == CHOOSE f : Is(f)
<1>1. n \in Nat
  OBVIOUS
<1>2. s0 \in S
  BY <1>1 DEF Cuts
<1>3. \A k \in 1..n : \A x \in S : PieceTurn(s, k, x) \in S
  BY PieceTurnStays
<1>4. F \in [1..n -> [S -> S]]
  <2> HIDE DEF S, n
  <2> QED BY <1>3
<1>5. PICK at \in [0..n -> S] : Loop(F, s0, n, at)
  <2> HIDE DEF F, s0, S, n
  <2> QED BY <1>1, <1>2, <1>4, LoopRuns
<1>6. \A k \in 1..n : at[k] = PieceTurn(s, k, at[k - 1])
  <2> TAKE k \in 1..n
  <2>1. at[k] = F[k][at[k - 1]]
    BY <1>5 DEF Loop
  <2>2. at[k - 1] \in S
    <3>1. k - 1 \in 0..n
      BY <1>1
    <3> HIDE DEF S, n
    <3> QED BY <1>5, <3>1
  <2> HIDE DEF S
  <2> QED BY <2>1, <2>2
<1>7. at[0] = s0
  BY <1>5 DEF Loop
<1>8. Is(at)
  <2>1. at = [i \in 0..n |-> IF i = 0 THEN s0 ELSE PieceTurn(s, i, at[i - 1])]
    <3> HIDE DEF S, n, s0
    <3> QED BY <1>1, <1>6, <1>7
  <2> HIDE DEF n
  <2> QED BY <2>1 DEF PieceTurn
<1>9. Is(g)
  BY <1>8
<1>10. Pieces(s) = Append(g[n].pieces, Trim(SubSeq(s, g[n].start, n)))
  BY DEF Pieces
<1>11. g[0] = s0 /\ \A k \in 1..n : g[k] = PieceTurn(s, k, g[k - 1])
  <2>1. g = [i \in 0..n |-> IF i = 0 THEN s0 ELSE PieceTurn(s, i, g[i - 1])]
    <3> HIDE DEF g, n
    <3> QED BY <1>9 DEF PieceTurn
  <2> HIDE DEF g, s0, n
  <2> QED BY <1>1, <2>1
<1> DEFINE Good == {k \in 0..n : g[k] = at[k]}
<1>12. 0 \in Good
  BY <1>1, <1>7, <1>11
<1>13. ASSUME NEW k \in 1..n, k - 1 \in Good PROVE k \in Good
  <2> HIDE DEF g, n, S
  <2>1. k \in 0..n /\ g[k - 1] = at[k - 1]
    BY <1>1, <1>13
  <2>2. g[k] = PieceTurn(s, k, g[k - 1]) /\ at[k] = PieceTurn(s, k, at[k - 1])
    BY <1>6, <1>11
  <2> QED BY <2>1, <2>2
<1> HIDE DEF Good
<1>14. \A k \in 0..n : k \in Good
  BY <1>1, <1>12, <1>13, Counting
<1>15. g[n] = at[n]
  <2>1. n \in Good
    BY <1>1, <1>14
  <2> QED BY <2>1 DEF Good
<1> HIDE DEF g
<1> QED BY <1>6, <1>7, <1>10, <1>15

Unpiped == Plain \ {"|"}

LEMMA PiecesAre ==
  ASSUME NEW s \in Seq(Plain)
  PROVE  /\ Pieces(s) \in Seq(Seq(Unpiped)) /\ Pieces(s) # <<>>
         /\ Len(Pieces(s)) \in Nat \ {0}
<1> DEFINE n == Len(s)
<1>1. n \in Nat /\ Bars(s) = {i \in 1..n : s[i] = "|"}
  BY UnquotedIs DEF Bars
<1>2. PICK at \in [0..n -> Cuts(s, Plain)] :
        /\ at[0] = [start |-> 1, pieces |-> <<>>]
        /\ \A k \in 1..n : at[k] = PieceTurn(s, k, at[k - 1])
        /\ Pieces(s) = Append(at[n].pieces, Trim(SubSeq(s, at[n].start, n)))
  BY PiecesRuns
<1> DEFINE Clean(x, k) == /\ x.pieces \in Seq(Seq(Unpiped)) /\ x.start \in 1..k + 1
                          /\ \A j \in x.start..k : s[j] \in Unpiped
           Good == {k \in 0..n : Clean(at[k], k)}
<1>3. 0 \in Good
  <2>1. at[0].start = 1 /\ at[0].pieces = <<>>
    BY <1>2
  <2>2. <<>> \in Seq(Seq(Unpiped)) /\ 1 \in 1..0 + 1 /\ \A j \in 1..0 : s[j] \in Unpiped
    OBVIOUS
  <2>3. Clean(at[0], 0)
    BY <2>1, <2>2, Zenon
  <2> HIDE DEF Clean
  <2> QED BY <1>1, <2>3
<1>4. ASSUME NEW k \in Nat, NEW x, Clean(x, k)
      PROVE  Append(x.pieces, Trim(SubSeq(s, x.start, k))) \in Seq(Seq(Unpiped))
  <2> DEFINE t == SubSeq(s, x.start, k)
             S == Seq(Unpiped)
             u == Trim(t)
  <2>1. x.start \in Int /\ k \in Int /\ \A j \in x.start..k : s[j] \in Unpiped
    BY <1>4
  <2>2. t \in Seq(Unpiped)
    BY <2>1, SubSeqProperties
  <2>3. u \in S
    <3> HIDE DEF t
    <3> QED BY <2>2, TrimIs
  <2>4. x.pieces \in Seq(S)
    BY <1>4
  <2> HIDE DEF S, u
  <2>5. Append(x.pieces, u) \in Seq(S)
    BY <2>3, <2>4, AppendProperties
  <2> QED BY <2>5 DEF S, u
<1>5. ASSUME NEW k \in 1..n, k - 1 \in Good PROVE k \in Good
  <2> DEFINE x == at[k - 1]
  <2>1. Clean(x, k - 1) /\ at[k] = PieceTurn(s, k, x) /\ k \in 0..n
    BY <1>1, <1>2, <1>5
  <2> HIDE DEF x
  <2>2. CASE k \notin Bars(s)
    <3>1. at[k] = x
      BY <2>1, <2>2 DEF PieceTurn
    <3>2. s[k] \in Plain /\ s[k] # "|"
      BY <1>1, <2>2
    <3>3. Clean(x, k)
      <4>1. x.start \in 1..k + 1
        BY <2>1
      <4>2. ASSUME NEW j \in x.start..k PROVE s[j] \in Unpiped
        <5>1. CASE j = k
          BY <3>2, <5>1 DEF Unpiped
        <5>2. CASE j # k
          <6>1. j \in x.start..(k - 1)
            BY <4>1, <5>2
          <6> QED BY <2>1, <6>1
        <5> QED BY <5>1, <5>2
      <4> QED BY <2>1, <4>1, <4>2
    <3> QED BY <2>1, <3>1, <3>3
  <2>3. CASE k \in Bars(s)
    <3>1. at[k] = [start |-> k + 1, pieces |-> Append(x.pieces, Trim(SubSeq(s, x.start, k - 1)))]
      BY <2>1, <2>3 DEF PieceTurn
    <3>2. Append(x.pieces, Trim(SubSeq(s, x.start, k - 1))) \in Seq(Seq(Unpiped))
      <4>1. k - 1 \in Nat
        BY <1>1
      <4> HIDE DEF Clean
      <4> QED BY <1>4, <2>1, <4>1
    <3>3. \A j \in (k + 1)..k : FALSE
      BY <1>1
    <3>4. Clean(at[k], k)
      BY <1>1, <3>1, <3>2, <3>3
    <3> QED BY <2>1, <3>4
  <2> QED BY <2>2, <2>3
<1> HIDE DEF Good
<1>6. \A k \in 0..n : k \in Good
  BY <1>1, <1>3, <1>5, Counting
<1>7. Clean(at[n], n)
  <2>1. n \in Good
    BY <1>1, <1>6
  <2> QED BY <2>1 DEF Good
<1>8. Pieces(s) \in Seq(Seq(Unpiped))
  <2> HIDE DEF Clean
  <2> QED BY <1>1, <1>2, <1>4, <1>7
<1>9. Pieces(s) # <<>>
  <2> DEFINE q == at[n].pieces
             u == Trim(SubSeq(s, at[n].start, n))
  <2>1. q \in Seq(Seq(Unpiped)) /\ Pieces(s) = Append(q, u)
    BY <1>2, <1>7
  <2> HIDE DEF q, u
  <2>2. Len(Append(q, u)) = Len(q) + 1 /\ Len(q) \in Nat
    BY <2>1
  <2> QED BY <2>1, <2>2
<1>10. Len(Pieces(s)) \in Nat \ {0}
  BY <1>8, <1>9, EmptySeq
<1> QED BY <1>8, <1>9, <1>10

-----------------------------------------------------------------------------
(* Reading a stage without quotes.                                         *)

Operand == Plain \ {"|", "<", ">"}
Redirection == Range(RedirOps) \X Seq(Operand)
Stagings == [ok : BOOLEAN, argv : Seq(Seq(Operand)), redirs : Seq(Redirection), used : Nat,
             rest : Seq(Unpiped)]

LEMMA RedirOpsAre ==
  /\ DOMAIN RedirOps = 1..6 /\ \A i \in 1..6 : RedirOps[i] \in Range(RedirOps)
  /\ \A i \in 1..6 : Len(RedirOps[i]) \in 1..4
  /\ Len(RedirOps[1]) = 4
<1>1. DOMAIN RedirOps = 1..6
  BY DEF RedirOps
<1>2. \A i \in 1..6 : Len(RedirOps[i]) \in 1..4
  BY DEF RedirOps
<1>3. Len(RedirOps[1]) = 4
  BY DEF RedirOps
<1> QED BY <1>1, <1>2, <1>3 DEF Range

LEMMA UnpipedIsPlain ==
  /\ Unpiped \subseteq Plain /\ Operand \subseteq Plain /\ Seq(Unpiped) \subseteq Seq(Plain)
  /\ Operand \subseteq Unpiped
<1>1. Unpiped \subseteq Plain /\ Operand \subseteq Plain /\ Operand \subseteq Unpiped
  BY DEF Unpiped, Operand
<1> QED BY <1>1, SeqMonotonic

LEMMA WordOfOperands ==
  ASSUME NEW s \in Seq(Unpiped)
  PROVE  LET w == Word(s) IN
         /\ w.ok = TRUE /\ w.quote = Nothing
         /\ w.word \in Seq(Operand) /\ w.rest \in Seq(Unpiped)
<1>1. s \in Seq(Plain)
  BY UnpipedIsPlain
<1>2. PICK n \in 0..Len(s) :
        /\ Reads(s, n)
        /\ Word(s).ok = TRUE /\ Word(s).quote = Nothing
        /\ Word(s).word = Take(s, n) /\ Word(s).rest = Drop(s, n)
  BY <1>1, WordIs
<1>3. Take(s, n) \in Seq(Unpiped) /\ Len(Take(s, n)) = n /\ Drop(s, n) \in Seq(Unpiped)
      /\ \A i \in 1..n : Take(s, n)[i] = s[i]
  BY Cut
<1>4. ASSUME NEW i \in 1..n PROVE s[i] \in Operand
  <2> DEFINE d == Drop(s, i - 1)
  <2>1. i - 1 \in 0..Len(s) /\ 1 \in 1..(Len(s) - (i - 1)) /\ (i - 1) + 1 = i /\ i \in 1..Len(s)
    OBVIOUS
  <2>2. d \in Seq(Plain) /\ Len(d) = Len(s) - (i - 1) /\ \A j \in 1..(Len(s) - (i - 1)) : d[j] = s[(i - 1) + j]
    <3> DEFINE k == i - 1
    <3> HIDE DEF k
    <3>1. k \in 0..Len(s)
      BY <2>1 DEF k
    <3>2. Drop(s, k) \in Seq(Plain) /\ Len(Drop(s, k)) = Len(s) - k /\ \A j \in 1..(Len(s) - k) : Drop(s, k)[j] = s[k + j]
      BY <1>1, <3>1, Cut
    <3> QED BY <3>2 DEF k
  <2>3. ~Stop(d)
    BY <1>2 DEF Reads
  <2> HIDE DEF d
  <2>4. d # <<>> /\ ~IsRedirStart(d)
    BY <2>3 DEF Stop
  <2>5. d[1] = s[i]
    BY <2>1, <2>2
  <2>6. d \in Seq(Char)
    <3>1. Seq(Plain) \subseteq Seq(Char)
      BY PlainChars, SeqMonotonic
    <3> QED BY <2>2, <3>1
  <2>7. d[1] # "<" /\ d[1] # ">"
    BY <2>4, <2>6, RedirStartIs
  <2>8. s[i] \in Unpiped
    BY <2>1, ElementOfSeq
  <2> QED BY <2>5, <2>7, <2>8 DEF Unpiped, Operand
<1>5. Take(s, n) \in Seq(Operand)
  <2> DEFINE t == Take(s, n)
  <2>1. t \in Seq(Unpiped) /\ Len(t) = n /\ \A i \in 1..n : t[i] \in Operand
    BY <1>3, <1>4
  <2> HIDE DEF t
  <2>2. t \in Seq(Operand)
    BY <2>1
  <2> QED BY <2>2 DEF t
<1> QED BY <1>2, <1>3, <1>5

LEMMA OpAtIs ==
  ASSUME NEW X, NEW p \in Seq(X)
  PROVE  OpAt(p) = <<>> \/ (OpAt(p) \in Range(RedirOps) /\ Len(OpAt(p)) \in 1..Len(p) /\ IsPrefix(OpAt(p), p))
<1> DEFINE Found == {i \in DOMAIN RedirOps : IsPrefix(RedirOps[i], p)}
<1>1. Found \subseteq 1..6 /\ \A i \in Found : IsPrefix(RedirOps[i], p)
  BY RedirOpsAre
<1>2. OpAt(p) = IF Found = {} THEN <<>> ELSE RedirOps[Min(Found)]
  BY Zenon DEF OpAt
<1> HIDE DEF Found
<1>3. CASE Found # {}
  <2> DEFINE m == Min(Found)
  <2>1. m \in Found
    <3>1. Found \subseteq Nat
      BY <1>1
    <3> QED BY <1>3, <3>1, MinOf
  <2> HIDE DEF m
  <2>2. m \in 1..6 /\ IsPrefix(RedirOps[m], p)
    BY <1>1, <2>1
  <2>3. Len(RedirOps[m]) <= Len(p) /\ Len(RedirOps[m]) \in 1..4 /\ RedirOps[m] \in Range(RedirOps)
    BY <2>2, RedirOpsAre DEF IsPrefix
  <2>4. OpAt(p) = RedirOps[m]
    BY <1>2, <1>3 DEF m
  <2>5. Len(p) \in Nat
    OBVIOUS
  <2> QED BY <2>2, <2>3, <2>4, <2>5
<1> QED BY <1>2, <1>3

LEMMA GrownIs ==
  ASSUME NEW st \in Stagings, NEW op, op = <<>> \/ op \in Range(RedirOps),
         NEW w, w.word \in Seq(Operand), w.rest \in Seq(Unpiped)
  PROVE  Grown(st, op, w) \in Stagings
<1> DEFINE used1 == st.used + Len(w.word) + 1
           read == [st EXCEPT !.used = used1, !.rest = w.rest]
           bad == [st EXCEPT !.ok = FALSE]
           arg == [read EXCEPT !.argv = Append(st.argv, w.word)]
           red == [read EXCEPT !.redirs = Append(st.redirs, <<op, w.word>>)]
<1>1. /\ st.ok \in BOOLEAN /\ st.argv \in Seq(Seq(Operand)) /\ st.redirs \in Seq(Redirection)
      /\ st.used \in Nat /\ st.rest \in Seq(Unpiped)
  BY DEF Stagings
<1>2. used1 \in Nat
  BY <1>1
<1> HIDE DEF used1
<1>3. read \in Stagings /\ read.argv = st.argv /\ read.redirs = st.redirs
  BY <1>1, <1>2 DEF Stagings
<1>4. Grown(st, op, w) = bad \/ (op = <<>> /\ Grown(st, op, w) = arg) \/ (op # <<>> /\ Grown(st, op, w) = red)
  <2>1. Grown(st, op, w) = IF ~w.ok \/ (op = <<>> /\ Len(st.argv) = MaxArgs - 1) THEN bad
          ELSE IF op = <<>> THEN [read EXCEPT !.argv = Append(@, w.word)]
          ELSE [read EXCEPT !.redirs = Append(@, <<op, w.word>>)]
    BY Zenon DEF Grown, used1
  <2>2. arg = [read EXCEPT !.argv = Append(@, w.word)] /\ red = [read EXCEPT !.redirs = Append(@, <<op, w.word>>)]
    BY <1>3
  <2> DEFINE c == ~w.ok \/ (op = <<>> /\ Len(st.argv) = MaxArgs - 1)
  <2>3. Grown(st, op, w) = IF c THEN bad ELSE IF op = <<>> THEN arg ELSE red
    BY <2>1, <2>2
  <2> HIDE DEF c, bad, arg, red
  <2> QED BY <2>3
<1>5. bad \in Stagings
  BY DEF Stagings
<1>6. arg \in Stagings
  <2> DEFINE S == Seq(Operand)
  <2>1. st.argv \in Seq(S) /\ w.word \in S
    BY <1>1
  <2> HIDE DEF S
  <2>2. Append(st.argv, w.word) \in Seq(S)
    BY <2>1, AppendProperties
  <2>3. Append(st.argv, w.word) \in Seq(Seq(Operand))
    BY <2>2 DEF S
  <2> HIDE DEF read
  <2> QED BY <1>3, <2>3 DEF Stagings
<1>7. op # <<>> => red \in Stagings
  <2> SUFFICES ASSUME op # <<>> PROVE red \in Stagings
    OBVIOUS
  <2>1. <<op, w.word>> \in Redirection
    BY DEF Redirection
  <2>2. Append(st.redirs, <<op, w.word>>) \in Seq(Redirection)
    BY <1>1, <2>1, AppendProperties
  <2> HIDE DEF read
  <2> QED BY <1>3, <2>2 DEF Stagings
<1> HIDE DEF bad, arg, red
<1> QED BY <1>4, <1>5, <1>6, <1>7

LEMMA StageTurnStays ==
  ASSUME NEW st \in Stagings
  PROVE  StageTurn(st) \in Stagings
<1> DEFINE p == SkipBlanks(st.rest)
           op == OpAt(p)
           q == Drop(p, Len(op))
           w == StoreWord(q, st.used)
           bad == [st EXCEPT !.ok = FALSE]
           amp == [st EXCEPT !.rest = Drop(p, 4), !.redirs = Append(st.redirs, <<op, <<>>>>)]
<1>1. /\ st.ok \in BOOLEAN /\ st.argv \in Seq(Seq(Operand)) /\ st.redirs \in Seq(Redirection)
      /\ st.used \in Nat /\ st.rest \in Seq(Unpiped)
  BY DEF Stagings
<1>2. StageTurn(st) \in {st, bad, Grown(st, op, w)} \/ (op = RedirOps[1] /\ StageTurn(st) = amp)
  <2> HIDE DEF p, op, w, q
  <2> DEFINE c1 == p = <<>> \/ ~st.ok
             c2 == op # <<>> /\ Len(st.redirs) = MaxArgs
             c3 == op = RedirOps[1]
             y == StageTurn(st)
             g == Grown(st, op, w)
  <2>1. y = IF c1 THEN st ELSE IF c2 THEN bad ELSE IF c3 THEN amp ELSE g
    BY Zenon DEF StageTurn, p, op, w, q
  <2> HIDE DEF c1, c2, c3, y, g, amp, bad
  <2>2. y \in {st, bad, g} \/ (c3 /\ y = amp)
    BY <2>1
  <2> QED BY <2>2 DEF y, g, c3
<1>3. p \in Seq(Unpiped) /\ Len(p) \in Nat
  BY <1>1, Skip
<1> HIDE DEF p
<1>4. op = <<>> \/ (op \in Range(RedirOps) /\ Len(op) \in 1..Len(p))
  BY <1>3, OpAtIs
<1> HIDE DEF op
<1>5. q \in Seq(Unpiped)
  <2>1. Len(op) \in 0..Len(p)
    BY <1>3, <1>4
  <2> QED BY <1>3, <2>1, Cut
<1> HIDE DEF q
<1>6. w.word \in Seq(Operand) /\ w.rest \in Seq(Unpiped)
  <2> DEFINE s == SkipBlanks(q)
             v == Word(s)
  <2>1. s \in Seq(Unpiped)
    BY <1>5, Skip
  <2> HIDE DEF s
  <2>2. v.word \in Seq(Operand) /\ v.rest \in Seq(Unpiped)
    BY <2>1, WordOfOperands
  <2>3. w.word = v.word /\ w.rest = v.rest
    BY DEF StoreWord, Stored, s
  <2> HIDE DEF w
  <2> QED BY <2>2, <2>3
<1> HIDE DEF w
<1>7. Grown(st, op, w) \in Stagings
  BY <1>4, <1>6, GrownIs
<1>8. bad \in Stagings
  BY DEF Stagings
<1>9. op = RedirOps[1] => amp \in Stagings
  <2> SUFFICES ASSUME op = RedirOps[1] PROVE amp \in Stagings
    OBVIOUS
  <2>1. op # <<>> /\ Len(op) = 4
    BY RedirOpsAre
  <2>2. 4 \in 0..Len(p) /\ op \in Range(RedirOps)
    BY <1>3, <1>4, <2>1
  <2>3. Drop(p, 4) \in Seq(Unpiped)
    BY <1>3, <2>2, Cut
  <2>4. <<op, <<>>>> \in Redirection
    <3>1. <<>> \in Seq(Operand) /\ op \in Range(RedirOps)
      BY <2>2
    <3> QED BY <3>1 DEF Redirection
  <2>5. Append(st.redirs, <<op, <<>>>>) \in Seq(Redirection)
    BY <1>1, <2>4, AppendProperties
  <2> QED BY <1>1, <2>3, <2>5 DEF Stagings
<1> HIDE DEF amp, bad
<1> QED BY <1>2, <1>7, <1>8, <1>9

LEMMA StageRuns ==
  ASSUME NEW s \in Seq(Unpiped)
  PROVE  \E at \in [0..Len(s) -> Stagings] :
           /\ at[0] = [ok |-> TRUE, argv |-> <<>>, redirs |-> <<>>, used |-> 0, rest |-> s]
           /\ \A k \in 1..Len(s) : at[k] = StageTurn(at[k - 1])
           /\ Stage(s) = [at[Len(s)] EXCEPT !.ok = @ /\ at[Len(s)].argv # <<>>]
<1> DEFINE s0 == [ok |-> TRUE, argv |-> <<>>, redirs |-> <<>>, used |-> 0, rest |-> s]
           F == [k \in 1..Len(s) |-> [x \in Stagings |-> StageTurn(x)]]
           Is(f) == f = [k \in 0..Len(s) |-> IF k = 0 THEN s0 ELSE StageTurn(f[k - 1])]
           g == CHOOSE f : Is(f)
<1>1. Len(s) \in Nat
  OBVIOUS
<1>2. s0 \in Stagings
  BY DEF Stagings
<1>3. \A x \in Stagings : StageTurn(x) \in Stagings
  BY StageTurnStays, Zenon
<1>4. F \in [1..Len(s) -> [Stagings -> Stagings]]
  BY <1>3
<1>5. PICK at \in [0..Len(s) -> Stagings] : Loop(F, s0, Len(s), at)
  <2> HIDE DEF F, s0
  <2> QED BY <1>1, <1>2, <1>4, LoopRuns
<1>6. \A k \in 1..Len(s) : at[k] = StageTurn(at[k - 1])
  <2> TAKE k \in 1..Len(s)
  <2>1. at[k - 1] \in Stagings /\ at[k] = F[k][at[k - 1]]
    BY <1>5 DEF Loop
  <2> QED BY <2>1
<1>7. at[0] = s0
  BY <1>5 DEF Loop
<1>8. Is(at)
  BY <1>1, <1>6, <1>7
<1>9. Is(g)
  BY <1>8
<1>10. Stage(s) = [g[Len(s)] EXCEPT !.ok = @ /\ g[Len(s)].argv # <<>>]
  BY DEF Stage
<1>11. g[0] = s0 /\ \A k \in 1..Len(s) : g[k] = StageTurn(g[k - 1])
  <2> HIDE DEF g, s0
  <2> QED BY <1>1, <1>9
<1>12. g \in [0..Len(s) -> Stagings]
  <2> DEFINE Good == {k \in 0..Len(s) : g[k] \in Stagings}
  <2>1. 0 \in Good
    BY <1>1, <1>2, <1>11
  <2>2. ASSUME NEW k \in 1..Len(s), k - 1 \in Good PROVE k \in Good
    <3> HIDE DEF g
    <3>1. g[k - 1] \in Stagings /\ g[k] = StageTurn(g[k - 1]) /\ k \in 0..Len(s)
      BY <1>1, <1>11, <2>2
    <3> QED BY <1>3, <3>1
  <2> HIDE DEF Good
  <2>3. \A k \in 0..Len(s) : k \in Good
    BY <1>1, <2>1, <2>2, Counting
  <2>4. \A k \in 0..Len(s) : g[k] \in Stagings
    BY <2>3 DEF Good
  <2> HIDE DEF g, s0
  <2> QED BY <1>9, <2>4
<1> HIDE DEF g
<1> QED BY <1>10, <1>11, <1>12

LEMMA StageIs ==
  ASSUME NEW s \in Seq(Unpiped)
  PROVE  Stage(s) \in Stagings
<1>1. PICK at \in [0..Len(s) -> Stagings] :
        Stage(s) = [at[Len(s)] EXCEPT !.ok = @ /\ at[Len(s)].argv # <<>>]
  BY StageRuns
<1> DEFINE x == at[Len(s)]
<1>2. x \in Stagings
  BY <1>1
<1> HIDE DEF x
<1>3. [x EXCEPT !.ok = x.ok /\ x.argv # <<>>] \in Stagings
  <2>1. (x.ok /\ x.argv # <<>>) \in BOOLEAN
    OBVIOUS
  <2> QED BY <1>2, <2>1 DEF Stagings
<1> QED BY <1>1, <1>3 DEF x

-----------------------------------------------------------------------------
(* No bar or redirection character ends up inside an argument.             *)

LEMMA WithoutThem ==
  ASSUME NEW X, NEW D, NEW s \in Seq(X)
  PROVE  Range(s) \cap D = {} <=> s \in Seq(X \ D)
<1>1. Len(s) \in Nat /\ DOMAIN s = 1..Len(s) /\ \A i \in 1..Len(s) : s[i] \in X
  OBVIOUS
<1>2. ASSUME Range(s) \cap D = {} PROVE s \in Seq(X \ D)
  <2>1. \A i \in 1..Len(s) : s[i] \in X \ D
    BY <1>1, <1>2 DEF Range
  <2> QED BY <1>1, <2>1
<1>3. ASSUME s \in Seq(X \ D) PROVE Range(s) \cap D = {}
  <2>1. \A i \in 1..Len(s) : s[i] \in X \ D
    BY <1>3
  <2> QED BY <1>1, <2>1 DEF Range
<1> QED BY <1>2, <1>3

LEMMA ParseCommandIs ==
  ASSUME NEW X, NEW s \in Seq(X)
  PROVE  /\ ParseCommand(s) \in Seq(Seq(X))
         /\ Len(Split(s)) < MaxArgs => ParseCommand(s) = Split(s)
         /\ Split(s) # <<>> => ParseCommand(s) # <<>>
<1> DEFINE S == Seq(X)
           w == Split(s)
           n == Min({Len(w), MaxArgs - 1})
<1>1. w \in Seq(S)
  BY SplitIs
<1> HIDE DEF S, w
<1>2. Len(w) \in Nat /\ MaxArgs - 1 \in Nat \ {0} /\ MaxArgs \in Nat
  BY <1>1, SizesAssumption
<1>3. n \in Nat /\ n <= Len(w) /\ n = IF Len(w) <= MaxArgs - 1 THEN Len(w) ELSE MaxArgs - 1
  BY <1>2, MinOfTwo
<1> HIDE DEF n
<1>4. n \in 0..Len(w)
  BY <1>2, <1>3
<1>5. Take(w, n) \in Seq(S) /\ Len(Take(w, n)) = n
  BY <1>1, <1>4, Cut
<1>6. ASSUME Len(w) < MaxArgs PROVE Take(w, n) = w
  <2>1. n = Len(w)
    BY <1>2, <1>3, <1>6
  <2> QED BY <1>1, <2>1, SubSeqFull DEF Take
<1>7. ASSUME w # <<>> PROVE Take(w, n) # <<>>
  <2>1. Len(w) # 0
    BY <1>1, <1>7, EmptySeq
  <2>2. n # 0
    BY <1>2, <1>3, <2>1
  <2> QED BY <1>5, <2>2, EmptySeq
<1>8. ParseCommand(s) = Take(w, n)
  BY DEF ParseCommand, w, n
<1> QED BY <1>5, <1>6, <1>7, <1>8 DEF S, w

Command == [argv : Seq(Seq(Operand)), redirs : Seq(Redirection)]

LineType == text \in Seq(Char) /\ rest \in Seq(Char)

OperatorInv ==
  /\ LineType
  /\ phase \in {"prompt", "asked", "read", "expanded", "normal", "confirm"} => cmds = <<>> /\ stages = <<>>
  /\ text \in Seq(Plain) => /\ stages \in Seq(Seq(Unpiped)) /\ cmds \in Seq(Command)
                            /\ phase = "parse" => stages # <<>>

LEMMA ReadIs ==
  ASSUME NEW line \in Seq(Char), NEW m, Read(line, m)
  PROVE  text' \in Seq(Char) /\ rest' \in Seq(Char)
<1> DEFINE n == Min({Len(line), BufferSize - 1})
<1>1. BufferSize - 1 \in Nat /\ Len(line) \in Nat
  BY SizesAssumption
<1>2. n \in 0..Len(line)
  BY <1>1, MinOfTwo
<1>3. text' = Take(line, n) /\ rest' = Drop(line, Len(text'))
  BY Zenon DEF Read
<1> HIDE DEF n
<1>4. text' \in Seq(Char) /\ Len(text') = n
  BY <1>2, <1>3, Cut
<1>5. rest' \in Seq(Char)
  BY <1>2, <1>3, <1>4, Cut
<1> QED BY <1>4, <1>5

LEMMA LineTypeStep ==
  ASSUME LineType, [Next]_vars
  PROVE  LineType'
<1>1. text \in Seq(Char) /\ rest \in Seq(Char)
  BY DEF LineType
<1>2. CASE ReadLine
  <2>1. PICK t \in Typed : Read(t.text, t.meant)
    BY <1>2 DEF ReadLine
  <2>2. t.text \in Seq(Char)
    BY TextsAssumption
  <2> QED BY <2>1, <2>2, ReadIs DEF LineType
<1>3. CASE ReadRest
  <2>1. Read(rest, Unsaid)
    BY <1>3 DEF ReadRest
  <2> QED BY <1>1, <2>1, ReadIs DEF LineType
<1>4. CASE ExpandVariables
  <2>1. Expanded(text).text \in Seq(Char)
    BY <1>1, ExpandedIs
  <2>2. (text' = text \/ text' = Expanded(text).text) /\ rest' = rest
    BY <1>4, Zenon DEF ExpandVariables
  <2> QED BY <1>1, <2>1, <2>2 DEF LineType
<1>5. CASE Normalize
  <2>1. ast' = NoTree \/ ast' \in Trees
    <3>1. ast' = NoTree \/ ast' = ParseInput(text)
      BY <1>5, Zenon DEF Normalize
    <3> QED BY <1>1, <3>1, TreeIs
  <2>2. text' = (IF ast' = NoTree THEN text ELSE PrintInput(ast')) /\ rest' = rest
    BY <1>5, Zenon DEF Normalize
  <2>3. ast' # NoTree => PrintInput(ast') \in Seq(Char)
    BY <2>1, PrintIs
  <2> QED BY <1>1, <2>2, <2>3 DEF LineType
<1>6. CASE phase = "asked" /\ \E s \in Suggestions : Suggest(s)
  <2>1. PICK s \in Suggestions : Suggest(s)
    BY <1>6
  <2> DEFINE n == Min({Len(s), BufferSize - 1})
  <2>2. text' = Take(s, n) /\ rest' = rest
    BY <2>1, Zenon DEF Suggest
  <2>3. s \in Seq(Char) /\ BufferSize - 1 \in Nat /\ Len(s) \in Nat
    BY TextsAssumption, SizesAssumption
  <2>4. n \in 0..Len(s)
    BY <2>3, MinOfTwo
  <2> HIDE DEF n
  <2>5. text' \in Seq(Char)
    BY <2>2, <2>3, <2>4, Cut
  <2> QED BY <1>1, <2>2, <2>5 DEF LineType
<1>7. CASE RunSimple \/ SplitStages \/ ParseStage \/ NoQuery \/ \E yes \in BOOLEAN : Confirm(yes)
  <2>1. text' = text /\ rest' = rest
    BY <1>7 DEF RunSimple, SplitStages, ParseStage, NoQuery, Confirm
  <2> QED BY <1>1, <2>1 DEF LineType
<1>8. CASE NextPrompt
  <2>1. text' = <<>> /\ rest' = rest
    BY <1>8 DEF NextPrompt
  <2> QED BY <1>1, <2>1 DEF LineType
<1>9. CASE vars' = vars
  BY <1>1, <1>9 DEF vars, LineType
<1> QED BY <1>2, <1>3, <1>4, <1>5, <1>6, <1>7, <1>8, <1>9 DEF Next

LEMMA ParseStageKeepsOperators ==
  ASSUME OperatorInv, ParseStage
  PROVE  OperatorInv'
<1> DEFINE st == Stage(Head(stages))
<1>1. phase = "parse" /\ text' = text /\ rest' = rest
  BY DEF ParseStage
<1>2. /\ cmds' = Append(cmds, [argv |-> st.argv, redirs |-> st.redirs]) /\ stages' = Tail(stages)
      /\ phase' \in {"refused", "run", "parse"} /\ (phase' = "parse" => Len(stages) # 1)
  BY Zenon DEF ParseStage
<1>3. LineType'
  BY <1>1 DEF OperatorInv, LineType
<1>4. ASSUME text \in Seq(Plain)
      PROVE  /\ stages' \in Seq(Seq(Unpiped)) /\ cmds' \in Seq(Command)
             /\ phase' = "parse" => stages' # <<>>
  <2> DEFINE S == Seq(Unpiped)
  <2>1. stages \in Seq(S) /\ stages # <<>> /\ cmds \in Seq(Command)
    BY <1>1, <1>4 DEF OperatorInv
  <2>2. Head(stages) \in S /\ Tail(stages) \in Seq(S) /\ Len(Tail(stages)) = Len(stages) - 1
        /\ Len(stages) \in Nat \ {0}
    <3> HIDE DEF S
    <3> QED BY <2>1, HeadTail
  <2>3. st \in Stagings
    BY <2>2, StageIs
  <2> HIDE DEF st
  <2>4. [argv |-> st.argv, redirs |-> st.redirs] \in Command
    BY <2>3 DEF Stagings, Command
  <2>5. cmds' \in Seq(Command)
    BY <1>2, <2>1, <2>4, AppendProperties
  <2>6. phase' = "parse" => stages' # <<>>
    <3> HIDE DEF S
    <3>1. Len(stages) # 1 => Len(Tail(stages)) # 0
      BY <2>2
    <3> QED BY <1>2, <2>2, <3>1, EmptySeq
  <2> QED BY <1>2, <2>2, <2>5, <2>6
<1>5. phase' \notin {"prompt", "asked", "read", "expanded", "normal", "confirm"}
  BY <1>2
<1> QED BY <1>1, <1>3, <1>4, <1>5 DEF OperatorInv

LEMMA OneCommand ==
  ASSUME NEW X, NEW s \in Seq(X), X \subseteq Operand
  PROVE  <<[argv |-> ParseCommand(s), redirs |-> <<>>]>> \in Seq(Command)
<1>1. ParseCommand(s) \in Seq(Seq(X))
  BY ParseCommandIs
<1>2. Seq(Seq(X)) \subseteq Seq(Seq(Operand))
  BY SeqMonotonic
<1> DEFINE c == [argv |-> ParseCommand(s), redirs |-> <<>>]
<1>3. c \in Command
  BY <1>1, <1>2 DEF Command
<1> HIDE DEF c
<1>4. <<c>> \in Seq(Command)
  BY <1>3
<1> QED BY <1>4 DEF c

LEMMA OperatorStep ==
  ASSUME OperatorInv, [Next]_vars
  PROVE  OperatorInv'
<1>1. LineType' /\ LineType
  BY LineTypeStep DEF OperatorInv
<1>2. ASSUME cmds' = <<>>, stages' = <<>>, phase' # "parse" PROVE OperatorInv'
  BY <1>1, <1>2 DEF OperatorInv
<1>3. CASE ReadLine \/ ReadRest
  <2>1. cmds' = <<>> /\ stages' = <<>> /\ phase' # "parse"
    <3>1. PICK l, m : Read(l, m)
      BY <1>3 DEF ReadLine, ReadRest
    <3> QED BY <3>1, Zenon DEF Read
  <2> QED BY <1>2, <2>1
<1>4. CASE ExpandVariables \/ Normalize \/ NoQuery \/ (phase = "asked" /\ \E s \in Suggestions : Suggest(s))
  <2>1. cmds = <<>> /\ stages = <<>>
    BY <1>4, Zenon DEF OperatorInv, ExpandVariables, Normalize, NoQuery
  <2>2. cmds' = cmds /\ stages' = stages
    BY <1>4, Zenon DEF ExpandVariables, Normalize, NoQuery, Suggest
  <2>3. phase' # "parse"
    BY <1>4, Zenon DEF ExpandVariables, Normalize, NoQuery, Suggest
  <2> QED BY <1>2, <2>1, <2>2, <2>3
<1>5. CASE NextPrompt
  <2>1. cmds' = <<>> /\ stages' = <<>> /\ phase' # "parse"
    BY <1>5, Zenon DEF NextPrompt
  <2> QED BY <1>2, <2>1
<1>6. CASE RunSimple
  <2>1. /\ phase = "normal" /\ ~HasOperator(text) /\ text' = text /\ stages' = stages
        /\ cmds' = <<[argv |-> ParseCommand(text), redirs |-> <<>>]>> /\ phase' \in {"empty", "run"}
    BY <1>6, Zenon DEF RunSimple
  <2>2. stages = <<>>
    BY <2>1 DEF OperatorInv
  <2>3. ASSUME text \in Seq(Plain) PROVE cmds' \in Seq(Command)
    <3> DEFINE X == Plain \ Operators
    <3>1. text \in Seq(X)
      BY <2>1, <2>3, WithoutThem DEF HasOperator
    <3>2. X \subseteq Operand
      BY Zenon DEF Operand, Operators
    <3> HIDE DEF X
    <3> QED BY <2>1, <3>1, <3>2, OneCommand
  <2> QED BY <1>1, <2>1, <2>2, <2>3 DEF OperatorInv
<1>7. CASE SplitStages
  <2>1. /\ phase = "normal" /\ text' = text /\ cmds' = cmds
        /\ stages' = IF phase' = "parse" THEN Pieces(StripAmp(text)) ELSE <<>>
        /\ phase' \in {"empty", "refused", "parse"}
    BY <1>7, Zenon DEF SplitStages
  <2>2. cmds = <<>>
    BY <2>1 DEF OperatorInv
  <2>3. ASSUME text \in Seq(Plain) PROVE stages' \in Seq(Seq(Unpiped)) /\ (phase' = "parse" => stages' # <<>>)
    <3>1. StripAmp(text) \in Seq(Plain)
      BY <2>3, StripAmpIs
    <3>2. Pieces(StripAmp(text)) \in Seq(Seq(Unpiped)) /\ Pieces(StripAmp(text)) # <<>>
      BY <3>1, PiecesAre
    <3>3. <<>> \in Seq(Seq(Unpiped))
      OBVIOUS
    <3> QED BY <2>1, <3>2, <3>3
  <2>4. cmds' \in Seq(Command)
    BY <2>1, <2>2
  <2> QED BY <1>1, <2>1, <2>3, <2>4 DEF OperatorInv
<1>8. CASE ParseStage
  BY <1>8, ParseStageKeepsOperators
<1>9. CASE \E yes \in BOOLEAN : Confirm(yes)
  <2>1. PICK yes \in BOOLEAN : Confirm(yes)
    BY <1>9
  <2>2. phase = "confirm" /\ text' = text /\ stages' = stages /\ phase' \in {"run", "refused", "empty"}
    BY <2>1, Zenon DEF Confirm
  <2>3. cmds = <<>> /\ stages = <<>>
    BY <2>2 DEF OperatorInv
  <2>4. ASSUME text \in Seq(Plain) PROVE cmds' \in Seq(Command)
    <3>1. CASE Acceptable(text)
      <4> DEFINE X == Plain \ Forbidden
      <4>1. ~HasForbiddenSyntax(text)
        BY <3>1 DEF Acceptable
      <4>2. Range(text) \cap Forbidden = {}
        BY <4>1 DEF HasForbiddenSyntax, Range
      <4>3. text \in Seq(X)
        BY <2>4, <4>2, WithoutThem
      <4>4. X \subseteq Operand
        BY Zenon DEF Operand, Forbidden
      <4> HIDE DEF X
      <4>5. <<[argv |-> ParseCommand(text), redirs |-> <<>>]>> \in Seq(Command)
        BY <4>3, <4>4, OneCommand
      <4>6. cmds' = cmds \/ cmds' = <<[argv |-> ParseCommand(text), redirs |-> <<>>]>>
        BY <2>1, Zenon DEF Confirm
      <4>7. cmds \in Seq(Command)
        BY <2>3
      <4> QED BY <4>5, <4>6, <4>7
    <3>2. CASE ~Acceptable(text)
      <4>1. cmds' = cmds
        BY <2>1, <3>2, Zenon DEF Confirm
      <4> QED BY <2>3, <4>1
    <3> QED BY <3>1, <3>2
  <2>5. stages' \in Seq(Seq(Unpiped))
    BY <2>2, <2>3
  <2> QED BY <1>1, <2>2, <2>4, <2>5 DEF OperatorInv
<1>10. CASE vars' = vars
  BY <1>10, <1>1 DEF vars, OperatorInv
<1> QED BY <1>3, <1>4, <1>5, <1>6, <1>7, <1>8, <1>9, <1>10 DEF Next

LEMMA OperatorInit ==
  ASSUME Init
  PROVE  OperatorInv
<1>1. text = <<>> /\ rest = <<>> /\ cmds = <<>> /\ stages = <<>> /\ phase = "prompt"
  BY DEF Init
<1> QED BY <1>1 DEF OperatorInv, LineType

LEMMA OperatorMeans ==
  ASSUME OperatorInv
  PROVE  NoStrayBarOrRedirection
<1> DEFINE D == {"|", "<", ">"}
           Q == Quotes \cup {"\\", "$"}
<1> SUFFICES ASSUME Range(text) \cap Q = {}, NEW i \in DOMAIN cmds
             PROVE  /\ \A k \in DOMAIN cmds[i].argv : Range(cmds[i].argv[k]) \cap D = {}
                    /\ \A k \in DOMAIN cmds[i].redirs : Range(cmds[i].redirs[k][2]) \cap D = {}
  BY Zenon DEF NoStrayBarOrRedirection
<1>1. text \in Seq(Char \ Q)
  <2>1. text \in Seq(Char)
    BY DEF OperatorInv, LineType
  <2> HIDE DEF Q
  <2> QED BY <2>1, WithoutThem
<1>2. text \in Seq(Plain)
  BY <1>1 DEF Plain
<1>3. cmds \in Seq(Command)
  BY <1>2 DEF OperatorInv
<1> DEFINE c == cmds[i]
<1>4. c \in Command
  BY <1>3
<1> HIDE DEF c
<1>5. c.argv \in Seq(Seq(Operand)) /\ c.redirs \in Seq(Redirection)
  BY <1>4 DEF Command
<1>6. ASSUME NEW u \in Seq(Operand) PROVE Range(u) \cap D = {}
  <2>1. u \in Seq(Plain \ D)
    BY DEF Operand
  <2>2. Seq(Plain \ D) \subseteq Seq(Plain)
    BY SeqMonotonic
  <2>3. u \in Seq(Plain)
    BY <2>1, <2>2
  <2> HIDE DEF D
  <2> QED BY <2>1, <2>3, WithoutThem
<1>7. ASSUME NEW k \in DOMAIN c.argv PROVE Range(c.argv[k]) \cap D = {}
  <2> DEFINE S == Seq(Operand)
             q == c.argv
  <2>1. q \in Seq(S) /\ k \in DOMAIN q
    BY <1>5
  <2> HIDE DEF S, q, D
  <2>2. q[k] \in S
    BY <2>1
  <2> QED BY <1>6, <2>2 DEF S, q
<1>8. ASSUME NEW k \in DOMAIN c.redirs PROVE Range(c.redirs[k][2]) \cap D = {}
  <2> DEFINE q == c.redirs
  <2>1. q \in Seq(Redirection) /\ k \in DOMAIN q
    BY <1>5
  <2> HIDE DEF q, D
  <2>2. q[k] \in Redirection
    BY <2>1
  <2>3. q[k][2] \in Seq(Operand)
    BY <2>2 DEF Redirection
  <2> QED BY <1>6, <2>3 DEF q
<1> QED BY <1>7, <1>8 DEF c

\* On a line without quotes and backslashes whose variables are all expanded, no
\* bar or redirection character ends up inside an argument or a file name
\* (split_pipeline_stages and parse_stage see the same ones).
THEOREM BarsAndRedirectionsAreNotArguments == Spec => []NoStrayBarOrRedirection
<1>1. Init => OperatorInv
  BY OperatorInit
<1>2. OperatorInv /\ [Next]_vars => OperatorInv'
  BY OperatorStep
<1>3. OperatorInv => NoStrayBarOrRedirection
  BY OperatorMeans
<1> QED BY <1>1, <1>2, <1>3, PTL DEF Spec

-----------------------------------------------------------------------------
(* strtok on a text that is put together from words.                       *)

\* Only what follows the blanks matters.
LEMMA SplitSame ==
  ASSUME NEW X, NEW s \in Seq(X), NEW t \in Seq(X), SkipBlanks(s) = SkipBlanks(t)
  PROVE  Split(s) = Split(t)
<1> DEFINE n == Len(s) + Len(t)
<1>1. n \in Nat /\ Len(s) <= n /\ Len(t) <= n
  OBVIOUS
<1> HIDE DEF n
<1>2. PICK f \in [0..n -> Splits(X)] : SplitAt(s, n, f)
  BY <1>1, SplitRun
<1>3. PICK g \in [0..n -> Splits(X)] : SplitAt(t, n, g)
  BY <1>1, SplitRun
<1> DEFINE Like(a, b) == a.words = b.words /\ SkipBlanks(a.rest) = SkipBlanks(b.rest)
           Good == {k \in 0..n : Like(f[k], g[k])}
<1>4. 0 \in Good
  <2>1. f[0] = [rest |-> s, words |-> <<>>] /\ g[0] = [rest |-> t, words |-> <<>>]
    BY <1>2, <1>3 DEF SplitAt
  <2>2. f[0].words = <<>> /\ g[0].words = <<>> /\ f[0].rest = s /\ g[0].rest = t
    BY <2>1
  <2>3. Like(f[0], g[0])
    BY <2>2
  <2> HIDE DEF Like
  <2> QED BY <1>1, <2>3
<1>5. ASSUME NEW k \in 1..n, k - 1 \in Good PROVE k \in Good
  <2> DEFINE a == f[k - 1]
             b == g[k - 1]
             p == SkipBlanks(a.rest)
             m == Span(p, {c \in Range(p) : c # Blank})
  <2>1. a \in Splits(X) /\ b \in Splits(X) /\ f[k] = SplitTurn(a) /\ g[k] = SplitTurn(b) /\ k \in 0..n
    BY <1>1, <1>2, <1>3 DEF SplitAt
  <2>2. Like(a, b)
    BY <1>5
  <2> HIDE DEF a, b
  <2>3. p = SkipBlanks(b.rest)
    BY <2>2
  <2>4. CASE p = <<>>
    <3>1. SplitTurn(a) = a /\ SplitTurn(b) = b
      BY <2>3, <2>4 DEF SplitTurn
    <3> QED BY <2>1, <2>2, <3>1
  <2>5. CASE p # <<>>
    <3>1. SplitTurn(a) = [rest |-> Drop(p, m), words |-> Append(a.words, Take(p, m))]
      BY <2>5 DEF SplitTurn
    <3>2. SplitTurn(b) = [rest |-> Drop(p, m), words |-> Append(b.words, Take(p, m))]
      BY <2>3, <2>5 DEF SplitTurn
    <3>3. SplitTurn(a) = SplitTurn(b)
      BY <2>2, <3>1, <3>2
    <3> QED BY <2>1, <3>3
  <2> QED BY <2>4, <2>5
<1> HIDE DEF Good
<1>6. \A k \in 0..n : k \in Good
  BY <1>1, <1>4, <1>5, Counting
<1>7. f[n].words = g[n].words
  <2>1. n \in Good
    BY <1>1, <1>6
  <2> QED BY <2>1 DEF Good
<1>8. f[n].words = Split(s) /\ g[n].words = Split(t)
  BY <1>1, <1>2, <1>3, SplitLong
<1> QED BY <1>7, <1>8

LEMMA SplitBlank ==
  ASSUME NEW X, Blank \in X, NEW r \in Seq(X)
  PROVE  Split(<<Blank>> \o r) = Split(r)
<1> DEFINE b == <<Blank>>
           s == b \o r
           C == {Blank}
           m == Span(r, C)
<1>1. b \in Seq(X) /\ Len(b) = 1 /\ b[1] = Blank
  OBVIOUS
<1> HIDE DEF b
<1>2. /\ s \in Seq(X) /\ Len(s) = Len(r) + 1 /\ Len(r) \in Nat /\ s[1] = Blank
      /\ \A i \in 1..Len(r) : s[i + 1] = r[i]
  <2>1. /\ b \o r \in Seq(X) /\ Len(b \o r) = Len(b) + Len(r)
        /\ \A i \in 1..(Len(b) + Len(r)) : (b \o r)[i] = IF i <= Len(b) THEN b[i] ELSE r[i - Len(b)]
    BY <1>1, ConcatProperties
  <2> HIDE DEF s
  <2>2. Len(r) \in Nat
    OBVIOUS
  <2>3. s \in Seq(X) /\ Len(s) = Len(r) + 1 /\ s[1] = Blank
    BY <1>1, <2>1, <2>2 DEF s
  <2>4. ASSUME NEW i \in 1..Len(r) PROVE s[i + 1] = r[i]
    <3>1. i + 1 \in 1..(Len(b) + Len(r)) /\ ~(i + 1 <= Len(b)) /\ (i + 1) - Len(b) = i
      BY <1>1, <2>2
    <3> QED BY <2>1, <3>1 DEF s
  <2> QED BY <2>2, <2>3, <2>4
<1> HIDE DEF s
<1>3. m \in 0..Len(r) /\ (\A i \in 1..m : r[i] \in C) /\ (m < Len(r) => r[m + 1] \notin C)
  BY SpanIs
<1> HIDE DEF m
<1>4. Span(s, C) = m + 1
  <2>1. \A i \in 1..(m + 1) : s[i] \in C
    <3> TAKE i \in 1..(m + 1)
    <3>1. CASE i = 1
      BY <1>2, <3>1
    <3>2. CASE i # 1
      <4>1. i - 1 \in 1..m /\ i - 1 \in 1..Len(r) /\ (i - 1) + 1 = i
        BY <1>2, <1>3, <3>2
      <4>2. s[(i - 1) + 1] = r[i - 1]
        BY <1>2, <4>1, Zenon
      <4> QED BY <1>3, <4>1, <4>2
    <3> QED BY <3>1, <3>2
  <2>2. ASSUME m + 1 < Len(s) PROVE s[(m + 1) + 1] \notin C
    <3>1. m < Len(r) /\ m + 1 \in 1..Len(r)
      BY <1>2, <1>3, <2>2
    <3>2. s[(m + 1) + 1] = r[m + 1]
      BY <1>2, <3>1, Zenon
    <3> QED BY <1>3, <3>1, <3>2
  <2>3. m + 1 \in 0..Len(s)
    BY <1>2, <1>3
  <2> HIDE DEF C
  <2> DEFINE k == m + 1
  <2>4. k \in 0..Len(s) /\ (\A i \in 1..k : s[i] \in C) /\ (k < Len(s) => s[k + 1] \notin C)
    BY <2>1, <2>2, <2>3
  <2> HIDE DEF k
  <2>5. Span(s, C) = k
    BY <1>2, <2>4, SpanIsThat
  <2> QED BY <2>5 DEF k
<1>5. Drop(s, m + 1) = Drop(r, m)
  <2> DEFINE u == Drop(s, m + 1)
             v == Drop(r, m)
             k == m + 1
  <2>0. k \in 0..Len(s)
    BY <1>2, <1>3
  <2>1. u \in Seq(X) /\ Len(u) = Len(s) - k /\ \A i \in 1..(Len(s) - k) : u[i] = s[k + i]
    <3> HIDE DEF k
    <3>1. Drop(s, k) \in Seq(X) /\ Len(Drop(s, k)) = Len(s) - k
          /\ \A i \in 1..(Len(s) - k) : Drop(s, k)[i] = s[k + i]
      BY <1>2, <2>0, Cut
    <3> QED BY <3>1 DEF k
  <2>2. v \in Seq(X) /\ Len(v) = Len(r) - m /\ \A i \in 1..(Len(r) - m) : v[i] = r[m + i]
    BY <1>3, Cut
  <2> HIDE DEF u, v
  <2>3. Len(u) = Len(v)
    BY <1>2, <1>3, <2>1, <2>2
  <2>4. ASSUME NEW i \in 1..Len(u) PROVE u[i] = v[i]
    <3>1. i \in 1..(Len(r) - m) /\ i \in 1..(Len(s) - k) /\ m + i \in 1..Len(r) /\ k + i = (m + i) + 1
      BY <1>2, <1>3, <2>1
    <3>2. s[(m + i) + 1] = r[m + i]
      BY <1>2, <3>1, Zenon
    <3> QED BY <2>1, <2>2, <3>1, <3>2
  <2>5. u = v
    BY <2>1, <2>2, <2>3, <2>4, SameSeq
  <2> QED BY <2>5 DEF u, v
<1>6. SkipBlanks(s) = SkipBlanks(r)
  BY <1>4, <1>5 DEF SkipBlanks, m
<1>7. Split(s) = Split(r)
  BY <1>2, <1>6, SplitSame
<1> QED BY <1>7 DEF s, b

LEMMA SplitWord ==
  ASSUME NEW X, Blank \in X, NEW w \in Seq(X), w # <<>>, \A i \in 1..Len(w) : w[i] # Blank,
         NEW r \in Seq(X), r # <<>> => Head(r) = Blank
  PROVE  Split(w \o r) = <<w>> \o Split(r)
<1> DEFINE s == w \o r
           n == Len(s)
           e == <<w>>
<1>1. /\ s \in Seq(X) /\ n \in Nat /\ n = Len(w) + Len(r) /\ Len(w) \in Nat \ {0} /\ Len(r) \in Nat
      /\ \A i \in 1..(Len(w) + Len(r)) : s[i] = IF i <= Len(w) THEN w[i] ELSE r[i - Len(w)]
  <2>1. /\ w \o r \in Seq(X) /\ Len(w \o r) = Len(w) + Len(r)
        /\ \A i \in 1..(Len(w) + Len(r)) : (w \o r)[i] = IF i <= Len(w) THEN w[i] ELSE r[i - Len(w)]
    BY ConcatProperties
  <2>2. Len(w) \in Nat \ {0} /\ Len(r) \in Nat
    BY EmptySeq
  <2> QED BY <2>1, <2>2
<1> HIDE DEF s
<1>2. s # <<>> /\ Head(s) # Blank
  <2>1. s # <<>>
    BY <1>1
  <2>2. Head(s) = s[1] /\ s[1] = w[1] /\ w[1] # Blank
    <3>1. Head(s) = s[1]
      BY <1>1, <2>1, HeadTail
    <3> QED BY <1>1, <3>1
  <2> QED BY <2>1, <2>2
<1>3. SkipBlanks(s) = s
  BY <1>1, <1>2, SkipNone
<1> DEFINE C == {c \in Range(s) : c # Blank}
<1>4. Span(s, C) = Len(w)
  <2>1. \A i \in 1..Len(w) : w[i] \in C
    <3> TAKE i \in 1..Len(w)
    <3>1. i \in 1..Len(s) /\ s[i] = w[i]
      BY <1>1
    <3>2. s[i] \in Range(s)
      <4>1. DOMAIN s = 1..Len(s)
        BY <1>1
      <4> HIDE DEF n, C
      <4> QED BY <3>1, <4>1, Zenon DEF Range
    <3> QED BY <3>1, <3>2
  <2>2. r # <<>> => Head(r) \notin C
    OBVIOUS
  <2> HIDE DEF C
  <2>3. Span(w \o r, C) = Len(w)
    BY <2>1, <2>2, SpanOver
  <2> QED BY <2>3 DEF s
<1>5. Take(s, Len(w)) = w /\ Drop(s, Len(w)) = r
  BY Joined DEF s
<1> DEFINE s0 == [rest |-> s, words |-> <<>>]
<1>6. SplitTurn(s0) = [rest |-> r, words |-> e]
  <2>1. SplitTurn(s0) = [rest |-> Drop(s, Len(w)), words |-> Append(<<>>, Take(s, Len(w)))]
    <3>1. s0.rest = s /\ s0.words = <<>>
      OBVIOUS
    <3> HIDE DEF s0
    <3> QED BY <1>2, <1>3, <1>4, <3>1 DEF SplitTurn
  <2>2. Append(<<>>, w) = e
    OBVIOUS
  <2> QED BY <1>5, <2>1, <2>2
<1>7. PICK f \in [0..(n + 1) -> Splits(X)] : SplitAt(s, n + 1, f)
  <2>1. n + 1 \in Nat
    BY <1>1
  <2> HIDE DEF n
  <2> QED BY <1>1, <2>1, SplitRun
<1>8. PICK g \in [0..n -> Splits(X)] : SplitAt(r, n, g)
  <2> HIDE DEF n
  <2> QED BY <1>1, SplitRun
<1> DEFINE Like(a, b) == a.rest = b.rest /\ a.words = e \o b.words
           Good == {k \in 0..n : Like(f[k + 1], g[k])}
<1>9. 0 \in Good
  <2>1. f[0] = s0 /\ g[0] = [rest |-> r, words |-> <<>>]
    BY <1>7, <1>8 DEF SplitAt
  <2>2. f[1] = SplitTurn(f[1 - 1]) /\ 1 - 1 = 0
    <3>1. 1 \in 1..(n + 1)
      BY <1>1
    <3> HIDE DEF n
    <3> QED BY <1>7, <3>1 DEF SplitAt
  <2>3. f[1] = [rest |-> r, words |-> e]
    <3> HIDE DEF s0, e
    <3> QED BY <1>6, <2>1, <2>2
  <2>4. e \o <<>> = e
    <3>1. e \in Seq(Seq(X))
      OBVIOUS
    <3> QED BY <3>1, ConcatEmptySeq
  <2>5. Like(f[1], g[0])
    <3> HIDE DEF e
    <3>1. f[1].rest = r /\ f[1].words = e /\ g[0].rest = r /\ g[0].words = <<>>
      BY <2>1, <2>3
    <3> QED BY <2>4, <3>1
  <2>6. 0 + 1 = 1 /\ 0 \in 0..n
    BY <1>1
  <2> HIDE DEF Like
  <2> QED BY <2>5, <2>6
<1>10. ASSUME NEW k \in 1..n, k - 1 \in Good PROVE k \in Good
  <2> DEFINE a == f[k]
             b == g[k - 1]
             p == SkipBlanks(b.rest)
             m == Span(p, {c \in Range(p) : c # Blank})
  <2>1. k \in 0..n /\ k + 1 \in 1..(n + 1) /\ (k + 1) - 1 = k /\ (k - 1) + 1 = k /\ k \in 0..(n + 1) /\ k - 1 \in 0..n
    BY <1>1
  <2>2. Like(a, b)
    <3>1. Like(f[(k - 1) + 1], g[k - 1])
      BY <1>10
    <3> QED BY <2>1, <3>1
  <2>3. f[k + 1] = SplitTurn(a) /\ g[k] = SplitTurn(b) /\ a \in Splits(X) /\ b \in Splits(X)
    <3>1. f[k + 1] = SplitTurn(f[(k + 1) - 1])
      <4> HIDE DEF n
      <4> QED BY <1>7, <2>1 DEF SplitAt
    <3>2. g[k] = SplitTurn(g[k - 1])
      BY <1>8 DEF SplitAt
    <3> HIDE DEF n
    <3> QED BY <2>1, <3>1, <3>2
  <2> HIDE DEF a, b, e
  <2>4. CASE p = <<>>
    <3>1. SplitTurn(a) = a /\ SplitTurn(b) = b
      BY <2>2, <2>4 DEF SplitTurn
    <3> QED BY <2>1, <2>2, <2>3, <3>1
  <2>5. CASE p # <<>>
    <3> DEFINE u == Take(p, m)
               S == Seq(X)
    <3>1. a.rest = b.rest /\ a.words = e \o b.words
      BY <2>2
    <3>2. SplitTurn(a) = [rest |-> Drop(p, m), words |-> Append(a.words, u)]
      BY <2>5, <3>1 DEF SplitTurn
    <3>3. SplitTurn(b) = [rest |-> Drop(p, m), words |-> Append(b.words, u)]
      BY <2>5 DEF SplitTurn
    <3>4. b.words \in Seq(S) /\ u \in S /\ e \in Seq(S)
      <4>1. p \in Seq(X) /\ m \in 0..Len(p)
        BY <2>3, SplitTurnIs
      <4>2. u \in Seq(X)
        <5> HIDE DEF p, m
        <5> QED BY <4>1, Cut
      <4>3. e \in Seq(S)
        BY DEF e
      <4> QED BY <2>3, <4>2, <4>3 DEF Splits
    <3>5. Append(e \o b.words, u) = e \o Append(b.words, u)
      <4> DEFINE q == b.words
      <4>1. q \in Seq(S) /\ u \in S /\ e \in Seq(S)
        BY <3>4
      <4> HIDE DEF q, S, u
      <4>2. <<u>> \in Seq(S) /\ e \o q \in Seq(S)
        BY <4>1, ConcatProperties
      <4>3. Append(e \o q, u) = (e \o q) \o <<u>> /\ Append(q, u) = q \o <<u>>
        BY <4>1, <4>2, AppendIsConcat
      <4>4. (e \o q) \o <<u>> = e \o (q \o <<u>>)
        BY <4>1, <4>2, ConcatAssociative
      <4>5. Append(e \o q, u) = e \o Append(q, u)
        BY <4>3, <4>4, Zenon
      <4> QED BY <4>5 DEF q
    <3> HIDE DEF p, m, u
    <3>6. Like(SplitTurn(a), SplitTurn(b))
      <4>1. SplitTurn(a).rest = Drop(p, m) /\ SplitTurn(a).words = Append(a.words, u)
        BY <3>2
      <4>2. SplitTurn(b).rest = Drop(p, m) /\ SplitTurn(b).words = Append(b.words, u)
        BY <3>3
      <4> QED BY <3>1, <3>5, <4>1, <4>2, Zenon
    <3> HIDE DEF Like
    <3> QED BY <2>1, <2>3, <3>6
  <2> QED BY <2>4, <2>5
<1> HIDE DEF Good, e
<1>11. \A k \in 0..n : k \in Good
  BY <1>1, <1>9, <1>10, Counting
<1>12. f[n + 1].words = e \o g[n].words
  <2>1. n \in Good
    BY <1>1, <1>11
  <2> QED BY <2>1 DEF Good
<1>13. f[n + 1].words = Split(s)
  <2> DEFINE n1 == n + 1
  <2>1. n1 \in Nat /\ Len(s) <= n1
    BY <1>1
  <2>2. f \in [0..n1 -> Splits(X)] /\ SplitAt(s, n1, f)
    BY <1>7
  <2> HIDE DEF n1, n
  <2>3. f[n1].words = Split(s)
    BY <1>1, <2>1, <2>2, SplitLong
  <2> QED BY <2>3 DEF n1
<1>14. g[n].words = Split(r)
  <2>1. Len(r) <= n
    BY <1>1
  <2> HIDE DEF n
  <2> QED BY <1>1, <1>8, <2>1, SplitLong
<1> QED BY <1>12, <1>13, <1>14 DEF s, e

-----------------------------------------------------------------------------
(* What the printer prints.                                                *)

LEMMA DropCons ==
  ASSUME NEW X, NEW s \in Seq(X), NEW i \in 1..Len(s)
  PROVE  /\ Drop(s, i - 1) = <<s[i]>> \o Drop(s, i) /\ s[i] \in X /\ Drop(s, i) \in Seq(X)
         /\ Drop(s, Len(s)) = <<>> /\ Drop(s, 0) = s
<1>1. i \in 1..Len(s) /\ Len(s) \in i..Len(s) /\ (i - 1) + 1 = i /\ i \in 0..Len(s) /\ Len(s) \in Nat
  OBVIOUS
<1>2. SubSeq(s, i, Len(s)) = <<s[i]>> \o SubSeq(s, i + 1, Len(s))
  BY <1>1, SubSeqRecursiveFirst
<1>3. Drop(s, i) \in Seq(X)
  BY <1>1, Cut
<1>4. Drop(s, Len(s)) = <<>> /\ Drop(s, 0) = s
  <2>1. SubSeq(s, Len(s) + 1, Len(s)) = <<>>
    BY <1>1, SubSeqEmpty
  <2>2. SubSeq(s, 0 + 1, Len(s)) = s
    BY SubSeqFull
  <2> QED BY <2>1, <2>2 DEF Drop
<1>5. Drop(s, i - 1) = <<s[i]>> \o Drop(s, i)
  <2>1. Drop(s, i - 1) = SubSeq(s, (i - 1) + 1, Len(s))
    BY DEF Drop
  <2> QED BY <1>1, <1>2, <2>1, Zenon DEF Drop
<1> QED BY <1>3, <1>4, <1>5, ElementOfSeq

\* What is added to each of the words.
Blanked(words) == [i \in DOMAIN words |-> Append(words[i], Blank)]

LEMMA SpacedCons ==
  ASSUME NEW X, Blank \in X, NEW w \in Seq(X), NEW q \in Seq(Seq(X))
  PROVE  /\ Spaced(<<w>> \o q) = (w \o <<Blank>>) \o Spaced(q)
         /\ w \o <<Blank>> \in Seq(X) /\ Spaced(q) \in Seq(X)
         /\ Spaced(<<w>>) = w \o <<Blank>>
<1> DEFINE S == Seq(X)
           b == <<w>>
           a == b \o q
           n == Len(q)
           v == w \o <<Blank>>
<1>1. b \in Seq(S) /\ Len(b) = 1 /\ b[1] = w /\ q \in Seq(S) /\ n \in Nat
  OBVIOUS
<1>2. v \in S /\ v = Append(w, Blank)
  BY LastOf
<1> HIDE DEF S, b, v
<1>3. /\ a \in Seq(S) /\ Len(a) = n + 1 /\ a[1] = w /\ \A i \in 1..n : a[i + 1] = q[i]
  <2>1. /\ b \o q \in Seq(S) /\ Len(b \o q) = Len(b) + Len(q)
        /\ \A i \in 1..(Len(b) + Len(q)) : (b \o q)[i] = IF i <= Len(b) THEN b[i] ELSE q[i - Len(b)]
    BY <1>1, ConcatProperties
  <2> HIDE DEF a
  <2>2. a \in Seq(S) /\ Len(a) = n + 1 /\ a[1] = w
    BY <1>1, <2>1 DEF a
  <2>3. ASSUME NEW i \in 1..n PROVE a[i + 1] = q[i]
    <3>1. i + 1 \in 1..(Len(b) + Len(q)) /\ ~(i + 1 <= Len(b)) /\ (i + 1) - Len(b) = i
      BY <1>1
    <3> QED BY <2>1, <3>1 DEF a
  <2> QED BY <2>2, <2>3
<1> HIDE DEF a
<1>4. ASSUME NEW z \in Seq(S)
      PROVE  /\ Blanked(z) \in Seq(S) /\ Len(Blanked(z)) = Len(z) /\ Spaced(z) = FlattenSeq(Blanked(z))
             /\ \A i \in 1..Len(z) : Blanked(z)[i] = Append(z[i], Blank)
  <2> DEFINE e(i) == Append(z[i], Blank)
  <2>1. DOMAIN z = 1..Len(z) /\ Len(z) \in Nat /\ \A i \in 1..Len(z) : z[i] \in S
    OBVIOUS
  <2>2. \A i \in 1..Len(z) : e(i) \in S
    <3> TAKE i \in 1..Len(z)
    <3> DEFINE u == z[i]
    <3>1. u \in Seq(X)
      BY <2>1 DEF S
    <3> HIDE DEF u
    <3>2. Append(u, Blank) \in Seq(X)
      BY <3>1, AppendProperties
    <3> QED BY <3>2 DEF S, u
  <2>3. Blanked(z) = [i \in 1..Len(z) |-> e(i)]
    BY <2>1 DEF Blanked
  <2>4. \A i \in 1..Len(z) : e(i) = Append(z[i], Blank)
    OBVIOUS
  <2> HIDE DEF e
  <2>5. Blanked(z) \in Seq(S) /\ Len(Blanked(z)) = Len(z) /\ \A i \in 1..Len(z) : Blanked(z)[i] = e(i)
    BY <2>1, <2>2, <2>3
  <2>6. Spaced(z) = FlattenSeq(Blanked(z))
    BY Zenon DEF Spaced, Blanked
  <2> QED BY <2>4, <2>5, <2>6
<1> DEFINE ba == Blanked(a)
           bq == Blanked(q)
<1>5. ba \in Seq(S) /\ Len(ba) = n + 1 /\ bq \in Seq(S) /\ Len(bq) = n
  BY <1>1, <1>3, <1>4
<1>6. ba = <<v>> \o bq
  <2> DEFINE d == <<v>>
             c == d \o bq
  <2>1. d \in Seq(S) /\ Len(d) = 1 /\ d[1] = v
    BY <1>2
  <2> HIDE DEF d
  <2>2. /\ d \o bq \in Seq(S) /\ Len(d \o bq) = Len(d) + Len(bq)
        /\ \A i \in 1..(Len(d) + Len(bq)) : (d \o bq)[i] = IF i <= Len(d) THEN d[i] ELSE bq[i - Len(d)]
    BY <1>5, <2>1, ConcatProperties
  <2>3. c \in Seq(S) /\ Len(c) = n + 1 /\ c[1] = v
    BY <1>1, <1>5, <2>1, <2>2
  <2>4. \A i \in 1..n : c[i + 1] = bq[i]
    <3> TAKE i \in 1..n
    <3>1. i + 1 \in 1..(Len(d) + Len(bq)) /\ ~(i + 1 <= Len(d)) /\ (i + 1) - Len(d) = i
      BY <1>1, <1>5, <2>1
    <3> HIDE DEF bq
    <3> QED BY <2>2, <3>1
  <2>5. ba[1] = v
    <3>1. 1 \in 1..Len(a)
      BY <1>1, <1>3
    <3>2. ba[1] = Append(a[1], Blank)
      BY <1>3, <1>4, <3>1
    <3> QED BY <1>2, <1>3, <3>2
  <2>6. \A i \in 1..n : ba[i + 1] = bq[i]
    <3> TAKE i \in 1..n
    <3>1. i + 1 \in 1..Len(a) /\ i \in 1..Len(q)
      BY <1>1, <1>3
    <3>2. \A j \in 1..Len(a) : ba[j] = Append(a[j], Blank)
      BY <1>3, <1>4
    <3>3. \A j \in 1..Len(q) : bq[j] = Append(q[j], Blank)
      BY <1>1, <1>4
    <3>4. a[i + 1] = q[i]
      BY <1>3
    <3> HIDE DEF ba, bq
    <3> QED BY <3>1, <3>2, <3>3, <3>4, Zenon
  <2> HIDE DEF ba, bq, c
  <2>7. ASSUME NEW i \in 1..Len(ba) PROVE ba[i] = c[i]
    <3>1. CASE i = 1
      BY <2>3, <2>5, <3>1
    <3>2. CASE i # 1
      <4> DEFINE j == i - 1
      <4>1. j \in 1..n /\ i = j + 1
        BY <1>1, <1>5, <3>2
      <4> HIDE DEF j
      <4>2. ba[j + 1] = bq[j] /\ c[j + 1] = bq[j]
        BY <2>4, <2>6, <4>1
      <4> QED BY <4>1, <4>2
    <3> QED BY <3>1, <3>2
  <2>8. ba = c
    BY <1>5, <2>3, <2>7, SameSeq
  <2> QED BY <2>8 DEF c, d
<1>7. Spaced(a) = FlattenSeq(ba) /\ Spaced(q) = FlattenSeq(bq)
  BY <1>1, <1>3, <1>4
<1> HIDE DEF ba, bq
<1>8. FlattenSeq(<<v>> \o bq) = v \o FlattenSeq(bq) /\ FlattenSeq(bq) \in Seq(X)
  <2>1. bq \in Seq(Seq(X)) /\ v \in Seq(X)
    BY <1>2, <1>5 DEF S
  <2> QED BY <2>1, FlattenCons, Flattened
<1>9. Spaced(a) = v \o Spaced(q)
  BY <1>6, <1>7, <1>8, Zenon
<1>10. Spaced(b) = v
  <2> DEFINE bb == Blanked(b)
             z == <<>>
  <2>1. bb \in Seq(S) /\ Len(bb) = 1 /\ Spaced(b) = FlattenSeq(bb) /\ bb[1] = v
    <3>1. /\ Blanked(b) \in Seq(S) /\ Len(Blanked(b)) = Len(b) /\ Spaced(b) = FlattenSeq(Blanked(b))
          /\ \A i \in 1..Len(b) : Blanked(b)[i] = Append(b[i], Blank)
      BY <1>1, <1>4
    <3>2. 1 \in 1..Len(b)
      BY <1>1
    <3> HIDE DEF bb
    <3>3. bb[1] = Append(b[1], Blank)
      BY <3>1, <3>2, Zenon DEF bb
    <3> QED BY <1>1, <1>2, <3>1, <3>3, Zenon DEF bb
  <2> HIDE DEF bb
  <2>2. bb = <<v>> \o z
    <3>1. <<v>> \in Seq(S) /\ z \in Seq(S)
      BY <1>2
    <3>2. <<v>> \o z = <<v>>
      BY <3>1, ConcatEmptySeq
    <3>3. bb = <<v>>
      BY <2>1
    <3> QED BY <3>2, <3>3
  <2>3. z \in Seq(Seq(X)) /\ v \in Seq(X) /\ z = <<>>
    BY <1>2 DEF S
  <2> HIDE DEF z
  <2>4. FlattenSeq(<<v>> \o z) = v \o FlattenSeq(z) /\ FlattenSeq(z) = <<>>
    BY <2>3, FlattenCons, Flattened
  <2>5. v \o <<>> = v
    BY <2>3, ConcatEmptySeq
  <2> QED BY <2>1, <2>2, <2>4, <2>5, Zenon
<1> QED BY <1>2, <1>7, <1>8, <1>9, <1>10 DEF a, b, v, S

LEMMA WordLetters ==
  /\ Blank \notin WordChars /\ Operators \cap WordChars = {} /\ WordChars \subseteq Operand
  /\ Quotes \cap WordChars = {} /\ "$" \notin WordChars /\ "\\" \notin WordChars
<1>1. Blank \notin WordChars
  BY Zenon DEF Blank, WordChars, NameChars
<1>2. Operators \cap WordChars = {}
  BY Zenon DEF Operators, WordChars, NameChars
<1>3. "|" \in Operators /\ "<" \in Operators /\ ">" \in Operators
  BY Zenon DEF Operators
<1>4. WordChars \subseteq Operand
  BY <1>2, <1>3, PlainChars DEF Operand
<1>5. Quotes \cap WordChars = {} /\ "$" \notin WordChars /\ "\\" \notin WordChars
  BY PlainChars
<1> QED BY <1>1, <1>2, <1>4, <1>5

LEMMA WordsAre ==
  ASSUME NEW w \in Words
  PROVE  /\ w \in Seq(WordChars) /\ w \in Seq(Char) /\ w # <<>> /\ Len(w) \in Nat \ {0}
         /\ \A i \in 1..Len(w) : w[i] \in WordChars /\ w[i] # Blank
<1>1. w \in Seq(WordChars) /\ w \in Seq(Char) /\ w # <<>>
  BY WordsAreTexts DEF Words
<1>2. Len(w) \in Nat \ {0}
  BY <1>1, EmptySeq
<1>3. \A i \in 1..Len(w) : w[i] \in WordChars
  BY <1>1, ElementOfSeq
<1> QED BY <1>1, <1>2, <1>3, WordLetters

\* Words that are printed are read back by strtok.
LEMMA SplitSpaced ==
  ASSUME NEW q \in Seq(Words)
  PROVE  Split(Spaced(q)) = q
<1> DEFINE n == Len(q)
           Back(j) == Split(Spaced(Drop(q, n - j))) = Drop(q, n - j)
           Good == {j \in 0..n : Back(j)}
<1>1. n \in Nat
  OBVIOUS
<1>2. 0 \in Good
  <2>1. Drop(q, n) = <<>> /\ n - 0 = n
    BY <1>1, SubSeqEmpty DEF Drop
  <2> DEFINE z == Drop(q, n)
  <2>2. z = <<>> /\ z \in Seq(Seq(Char))
    BY <2>1
  <2> HIDE DEF z
  <2>3. Spaced(z) = <<>>
    BY <2>2, CharIs, SpacedIs
  <2>4. <<>> \in Seq(Char)
    OBVIOUS
  <2>5. Split(<<>>) = <<>>
    <3> DEFINE y == <<>>
    <3>1. y \in Seq(Char) /\ y = <<>>
      OBVIOUS
    <3> HIDE DEF y
    <3>2. SkipBlanks(y) = <<>>
      BY <3>1, SkipNone
    <3>3. Split(y) = <<>>
      BY <3>1, <3>2, SplitIs
    <3> QED BY <3>1, <3>3
  <2>6. Back(0)
    <3> HIDE DEF n
    <3> QED BY <2>1, <2>2, <2>3, <2>5 DEF z
  <2> HIDE DEF Back
  <2> QED BY <1>1, <2>6
<1>3. ASSUME NEW j \in 1..n, j - 1 \in Good PROVE j \in Good
  <2> DEFINE i == (n - j) + 1
             w == q[i]
             r == Drop(q, i)
             x == Spaced(r)
  <2>1. i \in 1..Len(q) /\ i - 1 = n - j /\ n - (j - 1) = i /\ j \in 0..n
    BY <1>1
  <2>2. Split(x) = r
    <3>1. Split(Spaced(Drop(q, n - (j - 1)))) = Drop(q, n - (j - 1))
      BY <1>3
    <3> HIDE DEF n, i
    <3> QED BY <2>1, <3>1
  <2> HIDE DEF i
  <2>3. Drop(q, i - 1) = <<w>> \o r /\ w \in Words /\ r \in Seq(Words)
    <3>1. Drop(q, i - 1) = <<q[i]>> \o Drop(q, i) /\ q[i] \in Words /\ Drop(q, i) \in Seq(Words)
      <4> HIDE DEF n
      <4> QED BY <2>1, DropCons
    <3> QED BY <3>1
  <2> HIDE DEF w, r
  <2>4. w \in Seq(Char) /\ w # <<>> /\ \A k \in 1..Len(w) : w[k] # Blank
    BY <2>3, WordsAre
  <2>5. r \in Seq(Seq(Char))
    <3>1. Seq(Words) \subseteq Seq(Seq(Char))
      BY WordsAreTexts, SeqMonotonic
    <3> QED BY <2>3, <3>1
  <2>6. Spaced(<<w>> \o r) = (w \o <<Blank>>) \o x /\ x \in Seq(Char)
    BY <2>4, <2>5, CharIs, SpacedCons
  <2> HIDE DEF x
  <2> DEFINE b == <<Blank>>
             y == b \o x
  <2>7. b \in Seq(Char)
    BY CharIs
  <2>8. (w \o b) \o x = w \o y
    <3> HIDE DEF b
    <3> QED BY <2>4, <2>6, <2>7, ConcatAssociative
  <2>9. y \in Seq(Char) /\ Head(y) = Blank
    BY <2>6, CharIs, FirstOf
  <2>10. Split(y) = Split(x)
    BY <2>6, CharIs, SplitBlank
  <2> HIDE DEF y
  <2>11. Split(w \o y) = <<w>> \o Split(y)
    BY <2>4, <2>9, CharIs, SplitWord
  <2>12. Split(Spaced(<<w>> \o r)) = <<w>> \o r
    BY <2>2, <2>6, <2>8, <2>10, <2>11, Zenon
  <2>13. Back(j)
    <3> HIDE DEF n
    <3> QED BY <2>1, <2>3, <2>12, Zenon
  <2> HIDE DEF Back
  <2> QED BY <2>1, <2>13
<1> HIDE DEF Good
<1>4. \A j \in 0..n : j \in Good
  BY <1>1, <1>2, <1>3, Counting
<1>5. Back(n)
  <2>1. n \in Good
    BY <1>1, <1>4
  <2> QED BY <2>1 DEF Good
<1>6. n - n = 0 /\ Drop(q, 0) = q
  BY <1>1, SubSeqFull DEF Drop
<1> QED BY <1>5, <1>6, Zenon

-----------------------------------------------------------------------------
(* A text without a variable reference is expanded to itself.              *)

LEMMA CutOn ==
  ASSUME NEW X, NEW s \in Seq(X), NEW k \in 1..Len(s)
  PROVE  /\ Drop(s, k - 1) # <<>> /\ Head(Drop(s, k - 1)) = s[k] /\ Tail(Drop(s, k - 1)) = Drop(s, k)
         /\ Append(Take(s, k - 1), s[k]) = Take(s, k)
<1>1. s[k] \in X /\ Drop(s, k - 1) = <<s[k]>> \o Drop(s, k) /\ Drop(s, k) \in Seq(X)
  BY DropCons
<1> DEFINE c == s[k]
           t == Drop(s, k)
<1>2. c \in X /\ t \in Seq(X) /\ Drop(s, k - 1) = <<c>> \o t
  BY <1>1
<1> HIDE DEF c, t
<1>3. <<c>> \o t # <<>> /\ Head(<<c>> \o t) = c /\ Tail(<<c>> \o t) = t
  BY <1>2, FirstOf
<1>4. Append(Take(s, k - 1), s[k]) = Take(s, k)
  <2> DEFINE u == Take(s, k - 1)
             v == Take(s, k)
             j == k - 1
  <2>1. j \in 0..Len(s) /\ k \in 0..Len(s) /\ j + 1 = k /\ j \in Nat
    OBVIOUS
  <2> HIDE DEF j
  <2>2. Take(s, j) \in Seq(X) /\ Len(Take(s, j)) = j /\ \A i \in 1..j : Take(s, j)[i] = s[i]
    BY <2>1, Cut
  <2>3. v \in Seq(X) /\ Len(v) = k /\ \A i \in 1..k : v[i] = s[i]
    BY <2>1, Cut
  <2>4. u \in Seq(X) /\ Len(u) = j /\ \A i \in 1..j : u[i] = s[i]
    BY <2>2 DEF j
  <2> HIDE DEF u, v
  <2>5. /\ Append(u, c) \in Seq(X) /\ Len(Append(u, c)) = j + 1 /\ Append(u, c)[j + 1] = c
        /\ \A i \in 1..j : Append(u, c)[i] = u[i]
    BY <1>2, <2>4, LastOf
  <2> DEFINE w == Append(u, c)
  <2> HIDE DEF w
  <2>6. w \in Seq(X) /\ Len(w) = k /\ w[k] = s[k] /\ \A i \in 1..j : w[i] = s[i]
    BY <2>1, <2>4, <2>5 DEF w, c
  <2>7. \A i \in 1..Len(w) : w[i] = v[i]
    BY <2>1, <2>3, <2>6
  <2>8. w = v
    BY <2>3, <2>6, <2>7, SameSeq
  <2> QED BY <2>8 DEF w, u, v, c
<1> QED BY <1>2, <1>3, <1>4, Zenon DEF c, t

LEMMA ExpandedSame ==
  ASSUME NEW s \in Seq(Char), \A i \in 1..Len(s) : s[i] # "$"
  PROVE  Expanded(s).ok = TRUE /\ Expanded(s).text = s
<1>1. Len(s) \in Nat
  OBVIOUS
<1>2. PICK at \in [0..Len(s) -> Expansions] :
        /\ at[0] = [ok |-> TRUE, quote |-> Nothing, text |-> <<>>, rest |-> s]
        /\ \A k \in 1..Len(s) : at[k] = ExpandTurn(at[k - 1])
        /\ Expanded(s) = at[Len(s)]
  BY ExpandedRuns
<1> DEFINE Same(e, k) == e.ok = TRUE /\ e.text = Take(s, k) /\ e.rest = Drop(s, k)
           Good == {k \in 0..Len(s) : Same(at[k], k)}
<1>3. 0 \in Good
  <2>1. at[0].ok = TRUE /\ at[0].text = <<>> /\ at[0].rest = s
    BY <1>2
  <2>2. Take(s, 0) = <<>> /\ Drop(s, 0) = s
    BY SubSeqFull, SubSeqEmpty DEF Take, Drop
  <2> QED BY <1>1, <2>1, <2>2
<1>4. ASSUME NEW k \in 1..Len(s), k - 1 \in Good PROVE k \in Good
  <2> DEFINE e == at[k - 1]
             c == Head(e.rest)
  <2>1. e \in Expansions /\ at[k] = ExpandTurn(e) /\ k \in 0..Len(s) /\ k - 1 \in 0..Len(s)
    BY <1>1, <1>2
  <2>2. Same(e, k - 1)
    BY <1>4
  <2> HIDE DEF e
  <2>3. e.rest # <<>> /\ c = s[k] /\ Tail(e.rest) = Drop(s, k) /\ Append(e.text, c) = Take(s, k)
    BY <2>2, CutOn
  <2>4. c # "$"
    BY <2>3
  <2>5. ExpandTurn(e) = [e EXCEPT !.quote = Toggle(c, e.quote), !.rest = Tail(e.rest), !.text = Append(e.text, c)]
    BY <2>3, <2>4 DEF ExpandTurn
  <2> HIDE DEF c
  <2>6. e \in [ok : BOOLEAN, quote : Quotes \cup {Nothing}, text : Seq(Char), rest : Seq(Char)]
    BY <2>1 DEF Expansions
  <2>7. /\ ExpandTurn(e).ok = e.ok /\ ExpandTurn(e).rest = Tail(e.rest)
        /\ ExpandTurn(e).text = Append(e.text, c)
    BY <2>5, <2>6
  <2> QED BY <2>1, <2>2, <2>3, <2>7
<1> HIDE DEF Good
<1>5. \A k \in 0..Len(s) : k \in Good
  BY <1>1, <1>3, <1>4, Counting
<1>6. Same(at[Len(s)], Len(s))
  <2>1. Len(s) \in Good
    BY <1>1, <1>5
  <2> QED BY <2>1 DEF Good
<1>7. Take(s, Len(s)) = s
  BY SubSeqFull DEF Take
<1> QED BY <1>2, <1>6, <1>7
-----------------------------------------------------------------------------
(* The lexer on a text without operators and comments: its words are those *)
(* of strtok, or there is an error token.                                  *)

Unoperated == Char \ Operators

LEMMA PrefixMeans ==
  ASSUME NEW X, NEW a \in Seq(X), NEW p \in Seq(X), IsPrefix(a, p)
  PROVE  Len(a) <= Len(p) /\ \A k \in 1..Len(a) : a[k] = p[k]
BY PrefixIs

LEMMA NoSymbol ==
  ASSUME NEW s \in Seq(Unoperated), NEW i \in 1..7
  PROVE  ~IsPrefix(Symbols[i], s)
<1>1. \E j \in 1..Len(Symbols[i]) : Symbols[i][j] \in Operators
  <2>1. "&" \in Operators /\ "<" \in Operators /\ ">" \in Operators /\ "|" \in Operators
    BY Zenon DEF Operators
  <2>2. CASE i \in {1, 2, 3, 4, 7}
    <3>1. Symbols[i][1] \in Operators /\ 1 \in 1..Len(Symbols[i])
      BY <2>1, <2>2 DEF Symbols
    <3> QED BY <3>1
  <2>3. CASE i \in {5, 6}
    <3>1. Symbols[i][2] \in Operators /\ 2 \in 1..Len(Symbols[i])
      BY <2>1, <2>3 DEF Symbols
    <3> QED BY <3>1
  <2> QED BY <2>2, <2>3
<1>2. Symbols[i] \in Seq(Char)
  <2> DEFINE S == Seq(Char)
  <2>1. Symbols \in Seq(S) /\ i \in 1..Len(Symbols)
    BY SymbolsAre
  <2> HIDE DEF S
  <2>2. Symbols[i] \in S
    BY <2>1, ElementOfSeq
  <2> QED BY <2>2 DEF S
<1>3. s \in Seq(Char)
  <2>1. Unoperated \subseteq Char
    BY DEF Unoperated
  <2> QED BY <2>1, SeqMonotonic
<1>4. ASSUME IsPrefix(Symbols[i], s) PROVE FALSE
  <2> DEFINE a == Symbols[i]
  <2>0. a \in Seq(Char) /\ IsPrefix(a, s)
    BY <1>2, <1>4
  <2> HIDE DEF a
  <2>1. Len(a) <= Len(s) /\ \A k \in 1..Len(a) : a[k] = s[k]
    BY <1>3, <2>0, PrefixIs
  <2>2. PICK j \in 1..Len(a) : a[j] \in Operators
    BY <1>1 DEF a
  <2>3. j \in 1..Len(s) /\ s[j] \in Operators
    BY <1>3, <2>0, <2>1, <2>2
  <2>4. s[j] \in Unoperated
    BY <2>3, ElementOfSeq
  <2> QED BY <2>3, <2>4 DEF Unoperated
<1> QED BY <1>4

\* What a word of strtok is when the lexer sees a comment where it starts.
LEMMA CommentWord ==
  ASSUME NEW s \in Seq(Unoperated), s # <<>>, BestRule(s) \in {8, 9},
         NEW n \in 0..Len(s), n < Len(s) => s[n + 1] = Blank
  PROVE  Kinds[BestRule(Take(s, n))] \in {"comment", "open"}
<1> DEFINE w == Take(s, n)
           m == Matches(s)
           v == Matches(w)
           b == BestRule(w)
           l == Len(w)
           L == Len(s)
<1>1. s \in Seq(Char) /\ L \in Nat \ {0}
  <2>1. Unoperated \subseteq Char
    BY DEF Unoperated
  <2>2. s \in Seq(Char)
    BY <2>1, SeqMonotonic
  <2> QED BY <2>2, EmptySeq
<1>2. w \in Seq(Unoperated) /\ w \in Seq(Char) /\ l = n /\ \A i \in 1..n : w[i] = s[i]
  BY <1>1, Cut
<1>3. /\ (\A i \in 1..12 : m[BestRule(s)] >= m[i]) /\ m[BestRule(s)] \in 1..L
      /\ m[8] = IF IsPrefix(<<"/", "/">>, s) THEN L ELSE 0
      /\ m[9] = IF IsPrefix(<<"/", "*">>, s) THEN 2 ELSE 0
      /\ m[10] = Span(s, WordChars)
  <2>1. /\ m[8] = IF IsPrefix(<<"/", "/">>, s) THEN L ELSE 0
        /\ m[9] = IF IsPrefix(<<"/", "*">>, s) THEN 2 ELSE 0
        /\ m[10] = Span(s, WordChars)
        /\ \A i \in 1..12 : m[i] \in 0..L
    BY <1>1, MatchesAre, Zenon
  <2>2. BestRule(s) \in 1..12 /\ m[BestRule(s)] \in 1..L /\ \A q \in 1..12 : m[q] <= m[BestRule(s)]
    BY <1>1, BestIs, Zenon
  <2> HIDE DEF m
  <2>3. \A q \in 1..12 : m[BestRule(s)] >= m[q]
    BY <1>1, <2>1, <2>2
  <2> QED BY <2>1, <2>2, <2>3
<1> HIDE DEF m
<1> DEFINE c1 == <<"/", "/">>
           c2 == <<"/", "*">>
<1>4. "/" # Blank /\ "*" # Blank /\ "/" \in Char /\ "*" \in Char
  <2>1. "/" \in WordChars /\ "*" \in WordChars
    BY Zenon DEF WordChars
  <2> QED BY <2>1, WordLetters, Letters
<1>5. ASSUME NEW a \in {c1, c2}
      PROVE  a \in Seq(Char) /\ Len(a) = 2 /\ a[1] # Blank /\ a[2] # Blank
  <2>1. CASE a = c1
    BY <1>4, <2>1
  <2>2. CASE a = c2
    BY <1>4, <2>2
  <2> QED BY <2>1, <2>2
<1>6. ASSUME NEW a \in {c1, c2}, IsPrefix(a, s)
      PROVE  n >= 2 /\ IsPrefix(a, w)
  <2> DEFINE K == {c1, c2}
  <2>1. a \in Seq(Char) /\ Len(a) = 2 /\ a[1] # Blank /\ a[2] # Blank
    BY <1>5
  <2> HIDE DEF c1, c2
  <2>2. Len(a) <= L /\ \A k \in 1..Len(a) : a[k] = s[k]
    BY <1>1, <1>6, <2>1, PrefixMeans, Zenon
  <2>3. n # 0 /\ n # 1
    <3>1. s[1] # Blank /\ s[2] # Blank /\ L >= 2
      BY <1>1, <2>1, <2>2
    <3> QED BY <1>1, <3>1
  <2>4. n >= 2
    BY <1>1, <2>3
  <2>5. Len(a) <= l /\ \A k \in 1..Len(a) : a[k] = w[k]
    BY <1>2, <2>1, <2>2, <2>4
  <2> HIDE DEF w
  <2>6. IsPrefix(a, w)
    BY <1>2, <2>1, <2>5, PrefixIs
  <2> QED BY <2>4, <2>6
<1>7. IsPrefix(c1, w) => IsPrefix(c1, s)
  <2> HIDE DEF w
  <2>1. c1 \in Seq(Char) /\ Len(c1) = 2
    BY <1>5
  <2> HIDE DEF c1
  <2> SUFFICES ASSUME IsPrefix(c1, w) PROVE IsPrefix(c1, s)
    OBVIOUS
  <2>2. Len(c1) <= l /\ \A k \in 1..Len(c1) : c1[k] = w[k]
    <3>1. w \in Seq(Char) /\ c1 \in Seq(Char) /\ IsPrefix(c1, w)
      BY <1>2, <2>1
    <3> QED BY <3>1, PrefixMeans, Zenon
  <2>3. Len(c1) <= L /\ \A k \in 1..Len(c1) : c1[k] = s[k]
    BY <1>1, <1>2, <2>1, <2>2
  <2> QED BY <1>1, <2>1, <2>3, PrefixIs
<1>8. (BestRule(s) = 8 => IsPrefix(c1, s)) /\ (BestRule(s) = 9 => IsPrefix(c2, s))
  BY <1>3
<1>9. w # <<>>
  <2>1. n >= 2
    BY <1>6, <1>8
  <2> HIDE DEF w
  <2> QED BY <1>2, <2>1, EmptySeq
<1>10. /\ \A i \in 1..7 : v[i] = 0
       /\ v[8] = IF IsPrefix(c1, w) THEN l ELSE 0
       /\ v[9] = IF IsPrefix(c2, w) THEN 2 ELSE 0
       /\ v[10] = Span(w, WordChars) /\ v[11] \in 0..l /\ v[12] = 1
       /\ v[11] = Span(Take(w, 1), {Blank}) /\ \A i \in 1..12 : v[i] \in 0..l
  <2>1. \A i \in 1..7 : ~IsPrefix(Symbols[i], w)
    BY <1>2, NoSymbol
  <2> HIDE DEF w
  <2>2. /\ \A i \in 1..12 : v[i] \in 0..l
        /\ \A i \in 1..7 : v[i] = IF IsPrefix(Symbols[i], w) THEN Len(Symbols[i]) ELSE 0
        /\ v[8] = IF IsPrefix(c1, w) THEN l ELSE 0
        /\ v[9] = IF IsPrefix(c2, w) THEN 2 ELSE 0
        /\ v[10] = Span(w, WordChars) /\ v[11] = Span(Take(w, 1), {Blank}) /\ v[12] = 1
    BY <1>2, <1>9, MatchesAre, Zenon
  <2> HIDE DEF v, c1, c2
  <2> QED BY <2>1, <2>2
<1>11. b \in 1..12 /\ v[b] \in 1..l /\ \A q \in 1..12 : v[q] <= v[b] /\ (v[q] = v[b] => b <= q)
  <2> HIDE DEF w
  <2> QED BY <1>2, <1>9, BestIs, Zenon
<1> HIDE DEF v, b
<1>12. CASE BestRule(s) = 8
  <2>1. IsPrefix(c1, w) /\ n >= 2
    BY <1>6, <1>8, <1>12
  <2> HIDE DEF c1, c2, w
  <2>2. v[8] = l
    BY <1>10, <2>1
  <2>3. v[b] = l
    BY <1>2, <1>10, <1>11, <2>2
  <2>4. b <= 8
    BY <1>11, <2>2, <2>3
  <2>5. b \notin 1..7
    <3>1. ASSUME b \in 1..7 PROVE FALSE
      <4>1. v[b] = 0
        BY <1>10, <3>1, Zenon
      <4> QED BY <1>2, <1>11, <4>1
    <3> QED BY <3>1
  <2>6. b = 8
    BY <1>11, <2>4, <2>5
  <2>7. Kinds[b] = "comment"
    BY <2>6, KindsAre
  <2> QED BY <2>7 DEF b, w
<1>13. CASE BestRule(s) = 9
  <2>1. IsPrefix(c2, w) /\ n >= 2 /\ IsPrefix(c2, s)
    BY <1>6, <1>8, <1>13
  <2>2. ~IsPrefix(c1, w)
    <3>1. ASSUME IsPrefix(c1, s) PROVE FALSE
      <4>1. s[2] = "/" /\ s[2] = "*"
        <5>1. c1 \in Seq(Char) /\ c2 \in Seq(Char) /\ Len(c1) = 2 /\ Len(c2) = 2 /\ c1[2] = "/" /\ c2[2] = "*"
          BY <1>5
        <5> HIDE DEF c1, c2
        <5>2. \A k \in 1..2 : c1[k] = s[k] /\ c2[k] = s[k]
          BY <1>1, <2>1, <3>1, <5>1, PrefixIs
        <5>3. 2 \in 1..2
          OBVIOUS
        <5> QED BY <5>1, <5>2, <5>3
      <4> QED BY <4>1
    <3> QED BY <1>7, <3>1
  <2> HIDE DEF c1, c2
  <2>3. v[9] = 2 /\ v[8] = 0 /\ m[10] <= 2
    <3>1. v[9] = 2 /\ v[8] = 0
      <4> HIDE DEF w
      <4> QED BY <1>10, <2>1, <2>2
    <3>2. m[9] = 2
      BY <1>3, <2>1 DEF c2
    <3> QED BY <1>3, <1>13, <3>1, <3>2
  <2>4. v[10] <= 2
    <3> DEFINE sp == Span(w, WordChars)
               sq == Span(s, WordChars)
    <3>1. sp \in 0..l /\ \A i \in 1..sp : w[i] \in WordChars
      BY <1>2, SpanIs
    <3>2. sq \in 0..L /\ sq <= 2 /\ (sq < L => s[sq + 1] \notin WordChars)
      BY <1>1, <1>3, <2>3, SpanIs
    <3> HIDE DEF sp, sq
    <3>3. ASSUME sp > 2 PROVE FALSE
      <4>1. sq + 1 \in 1..sp /\ sq + 1 \in 1..n /\ sq < L
        BY <1>1, <1>2, <3>1, <3>2, <3>3
      <4>2. w[sq + 1] \in WordChars /\ w[sq + 1] = s[sq + 1]
        BY <1>2, <3>1, <4>1
      <4> QED BY <3>2, <4>1, <4>2
    <3>4. sp <= 2
      BY <1>2, <3>1, <3>3
    <3> QED BY <1>10, <3>4 DEF sp
  <2>5. v[11] <= 1
    <3> HIDE DEF w
    <3>1. 1 \in 0..l
      BY <1>2, <1>9, EmptySeq
    <3>2. Take(w, 1) \in Seq(Char) /\ Len(Take(w, 1)) = 1
      BY <1>2, <3>1, Cut
    <3>3. Span(Take(w, 1), {Blank}) \in 0..1
      BY <3>2, SpanIs
    <3> QED BY <1>10, <3>3
  <2>6. v[b] >= 2
    <3> HIDE DEF w
    <3> QED BY <1>2, <1>10, <1>11, <2>3
  <2>7. b \in {9, 10}
    <3>1. b \notin 1..7 /\ b # 8 /\ b # 11 /\ b # 12
      <4> HIDE DEF w
      <4>1. ASSUME b \in 1..7 PROVE FALSE
        <5>1. v[b] = 0
          BY <1>10, <4>1, Zenon
        <5> QED BY <2>6, <5>1
      <4>2. v[11] \in Nat /\ v[12] = 1
        BY <1>2, <1>10
      <4>3. b # 8 /\ b # 11 /\ b # 12
        BY <2>3, <2>5, <2>6, <4>2
      <4> QED BY <4>1, <4>3
    <3> QED BY <1>11, <3>1
  <2>8. b = 9
    <3>1. CASE b = 10
      <4>1. v[b] = v[9]
        <5> HIDE DEF w
        <5> QED BY <2>3, <2>4, <2>6, <3>1, <1>10, <1>2
      <4> QED BY <1>11, <3>1, <4>1
    <3> QED BY <2>7, <3>1
  <2>9. Kinds[b] = "open"
    BY <2>8, KindsAre
  <2> QED BY <2>9 DEF b, w
<1> QED BY <1>12, <1>13
LEMMA FirstWord ==
  ASSUME NEW X, Blank \in X, NEW r \in Seq(X), r # <<>>, Head(r) # Blank
  PROVE  \E k \in 1..Len(r) : /\ k < Len(r) => r[k + 1] = Blank
                              /\ Take(r, k) \in Seq(X)
                              /\ Split(r) = <<Take(r, k)>> \o Split(Drop(r, k))
<1> DEFINE C == {c \in Range(r) : c # Blank}
           k == Span(r, C)
           w == Take(r, k)
           t == Drop(r, k)
<1>1. Len(r) \in Nat \ {0} /\ Head(r) = r[1] /\ DOMAIN r = 1..Len(r)
  BY HeadTail
<1>2. k \in 0..Len(r) /\ (\A i \in 1..k : r[i] \in C) /\ (k < Len(r) => r[k + 1] \notin C)
  BY SpanIs
<1> HIDE DEF k
<1>3. \A i \in 1..Len(r) : r[i] \in C <=> r[i] # Blank
  BY <1>1 DEF Range
<1>4. k \in 1..Len(r)
  <2>1. CASE k = 0
    <3>1. r[1] \notin C /\ r[1] \in C
      BY <1>1, <1>2, <1>3, <2>1
    <3> QED BY <3>1
  <2> QED BY <1>1, <1>2, <2>1
<1>5. ASSUME k < Len(r) PROVE r[k + 1] = Blank
  <2>1. k + 1 \in 1..Len(r)
    BY <1>1, <1>4, <1>5
  <2> QED BY <1>2, <1>3, <1>5, <2>1
<1>6. /\ w \in Seq(X) /\ Len(w) = k /\ \A i \in 1..k : w[i] = r[i]
      /\ t \in Seq(X) /\ Len(t) = Len(r) - k /\ \A i \in 1..(Len(r) - k) : t[i] = r[k + i]
  BY <1>2, Cut
<1>7. w \o t = r
  BY <1>2, Rejoined
<1> HIDE DEF w, t, C
<1>8. w # <<>> /\ \A i \in 1..Len(w) : w[i] # Blank
  <2>1. \A i \in 1..k : i \in 1..Len(r) /\ w[i] = r[i] /\ r[i] \in C
    BY <1>1, <1>2, <1>4, <1>6
  <2>2. w # <<>>
    BY <1>4, <1>6
  <2> QED BY <1>3, <1>6, <2>1, <2>2
<1>9. t # <<>> => Head(t) = Blank
  <2> SUFFICES ASSUME t # <<>> PROVE Head(t) = Blank
    OBVIOUS
  <2>1. Len(t) \in Nat \ {0} /\ Head(t) = t[1]
    BY <1>6, HeadTail
  <2>2. k < Len(r) /\ t[1] = r[k + 1]
    <3>0. Len(t) = Len(r) - k
      BY <1>6
    <3>1. k < Len(r) /\ 1 \in 1..(Len(r) - k)
      <4> DEFINE n == Len(r)
                 l == Len(t)
      <4>1. n \in Nat /\ l \in Nat \ {0} /\ l = n - k /\ k \in 1..n
        BY <1>1, <1>4, <2>1, <3>0, Zenon
      <4> HIDE DEF n, l
      <4>2. k < n /\ 1 \in 1..(n - k)
        BY <4>1
      <4> QED BY <4>2 DEF n
    <3>2. \A i \in 1..(Len(r) - k) : t[i] = r[k + i]
      BY <1>6
    <3> QED BY <3>1, <3>2, Zenon
  <2> QED BY <1>5, <2>1, <2>2
<1>10. Split(w \o t) = <<w>> \o Split(t)
  BY <1>6, <1>8, <1>9, SplitWord
<1> QED BY <1>4, <1>5, <1>6, <1>7, <1>10 DEF w, t

LEMMA TextsAppend ==
  ASSUME NEW toks \in Seq(Token), NEW tok \in Token
  PROVE  /\ Texts(toks) \in Seq(Seq(Char)) /\ Len(Texts(toks)) = Len(toks)
         /\ Texts(Append(toks, tok)) = Texts(toks) \o <<tok.text>>
<1> DEFINE S == Seq(Char)
           t == Texts(toks)
           a == Append(toks, tok)
           u == Texts(a)
           n == Len(toks)
           v == tok.text
           p == t \o <<v>>
<1>1. n \in Nat /\ v \in S /\ \A i \in 1..n : toks[i] \in Token /\ toks[i].text \in S
  <2>1. \A i \in 1..n : toks[i] \in Token
    BY ElementOfSeq
  <2> QED BY <2>1 DEF Token
<1>2. a \in Seq(Token) /\ Len(a) = n + 1 /\ a[n + 1] = tok /\ \A i \in 1..n : a[i] = toks[i]
  BY AppendProperties
<1> HIDE DEF a, S
<1>3. t \in Seq(S) /\ Len(t) = n /\ \A i \in 1..n : t[i] = toks[i].text
  <2> DEFINE e(i) == toks[i].text
  <2>1. t = [i \in 1..n |-> e(i)]
    BY DEF Texts
  <2>2. \A i \in 1..n : e(i) \in S
    BY <1>1
  <2> HIDE DEF e
  <2>3. t \in Seq(S) /\ Len(t) = n /\ \A i \in 1..n : t[i] = e(i)
    BY <1>1, <2>1, <2>2
  <2> QED BY <2>3 DEF e
<1>4. u \in Seq(S) /\ Len(u) = n + 1 /\ \A i \in 1..(n + 1) : u[i] = a[i].text
  <2> DEFINE e(i) == a[i].text
  <2>1. u = [i \in 1..(n + 1) |-> e(i)]
    <3>1. DOMAIN a = 1..(n + 1)
      BY <1>1, <1>2
    <3> QED BY <3>1 DEF Texts
  <2>2. \A i \in 1..(n + 1) : e(i) \in S
    <3> TAKE i \in 1..(n + 1)
    <3>1. CASE i = n + 1
      BY <1>1, <1>2, <3>1
    <3>2. CASE i # n + 1
      <4>1. i \in 1..n
        BY <1>1, <3>2
      <4> QED BY <1>1, <1>2, <4>1
    <3> QED BY <3>1, <3>2
  <2> HIDE DEF e, u
  <2>3. u \in Seq(S) /\ Len(u) = n + 1 /\ \A i \in 1..(n + 1) : u[i] = e(i)
    BY <1>1, <2>1, <2>2
  <2> QED BY <2>3 DEF e
<1> HIDE DEF t, u, v
<1>5. p \in Seq(S) /\ Len(p) = n + 1 /\ p[n + 1] = v /\ \A i \in 1..n : p[i] = t[i]
  BY <1>1, <1>3, LastOf
<1> HIDE DEF p
<1>6. ASSUME NEW i \in 1..(n + 1) PROVE u[i] = p[i]
  <2>1. CASE i = n + 1
    BY <1>2, <1>4, <1>5, <2>1 DEF v
  <2>2. CASE i # n + 1
    <3>1. i \in 1..n
      BY <1>1, <2>2
    <3> QED BY <1>2, <1>3, <1>4, <1>5, <3>1
  <2> QED BY <2>1, <2>2
<1>7. u = p
  BY <1>4, <1>5, <1>6, SameSeq
<1> QED BY <1>3, <1>7 DEF S, a, t, u, v, p

Seen(s, x) ==
  /\ x.rest \in Seq(Unoperated) /\ \A i \in 1..Len(x.toks) : x.toks[i].kind # "symbol"
  /\ \/ \E i \in 1..Len(x.toks) : x.toks[i].kind = "error"
     \/ x.rest # <<>> /\ Head(x.rest) \notin WordChars /\ Head(x.rest) # Blank
     \/ /\ \A i \in 1..Len(x.toks) : IsWord(x.toks[i])
        /\ Split(s) = Texts(x.toks) \o Split(x.rest)

\* What the first character is under each of the rules that are left.
LEMMA RuleHead ==
  ASSUME NEW r \in Seq(Unoperated), r # <<>>
  PROVE  /\ BestRule(r) \in {8, 9, 10, 11, 12} /\ r \in Seq(Char)
         /\ BestRule(r) \in {8, 9, 10} => Head(r) \in WordChars
         /\ BestRule(r) = 10 => Matches(r)[10] = Span(r, WordChars)
         /\ BestRule(r) = 11 => Head(r) = Blank /\ Matches(r)[11] = 1
<1> DEFINE b == BestRule(r)
           m == Matches(r)
           t == Take(r, 1)
<1>1. r \in Seq(Char)
  <2>1. Unoperated \subseteq Char
    BY DEF Unoperated
  <2> QED BY <2>1, SeqMonotonic
<1>2. Len(r) \in Nat \ {0} /\ Head(r) = r[1]
  BY <1>1, HeadTail
<1>3. b \in 1..12 /\ m[b] \in 1..Len(r)
  BY <1>1, BestIs, Zenon
<1>4. /\ \A i \in 1..7 : m[i] = IF IsPrefix(Symbols[i], r) THEN Len(Symbols[i]) ELSE 0
      /\ m[8] = IF IsPrefix(<<"/", "/">>, r) THEN Len(r) ELSE 0
      /\ m[9] = IF IsPrefix(<<"/", "*">>, r) THEN 2 ELSE 0
      /\ m[10] = Span(r, WordChars) /\ m[11] = Span(t, {Blank})
  BY <1>1, MatchesAre, Zenon
<1> HIDE DEF b, m
<1>5. b \notin 1..7
  <2>1. ASSUME b \in 1..7 PROVE FALSE
    <3>1. ~IsPrefix(Symbols[b], r)
      BY <2>1, NoSymbol
    <3>2. m[b] = 0
      BY <1>4, <2>1, <3>1
    <3> QED BY <1>2, <1>3, <3>2
  <2> QED BY <2>1
<1>6. b \in {8, 9, 10, 11, 12}
  BY <1>3, <1>5
<1>7. ASSUME b \in {8, 9} PROVE Head(r) \in WordChars
  <2> DEFINE a == IF b = 8 THEN <<"/", "/">> ELSE <<"/", "*">>
  <2>1. IsPrefix(a, r)
    BY <1>2, <1>3, <1>4, <1>7
  <2>2. "/" \in WordChars /\ "*" \in WordChars
    BY Zenon DEF WordChars
  <2>3. a \in Seq(Char) /\ Len(a) = 2 /\ a[1] = "/"
    <3>1. "/" \in Char /\ "*" \in Char
      BY <2>2, Letters
    <3> QED BY <3>1
  <2> HIDE DEF a
  <2>4. Len(a) <= Len(r) /\ \A k \in 1..Len(a) : a[k] = r[k]
    BY <1>1, <2>1, <2>3, PrefixMeans, Zenon
  <2>5. 1 \in 1..Len(a)
    BY <2>3
  <2> QED BY <1>2, <2>2, <2>3, <2>4, <2>5
<1>8. ASSUME b = 10 PROVE Head(r) \in WordChars
  <2>1. Span(r, WordChars) \in 1..Len(r)
    BY <1>3, <1>4, <1>8
  <2>2. \A i \in 1..Span(r, WordChars) : r[i] \in WordChars
    BY <1>1, SpanIs
  <2> QED BY <1>2, <2>1, <2>2
<1>9. ASSUME b = 11 PROVE Head(r) = Blank /\ m[11] = 1
  <2>1. 1 \in 0..Len(r)
    BY <1>2
  <2>2. t \in Seq(Char) /\ Len(t) = 1 /\ \A i \in 1..1 : t[i] = r[i]
    BY <1>1, <2>1, Cut
  <2> HIDE DEF t
  <2>3. Span(t, {Blank}) \in 0..1 /\ \A i \in 1..Span(t, {Blank}) : t[i] \in {Blank}
    BY <2>2, SpanIs
  <2>4. Span(t, {Blank}) = 1
    BY <1>2, <1>3, <1>4, <1>9, <2>3
  <2> DEFINE z == Span(t, {Blank})
  <2>7. z = 1 /\ \A i \in 1..z : t[i] = Blank
    BY <2>3, <2>4
  <2> HIDE DEF z
  <2>5. t[1] = r[1] /\ t[1] = Blank
    BY <2>2, <2>7
  <2>6. m[11] = 1
    BY <1>4, <2>4 DEF t
  <2> QED BY <1>2, <2>5, <2>6
<1> QED BY <1>1, <1>4, <1>6, <1>7, <1>8, <1>9 DEF b, m
\* A token that is added: the error token settles it, a word goes on.
LEMMA SeenMore ==
  ASSUME NEW s \in Seq(Char), NEW x \in Lexes, Seen(s, x), NEW tok \in Token, tok.kind # "symbol",
         NEW after \in Seq(Unoperated),
         \/ \E i \in 1..Len(x.toks) : x.toks[i].kind = "error"
         \/ tok.kind = "error"
         \/ after # <<>> /\ Head(after) \notin WordChars /\ Head(after) # Blank
         \/ /\ \A i \in 1..Len(x.toks) : IsWord(x.toks[i])
            /\ IsWord(tok) /\ Split(s) = (Texts(x.toks) \o <<tok.text>>) \o Split(after)
  PROVE  Seen(s, [rest |-> after, toks |-> Append(x.toks, tok)])
<1> DEFINE toks == x.toks
           n == Len(toks)
           a == Append(toks, tok)
           y == [rest |-> after, toks |-> a]
<1>1. toks \in Seq(Token) /\ n \in Nat
  BY DEF Lexes
<1> HIDE DEF toks
<1>2. Len(a) = n + 1 /\ a[n + 1] = tok /\ \A i \in 1..n : a[i] = toks[i]
  BY <1>1, AppendProperties
<1>3. y.rest = after /\ y.toks = a
  OBVIOUS
<1>4. Texts(a) = Texts(toks) \o <<tok.text>>
  BY <1>1, TextsAppend
<1> HIDE DEF y, a
<1>5. \A i \in 1..n : toks[i].kind # "symbol"
  BY DEF Seen, toks
<1>6. \A i \in 1..(n + 1) : a[i].kind # "symbol"
  <2> TAKE i \in 1..(n + 1)
  <2>1. CASE i = n + 1
    BY <1>2, <2>1
  <2>2. CASE i # n + 1
    <3>1. i \in 1..n
      BY <1>1, <2>2
    <3> QED BY <1>2, <1>5, <3>1
  <2> QED BY <2>1, <2>2
<1> SUFFICES Seen(s, y)
  BY DEF y, a, toks
<1>11. Len(y.toks) = n + 1 /\ y.rest \in Seq(Unoperated) /\ \A i \in 1..(n + 1) : y.toks[i].kind # "symbol"
  BY <1>2, <1>3, <1>6
<1>7. CASE \E i \in 1..n : toks[i].kind = "error"
  <2>1. PICK i \in 1..n : toks[i].kind = "error"
    BY <1>7
  <2>2. i \in 1..(n + 1) /\ a[i].kind = "error"
    BY <1>1, <1>2, <2>1
  <2> QED BY <1>3, <1>11, <2>2, Zenon DEF Seen
<1>8. CASE tok.kind = "error"
  <2>1. n + 1 \in 1..(n + 1) /\ a[n + 1].kind = "error"
    BY <1>1, <1>2, <1>8
  <2> QED BY <1>3, <2>1, <1>11, Zenon DEF Seen
<1>9. CASE after # <<>> /\ Head(after) \notin WordChars /\ Head(after) # Blank
  BY <1>3, <1>9, <1>11, Zenon DEF Seen
<1>10. CASE /\ \A i \in 1..n : IsWord(toks[i])
            /\ IsWord(tok) /\ Split(s) = (Texts(toks) \o <<tok.text>>) \o Split(after)
  <2>1. \A i \in 1..(n + 1) : IsWord(a[i])
    <3> TAKE i \in 1..(n + 1)
    <3>1. CASE i = n + 1
      BY <1>2, <1>10, <3>1
    <3>2. CASE i # n + 1
      <4>1. i \in 1..n
        BY <1>1, <3>2
      <4> QED BY <1>2, <1>10, <4>1
    <3> QED BY <3>1, <3>2
  <2>2. Split(s) = Texts(a) \o Split(after)
    BY <1>4, <1>10
  <2> QED BY <1>3, <2>1, <2>2, <1>11, Zenon DEF Seen
<1> QED BY <1>7, <1>8, <1>9, <1>10 DEF toks

\* The rest is what changes: no token is added.
LEMMA SeenSame ==
  ASSUME NEW s, NEW x \in Lexes, Seen(s, x), NEW after \in Seq(Unoperated),
         \/ \E i \in 1..Len(x.toks) : x.toks[i].kind = "error"
         \/ /\ \A i \in 1..Len(x.toks) : IsWord(x.toks[i])
            /\ Split(s) = Texts(x.toks) \o Split(after)
  PROVE  Seen(s, [x EXCEPT !.rest = after])
<1> DEFINE y == [x EXCEPT !.rest = after]
<1>1. y.rest = after /\ y.toks = x.toks
  BY DEF Lexes
<1> HIDE DEF y
<1>2. \A i \in 1..Len(x.toks) : x.toks[i].kind # "symbol"
  BY DEF Seen
<1>3. Seen(s, y)
  BY <1>1, <1>2, Zenon DEF Seen
<1> QED BY <1>3 DEF y

LEMMA SeenStep ==
  ASSUME NEW s \in Seq(Char), ~HasComment(s), NEW x \in Lexes, Seen(s, x)
  PROVE  Seen(s, LexTurn(x))
<1> DEFINE r == x.rest
           b == BestRule(r)
           n == Matches(r)[b]
           after == Drop(r, n)
           tok == [kind |-> Kinds[b], text |-> Take(r, n)]
           S == Seq(Char)
           T == Texts(x.toks)
           Error == \E i \in 1..Len(x.toks) : x.toks[i].kind = "error"
           Odd == r # <<>> /\ Head(r) \notin WordChars /\ Head(r) # Blank
           Fine == (\A i \in 1..Len(x.toks) : IsWord(x.toks[i])) /\ Split(s) = T \o Split(r)
<1>1. r \in Seq(Unoperated) /\ x.toks \in Seq(Token) /\ (Error \/ Odd \/ Fine)
  BY DEF Seen, Lexes
<1>2. CASE r = <<>>
  <2>1. LexTurn(x) = x
    BY <1>2, LexTurnStays, Zenon
  <2> QED BY <2>1
<1>3. CASE r # <<>>
  <2>1. /\ b \in 1..12 /\ n \in 1..Len(r)
        /\ after \in Seq(Char) /\ Len(after) = Len(r) - n
        /\ b = 9 => LexTurn(x) = [x EXCEPT !.rest = AfterComment(after)]
        /\ b \in {8, 11} => LexTurn(x) = [x EXCEPT !.rest = after]
        /\ b \notin {8, 9, 11} =>
             tok \in Token /\ LexTurn(x) = [rest |-> after, toks |-> Append(x.toks, tok)]
    BY <1>3, LexTurnIs, Zenon
  <2>2. /\ b \in {8, 9, 10, 11, 12} /\ r \in Seq(Char)
        /\ b \in {8, 9, 10} => Head(r) \in WordChars
        /\ b = 10 => Matches(r)[10] = Span(r, WordChars)
        /\ b = 11 => Head(r) = Blank /\ Matches(r)[11] = 1
    BY <1>1, <1>3, RuleHead
  <2>3. /\ (b = 8 => Kinds[b] = "comment") /\ (b = 9 => Kinds[b] = "open")
        /\ (b = 10 => Kinds[b] = "word") /\ (b = 12 => Kinds[b] = "error")
    BY KindsAre
  <2>4. tok.kind = Kinds[b] /\ tok.text = Take(r, n)
    OBVIOUS
  <2>5. T \in Seq(S)
    <3> DEFINE t0 == [kind |-> "error", text |-> <<>>]
    <3>1. t0 \in Token
      BY DEF Token
    <3> HIDE DEF t0
    <3> QED BY <1>1, <3>1, TextsAppend
  <2>6. b = 10 => n = Span(r, WordChars)
    BY <2>2
  <2>7. b = 11 => n = 1
    BY <2>2
  <2> HIDE DEF r, b, n
  <2>8. Len(r) \in Nat \ {0} /\ n \in 0..Len(r)
    <3>1. Len(r) \in Nat \ {0}
      BY <1>3, <2>2, EmptySeq
    <3> QED BY <2>1, <3>1
  <2>9. after \in Seq(Unoperated)
    BY <1>1, <2>8, Cut
  <2> HIDE DEF after, tok, T, S
  <2>10. CASE b = 12
    <3>1. tok.kind = "error" /\ tok \in Token /\ tok.kind # "symbol"
      BY <2>1, <2>3, <2>4, <2>10
    <3>2. LexTurn(x) = [rest |-> after, toks |-> Append(x.toks, tok)]
      BY <2>1, <2>10
    <3>3. Seen(s, [rest |-> after, toks |-> Append(x.toks, tok)])
      BY <2>9, <3>1, SeenMore
    <3> QED BY <3>2, <3>3
  <2>11. CASE b = 10
    <3>1. tok.kind = "word" /\ tok \in Token /\ tok.kind # "symbol" /\ IsWord(tok)
      BY <2>1, <2>3, <2>4, <2>11 DEF IsWord
    <3>2. LexTurn(x) = [rest |-> after, toks |-> Append(x.toks, tok)]
      BY <2>1, <2>11
    <3>3. Error \/ Fine
      BY <1>1, <2>2, <2>11 DEF r
    <3>4. after # <<>> => Head(after) \notin WordChars
      <4> SUFFICES ASSUME after # <<>> PROVE Head(after) \notin WordChars
        OBVIOUS
      <4> DEFINE L == Len(r)
      <4>0. /\ after \in Seq(Char) /\ Len(after) = L - n /\ \A i \in 1..(L - n) : after[i] = r[n + i]
        BY <2>2, <2>8, Cut DEF after
      <4>1. Len(after) \in Nat \ {0} /\ Head(after) = after[1]
        BY <4>0, HeadTail
      <4>2. n < L => r[n + 1] \notin WordChars
        BY <2>2, <2>6, <2>11, SpanIs
      <4>3. n < L /\ 1 \in 1..(L - n)
        <5> DEFINE l == Len(after)
        <5>1. L \in Nat /\ l \in Nat \ {0} /\ l = L - n /\ n \in 0..L
          BY <2>8, <4>0, <4>1, Zenon
        <5> HIDE DEF L, l
        <5> QED BY <5>1
      <4>4. after[1] = r[n + 1]
        BY <4>0, <4>3, Zenon
      <4> QED BY <4>1, <4>2, <4>3, <4>4
    <3>5. CASE Error \/ (after # <<>> /\ Head(after) # Blank)
      <4>1. Seen(s, [rest |-> after, toks |-> Append(x.toks, tok)])
        BY <2>9, <3>1, <3>4, <3>5, SeenMore
      <4> QED BY <3>2, <4>1
    <3>6. CASE Fine /\ (after # <<>> => Head(after) = Blank)
      <4> DEFINE w == Take(r, n)
                 e == <<w>>
                 R == Split(after)
      <4>1. w \in S /\ Len(w) = n /\ (\A i \in 1..n : w[i] = r[i]) /\ w \o after = r
        BY <2>2, <2>8, Cut, Rejoined DEF after, S
      <4>2. \A i \in 1..n : r[i] \in WordChars
        BY <2>2, <2>6, <2>11, SpanIs
      <4>3. w # <<>> /\ \A i \in 1..Len(w) : w[i] # Blank
        <5> HIDE DEF w
        <5>1. \A i \in 1..Len(w) : w[i] # Blank
          BY <4>1, <4>2, WordLetters
        <5>2. w # <<>>
          BY <2>1, <4>1
        <5> QED BY <5>1, <5>2
      <4> HIDE DEF w
      <4>4. Split(w \o after) = <<w>> \o Split(after)
        BY <2>1, <3>6, <4>1, <4>3, CharIs, SplitWord DEF S
      <4>5. R \in Seq(S) /\ e \in Seq(S)
        <5>1. R \in Seq(S)
          BY <2>1, SplitIs DEF S
        <5> QED BY <4>1, <5>1
      <4>6. Split(s) = T \o (e \o R)
        BY <3>6, <4>1, <4>4 DEF T
      <4> HIDE DEF e, R
      <4>7. T \o (e \o R) = (T \o e) \o R
        BY <2>5, <4>5, ConcatAssociative
      <4>8. Split(s) = (Texts(x.toks) \o <<tok.text>>) \o Split(after)
        BY <2>4, <4>6, <4>7 DEF e, R, T, w
      <4>9. Seen(s, [rest |-> after, toks |-> Append(x.toks, tok)])
        BY <2>9, <3>1, <3>6, <4>8, SeenMore
      <4> QED BY <3>2, <4>9
    <3> QED BY <3>3, <3>5, <3>6
  <2>12. CASE b = 11
    <3>1. LexTurn(x) = [x EXCEPT !.rest = after]
      BY <2>1, <2>12
    <3>2. Error \/ Fine
      BY <1>1, <2>2, <2>12 DEF r
    <3>3. Split(r) = Split(after)
      <4>1. r = <<Head(r)>> \o Tail(r) /\ Tail(r) \in Seq(Char) /\ Tail(r) = Drop(r, 1)
        BY <1>3, <2>2, HeadTail
      <4>2. after = Tail(r) /\ Head(r) = Blank
        BY <2>2, <2>7, <2>12, <4>1 DEF after
      <4>3. Split(<<Blank>> \o Tail(r)) = Split(Tail(r))
        BY <4>1, CharIs, SplitBlank
      <4> QED BY <4>1, <4>2, <4>3
    <3>4. Error \/ ((\A i \in 1..Len(x.toks) : IsWord(x.toks[i])) /\ Split(s) = Texts(x.toks) \o Split(after))
      BY <3>2, <3>3 DEF T
    <3>5. Seen(s, [x EXCEPT !.rest = after])
      BY <2>9, <3>4, SeenSame
    <3> QED BY <3>1, <3>5
  <2>13. CASE b \in {8, 9}
    <3>1. Error
      <4>1. Error \/ Fine
        BY <1>1, <2>2, <2>13 DEF r
      <4> SUFFICES ASSUME Fine PROVE FALSE
        BY <4>1
      <4>2. Head(r) # Blank
        BY <2>2, <2>13, WordLetters
      <4>3. PICK k \in 1..Len(r) : /\ k < Len(r) => r[k + 1] = Blank
                                   /\ Take(r, k) \in S
                                   /\ Split(r) = <<Take(r, k)>> \o Split(Drop(r, k))
        BY <1>3, <2>2, <4>2, CharIs, FirstWord DEF S
      <4>4. k \in 0..Len(r)
        BY <2>8
      <4> DEFINE w == Take(r, k)
                 e == <<w>>
                 R == Split(Drop(r, k))
      <4>5. Kinds[BestRule(w)] \in {"comment", "open"}
        BY <1>1, <1>3, <2>13, <4>3, <4>4, CommentWord DEF b
      <4>6. R \in Seq(S) /\ e \in Seq(S) /\ Len(e) = 1 /\ e[1] = w
        <5>1. Drop(r, k) \in Seq(Char)
          BY <2>2, <4>4, Cut
        <5>2. R \in Seq(S)
          BY <5>1, SplitIs DEF S
        <5> QED BY <4>3, <5>2
      <4>7. Split(s) = T \o (e \o R)
        BY <4>3 DEF T
      <4> HIDE DEF e, R, w
      <4>8. w \in Range(T \o (e \o R))
        <5> DEFINE v == e \o R
        <5>1. v \in Seq(S) /\ Len(v) = 1 + Len(R) /\ v[1] = w /\ Len(R) \in Nat
          <6>1. e \o R \in Seq(S) /\ Len(e \o R) = Len(e) + Len(R)
                /\ \A i \in 1..(Len(e) + Len(R)) : (e \o R)[i] = IF i <= Len(e) THEN e[i] ELSE R[i - Len(e)]
            BY <4>6, ConcatProperties
          <6>2. Len(R) \in Nat
            BY <4>6
          <6>3. 1 \in 1..(Len(e) + Len(R)) /\ 1 <= Len(e)
            BY <4>6, <6>2
          <6>4. (e \o R)[1] = e[1]
            BY <6>1, <6>3
          <6> QED BY <4>6, <6>1, <6>2, <6>4
        <5> HIDE DEF v
        <5>2. T \o v \in Seq(S) /\ Len(T \o v) = Len(T) + Len(v)
              /\ \A i \in 1..(Len(T) + Len(v)) : (T \o v)[i] = IF i <= Len(T) THEN T[i] ELSE v[i - Len(T)]
          BY <2>5, <5>1, ConcatProperties
        <5> DEFINE j == Len(T) + 1
        <5>3. Len(T) \in Nat /\ j \in 1..(Len(T) + Len(v)) /\ ~(j <= Len(T)) /\ j - Len(T) = 1
          BY <2>5, <5>1
        <5> HIDE DEF j
        <5>4. (T \o v)[j] = w
          BY <5>1, <5>2, <5>3
        <5> DEFINE z == T \o v
        <5>5. DOMAIN z = 1..Len(z) /\ j \in 1..Len(z) /\ z[j] = w
          BY <5>2, <5>3, <5>4
        <5> HIDE DEF z
        <5>6. w \in Range(z)
          BY <5>5, Zenon DEF Range
        <5> QED BY <5>6 DEF z, v
      <4>9. HasComment(s)
        BY <4>5, <4>7, <4>8, Zenon DEF HasComment
      <4> QED BY <4>9
    <3>2. CASE b = 8
      <4>1. LexTurn(x) = [x EXCEPT !.rest = after]
        BY <2>1, <3>2
      <4>2. Seen(s, [x EXCEPT !.rest = after])
        BY <2>9, <3>1, SeenSame
      <4> QED BY <4>1, <4>2
    <3>3. CASE b = 9
      <4> DEFINE f == AfterComment(after)
      <4>1. LexTurn(x) = [x EXCEPT !.rest = f]
        BY <2>1, <3>3
      <4>2. f \in Seq(Unoperated)
        BY <2>9, AfterCommentIs
      <4> HIDE DEF f
      <4>3. Seen(s, [x EXCEPT !.rest = f])
        BY <3>1, <4>2, SeenSame
      <4> QED BY <4>1, <4>3
    <3> QED BY <2>13, <3>2, <3>3
  <2> QED BY <2>2, <2>10, <2>11, <2>12, <2>13
<1> QED BY <1>2, <1>3
-----------------------------------------------------------------------------
(* What the parser and the printer make of such a text.                    *)

LEMMA TokensSplit ==
  ASSUME NEW s \in Seq(Unoperated), ~HasComment(s)
  PROVE  /\ Tokens(s) \in Seq(Token)
         /\ \A i \in 1..Len(Tokens(s)) : Tokens(s)[i].kind # "symbol"
         /\ \/ \E i \in 1..Len(Tokens(s)) : Tokens(s)[i].kind = "error"
            \/ /\ \A i \in 1..Len(Tokens(s)) : IsWord(Tokens(s)[i])
               /\ Split(s) = Texts(Tokens(s))
<1>1. s \in Seq(Char) /\ Len(s) \in Nat
  <2>1. Unoperated \subseteq Char
    BY DEF Unoperated
  <2>2. s \in Seq(Char)
    BY <2>1, SeqMonotonic
  <2> QED BY <2>2
<1>2. PICK at \in [0..Len(s) -> Lexes] :
        /\ at[0] = [rest |-> s, toks |-> <<>>]
        /\ \A k \in 1..Len(s) : at[k] = LexTurn(at[k - 1])
        /\ Tokens(s) = at[Len(s)].toks /\ at[Len(s)].rest = <<>>
        /\ Tokens(s) \in Seq(Token)
  BY <1>1, TokensAre
<1> DEFINE Good == {k \in 0..Len(s) : Seen(s, at[k])}
<1>3. 0 \in Good
  <2> DEFINE e == <<>>
             R == Split(s)
             x == at[0]
  <2>1. x.rest = s /\ x.toks = e /\ Len(e) = 0
    BY <1>2
  <2>2. Texts(e) = e
    BY DEF Texts
  <2>3. R \in Seq(Seq(Char))
    BY <1>1, SplitIs
  <2>4. e \o R = R
    <3> HIDE DEF R
    <3> QED BY <2>3, ConcatEmptySeq
  <2> HIDE DEF e, x
  <2>5. R = Texts(x.toks) \o Split(x.rest)
    BY <2>1, <2>2, <2>4
  <2>6. Seen(s, x)
    <3>1. \A i \in 1..Len(x.toks) : FALSE
      BY <2>1
    <3> HIDE DEF R
    <3> QED BY <2>1, <2>5, <3>1 DEF Seen, R
  <2> QED BY <1>1, <2>6 DEF x
<1>4. ASSUME NEW k \in 1..Len(s), k - 1 \in Good PROVE k \in Good
  <2> DEFINE x == at[k - 1]
  <2>1. x \in Lexes /\ at[k] = LexTurn(x) /\ k \in 0..Len(s)
    BY <1>1, <1>2
  <2>2. Seen(s, x)
    BY <1>4
  <2> HIDE DEF x
  <2>3. Seen(s, LexTurn(x))
    BY <1>1, <2>1, <2>2, SeenStep, Zenon
  <2> QED BY <2>1, <2>3
<1> HIDE DEF Good
<1>5. \A k \in 0..Len(s) : k \in Good
  BY <1>1, <1>3, <1>4, Counting
<1> DEFINE y == at[Len(s)]
           t == Tokens(s)
<1>6. Seen(s, y) /\ y \in Lexes
  <2>1. Len(s) \in Good /\ Len(s) \in 0..Len(s)
    BY <1>1, <1>5
  <2> QED BY <1>2, <2>1 DEF Good
<1>7. y.toks = t /\ y.rest = <<>> /\ t \in Seq(Token)
  BY <1>2
<1> HIDE DEF y, t
<1>8. /\ \A i \in 1..Len(t) : t[i].kind # "symbol"
      /\ \/ \E i \in 1..Len(t) : t[i].kind = "error"
         \/ (\A i \in 1..Len(t) : IsWord(t[i])) /\ Split(s) = Texts(t) \o Split(y.rest)
  BY <1>6, <1>7, Zenon DEF Seen
<1>9. ASSUME \A i \in 1..Len(t) : IsWord(t[i]), Split(s) = Texts(t) \o Split(y.rest)
      PROVE  Split(s) = Texts(t)
  <2> DEFINE r == y.rest
             u == Texts(t)
  <2>1. r \in Seq(Char) /\ r = <<>>
    BY <1>6, <1>7 DEF Lexes
  <2> HIDE DEF r
  <2>2. SkipBlanks(r) = <<>>
    BY <2>1, SkipNone
  <2>3. Split(r) = <<>>
    BY <2>1, <2>2, SplitIs
  <2>4. u \in Seq(Words)
    BY <1>7, <1>9, TextsAre
  <2> HIDE DEF u
  <2>5. u \o <<>> = u
    BY <2>4, ConcatEmptySeq
  <2> QED BY <1>9, <2>3, <2>5 DEF r, u
<1> QED BY <1>7, <1>8, <1>9 DEF t

\* Without an operator, the parser takes words only.
LEMMA PipelineOfWords ==
  ASSUME NEW t \in Seq(Token), \A i \in 1..Len(t) : t[i].kind # "symbol",
         Pipeline(t).ok, OptRedir(Pipeline(t).after)
  PROVE  /\ \A i \in 1..Len(t) : IsWord(t[i])
         /\ Pipeline(t).pipeline = <<Texts(t)>> /\ Pipeline(t).after = <<>>
<1> DEFINE n == Len(t) + 1
           p0 == [ok |-> FALSE, more |-> TRUE, pipeline |-> <<>>, after |-> t]
           l == Span(t, {u \in Range(t) : IsWord(u)})
           words == Take(t, l)
           after == Drop(t, l)
           p1 == StageTokens(p0)
<1>1. n \in Nat /\ Len(t) \in Nat /\ 1 \in 1..n /\ n = Len(t) + 1
  OBVIOUS
<1>2. PICK at \in [0..(Len(t) + 1) -> Parses] :
        /\ at[0] = p0
        /\ \A k \in 1..(Len(t) + 1) : at[k] = StageTokens(at[k - 1])
        /\ Pipeline(t) = at[Len(t) + 1]
  BY PipelineRuns
<1> HIDE DEF n
<1>3. \A k \in 1..n : at[k] = StageTokens(at[k - 1])
  BY <1>2 DEF n
<1>4. l \in 0..Len(t) /\ words \in Seq(Token) /\ Len(words) = l
      /\ (\A i \in 1..l : IsWord(words[i]) /\ words[i] = t[i])
  BY FrontWords, Zenon
<1>5. /\ after \in Seq(Token) /\ Len(after) = Len(t) - l /\ \A i \in 1..(Len(t) - l) : after[i] = t[l + i]
  BY <1>4, Cut
<1>6. after # <<>> => Head(after).kind # "symbol" /\ after[1].kind # "symbol"
  <2> SUFFICES ASSUME after # <<>> PROVE Head(after).kind # "symbol" /\ after[1].kind # "symbol"
    OBVIOUS
  <2> HIDE DEF after
  <2> DEFINE L == Len(t)
             m == Len(after)
  <2>1. m \in Nat \ {0} /\ Head(after) = after[1]
    BY <1>5, HeadTail
  <2>2. m = L - l /\ L \in Nat /\ l \in 0..L
    BY <1>1, <1>4, <1>5
  <2> HIDE DEF L, m, l
  <2>3. 1 \in 1..(L - l) /\ l + 1 \in 1..L
    BY <2>1, <2>2
  <2>4. after[1] = t[l + 1]
    BY <1>5, <2>3, Zenon DEF L
  <2> QED BY <2>1, <2>3, <2>4 DEF L
<1>7. p1 = [ok |-> words # <<>>, more |-> FALSE, pipeline |-> <<Texts(words)>>, after |-> after]
  <2> DEFINE bar == after # <<>> /\ Head(after) = Symbol(<<"|">>)
  <2>1. ~bar
    BY <1>6 DEF Symbol
  <2>2. p0.after = t /\ p0.more = TRUE /\ p0.pipeline = <<>>
    OBVIOUS
  <2> HIDE DEF p0
  <2>3. Take(p0.after, Span(p0.after, {u \in Range(p0.after) : IsWord(u)})) = words
    BY <2>2
  <2>4. Drop(p0.after, Len(words)) = after
    BY <1>4, <2>2
  <2> DEFINE q == Append(p0.pipeline, Texts(words))
  <2>5. q = <<Texts(words)>>
    BY <2>2
  <2> HIDE DEF words, after, q
  <2>6. p1 = [ok |-> words # <<>>, more |-> words # <<>> /\ bar, pipeline |-> q,
              after |-> IF bar THEN Tail(after) ELSE after]
    BY <2>2, <2>3, <2>4, Zenon DEF StageTokens, q
  <2> QED BY <2>1, <2>5, <2>6
<1>8. p1.more = FALSE /\ p1.ok = (words # <<>>) /\ p1.pipeline = <<Texts(words)>> /\ p1.after = after
  <2> HIDE DEF p1, words, after
  <2> QED BY <1>7
<1> HIDE DEF p0, p1, words, after
<1>9. StageTokens(p1) = p1
  BY <1>8 DEF StageTokens
<1> DEFINE Good == {k \in 0..Len(t) : at[k + 1] = p1}
<1>10. 0 \in Good
  <2>1. at[1] = StageTokens(at[1 - 1]) /\ 1 - 1 = 0 /\ 0 + 1 = 1
    BY <1>1, <1>3
  <2> QED BY <1>1, <1>2, <2>1 DEF p1
<1>11. ASSUME NEW k \in 1..Len(t), k - 1 \in Good PROVE k \in Good
  <2>1. k + 1 \in 1..n /\ (k + 1) - 1 = k /\ (k - 1) + 1 = k /\ k \in 0..Len(t)
    BY <1>1
  <2>2. at[k] = p1
    <3>1. at[(k - 1) + 1] = p1
      BY <1>11
    <3> QED BY <2>1, <3>1
  <2>3. at[k + 1] = StageTokens(at[(k + 1) - 1])
    BY <1>3, <2>1, Zenon
  <2> QED BY <1>9, <2>1, <2>2, <2>3
<1> HIDE DEF Good
<1>12. \A k \in 0..Len(t) : k \in Good
  BY <1>1, <1>10, <1>11, Counting
<1>13. Pipeline(t) = p1
  <2>1. Len(t) \in Good
    BY <1>1, <1>12
  <2> QED BY <1>2, <2>1 DEF Good
<1>14. after = <<>>
  <2>1. OptRedir(after)
    BY <1>8, <1>13
  <2>2. PICK form \in RedirForms :
          /\ Len(after) = 2 * Len(form)
          /\ \A i \in DOMAIN form : after[2 * i - 1] = Symbol(form[i]) /\ IsWord(after[2 * i])
    BY <2>1 DEF OptRedir
  <2>3. Len(form) \in 0..2 /\ DOMAIN form = 1..Len(form)
    BY FormsAre
  <2>4. CASE Len(form) = 0
    BY <1>5, <2>2, <2>4, EmptySeq
  <2>5. CASE Len(form) # 0
    <3>1. 1 \in DOMAIN form /\ 2 * 1 - 1 = 1
      BY <2>3, <2>5
    <3>2. after[2 * 1 - 1] = Symbol(form[1])
      BY <2>2, <3>1
    <3>3. after[1].kind = "symbol"
      BY <3>1, <3>2 DEF Symbol
    <3>4. after # <<>>
      BY <1>5, <2>2, <2>3, <2>5
    <3> QED BY <1>6, <3>3, <3>4
  <2> QED BY <2>4, <2>5
<1>15. l = Len(t)
  <2> DEFINE L == Len(t)
             m == Len(after)
  <2>1. m = L - l /\ L \in Nat /\ l \in 0..L /\ m = 0
    BY <1>1, <1>4, <1>5, <1>14
  <2> HIDE DEF L, m, l
  <2>2. l = L
    BY <2>1
  <2> QED BY <2>2 DEF L
<1>16. words = t
  BY <1>15, SubSeqFull DEF words, Take
<1> QED BY <1>4, <1>8, <1>13, <1>14, <1>15, <1>16

LEMMA PlainTree ==
  ASSUME NEW s \in Seq(Unoperated), ~HasComment(s), ParseInput(s) # NoTree
  PROVE  /\ Split(s) \in Seq(Words)
         /\ ParseInput(s) = [pipeline |-> <<Split(s)>>, redir |-> <<>>, background |-> FALSE]
<1> DEFINE t == Tokens(s)
           amp == t # <<>> /\ Last(t) = Symbol(<<"&">>)
           p == Pipeline(IF amp THEN Front(t) ELSE t)
<1>1. ParseInput(s) = IF p.ok /\ OptRedir(p.after)
                      THEN [pipeline |-> p.pipeline, redir |-> Redirections(p.after), background |-> amp]
                      ELSE NoTree
  BY DEF ParseInput, ParseTokens
<1>2. /\ t \in Seq(Token) /\ \A i \in 1..Len(t) : t[i].kind # "symbol"
      /\ \/ \E i \in 1..Len(t) : t[i].kind = "error"
         \/ (\A i \in 1..Len(t) : IsWord(t[i])) /\ Split(s) = Texts(t)
  BY TokensSplit
<1> HIDE DEF t
<1>3. ~amp
  <2> SUFFICES ASSUME t # <<>>, Last(t) = Symbol(<<"&">>) PROVE FALSE
    OBVIOUS
  <2>1. Len(t) \in 1..Len(t)
    BY <1>2, EmptySeq
  <2>2. t[Len(t)].kind = "symbol"
    BY DEF Last, Symbol
  <2> QED BY <1>2, <2>1, <2>2
<1>4. p = Pipeline(t) /\ amp = FALSE
  BY <1>3
<1> HIDE DEF p, amp
<1>5. p.ok /\ OptRedir(p.after)
  BY <1>1
<1>6. (\A i \in 1..Len(t) : IsWord(t[i])) /\ p.pipeline = <<Texts(t)>> /\ p.after = <<>>
  BY <1>2, <1>4, <1>5, PipelineOfWords
<1>7. Split(s) = Texts(t)
  <2>1. ASSUME \E i \in 1..Len(t) : t[i].kind = "error" PROVE FALSE
    BY <1>6, <2>1 DEF IsWord
  <2> QED BY <1>2, <2>1
<1>8. Texts(t) \in Seq(Words)
  BY <1>2, <1>6, TextsAre
<1>9. Redirections(<<>>) = <<>>
  <2>1. Len(<<>>) \div 2 = 0
    OBVIOUS
  <2> QED BY <2>1 DEF Redirections
<1> QED BY <1>1, <1>4, <1>5, <1>6, <1>7, <1>8, <1>9

LEMMA FlattenOne ==
  ASSUME NEW X, NEW u \in Seq(X)
  PROVE  FlattenSeq(<<u>>) = u
<1> DEFINE z == <<>>
           S == Seq(X)
           b == <<u>>
<1>1. z \in Seq(Seq(X)) /\ z = <<>>
  OBVIOUS
<1>2. b \in Seq(S)
  BY DEF S
<1> HIDE DEF z
<1>3. FlattenSeq(<<u>> \o z) = u \o FlattenSeq(z) /\ FlattenSeq(z) = <<>>
  BY <1>1, FlattenCons, Flattened
<1> HIDE DEF S, b
<1>4. b \o <<>> = b
  BY <1>2, ConcatEmptySeq
<1>5. u \o <<>> = u
  BY ConcatEmptySeq
<1> QED BY <1>1, <1>3, <1>4, <1>5, Zenon DEF b

LEMMA PlainPrint ==
  ASSUME NEW q \in Seq(Words)
  PROVE  /\ PrintInput([pipeline |-> <<q>>, redir |-> <<>>, background |-> FALSE]) = Spaced(q)
         /\ Spaced(q) \in Seq(WordChars \cup {Blank})
<1> DEFINE X == WordChars \cup {Blank}
           t == [pipeline |-> <<q>>, redir |-> <<>>, background |-> FALSE]
           u == Spaced(q)
           z == <<>>
<1>1. u \in Seq(X)
  <2>1. Words \subseteq Seq(WordChars) /\ WordChars \subseteq X /\ Blank \in X
    BY WordsAreTexts
  <2> HIDE DEF X
  <2>2. Words \subseteq Seq(X)
    BY <2>1, SeqMonotonic
  <2>3. q \in Seq(Seq(X))
    BY <2>2, SeqMonotonic
  <2> QED BY <2>1, <2>3, SpacedIs
<1> HIDE DEF X
<1>2. PrintPipeline(<<q>>) = u
  <2> DEFINE e(i) == (IF i = 1 THEN <<>> ELSE Spaced(<< <<"|">> >>)) \o Spaced(<<q>>[i])
             P == [i \in DOMAIN <<q>> |-> e(i)]
  <2>1. DOMAIN <<q>> = 1..1 /\ <<q>>[1] = q
    OBVIOUS
  <2>2. e(1) = u
    <3>1. e(1) = <<>> \o u
      BY <2>1
    <3> HIDE DEF e, u
    <3>2. <<>> \o u = u
      BY <1>1, ConcatEmptySeq
    <3> QED BY <3>1, <3>2
  <2>3. PrintPipeline(<<q>>) = FlattenSeq(P)
    BY Zenon DEF PrintPipeline
  <2> HIDE DEF e, u
  <2>4. P = <<u>>
    BY <2>1, <2>2
  <2>5. FlattenSeq(<<u>>) = u
    BY <1>1, FlattenOne
  <2> QED BY <2>3, <2>4, <2>5
<1>3. PrintRedir(<<>>) = <<>>
  <2>1. z \in Seq(Seq(Char)) /\ z = <<>>
    OBVIOUS
  <2>2. PrintRedir(<<>>) = FlattenSeq(z)
    <3> DEFINE f == [i \in DOMAIN <<>> |-> Spaced(<<>>[i])]
    <3>1. PrintRedir(<<>>) = FlattenSeq(f)
      BY Zenon DEF PrintRedir
    <3>2. f = <<>>
      OBVIOUS
    <3> QED BY <3>1, <3>2
  <2> HIDE DEF z
  <2>3. FlattenSeq(z) = <<>>
    BY <2>1, Flattened
  <2> QED BY <2>2, <2>3
<1>4. t.pipeline = <<q>> /\ t.redir = <<>> /\ t.background = FALSE
  OBVIOUS
<1> HIDE DEF t, u
<1>5. PrintInput(t) = (u \o <<>>) \o <<>>
  BY <1>2, <1>3, <1>4, Zenon DEF PrintInput
<1>6. u \o <<>> = u
  BY <1>1, ConcatEmptySeq
<1> QED BY <1>1, <1>5, <1>6 DEF X, t, u
-----------------------------------------------------------------------------
(* A confirmed suggestion.                                                 *)

LEMMA TypedAgain ==
  ASSUME NEW s \in Seq(Char), ~HasForbiddenSyntax(s), ~HasComment(s)
  PROVE  TypedRun(s) = <<[argv |-> ParseCommand(s), redirs |-> <<>>]>>
<1> DEFINE e == Expanded(s)
           tree == IF Range(e.text) \cap Quotes # {} THEN NoTree ELSE ParseInput(e.text)
           line == IF tree = NoTree THEN e.text ELSE PrintInput(tree)
<1>1. Range(s) \cap Forbidden = {}
  BY DEF HasForbiddenSyntax, Range
<1>2. s \in Seq(Char \ Forbidden)
  <2> HIDE DEF e, tree, line
  <2> QED BY <1>1, WithoutThem
<1>3. Operators \subseteq Forbidden /\ "$" \in Forbidden
  BY Zenon DEF Operators, Forbidden
<1>4. s \in Seq(Unoperated)
  <2>1. Char \ Forbidden \subseteq Unoperated
    BY <1>3 DEF Unoperated
  <2> QED BY <1>2, <2>1, SeqMonotonic
<1>5. \A i \in 1..Len(s) : s[i] # "$"
  <2> TAKE i \in 1..Len(s)
  <2>1. s[i] \in Char \ Forbidden
    BY <1>2, ElementOfSeq
  <2> QED BY <1>3, <2>1
<1>6. e.ok = TRUE /\ e.text = s
  BY <1>5, ExpandedSame
<1> HIDE DEF e
<1>7. TypedRun(s) = IF e.ok /\ ~HasOperator(line) THEN <<[argv |-> ParseCommand(line), redirs |-> <<>>]>>
                    ELSE <<>>
  BY Zenon DEF TypedRun, e
<1>8. tree = NoTree \/ (tree # NoTree /\ tree = ParseInput(s))
  BY <1>6
<1> HIDE DEF tree
<1>9. CASE tree = NoTree
  <2>1. line = s
    BY <1>6, <1>9
  <2> HIDE DEF line
  <2>2. ~HasOperator(s)
    BY <1>1, <1>3 DEF HasOperator
  <2> QED BY <1>6, <1>7, <2>1, <2>2
<1>10. CASE tree # NoTree
  <2> DEFINE q == Split(s)
             X == WordChars \cup {Blank}
             u == Spaced(q)
  <2>1. tree = ParseInput(s) /\ ParseInput(s) # NoTree
    BY <1>8, <1>10
  <2>2. q \in Seq(Words) /\ tree = [pipeline |-> <<q>>, redir |-> <<>>, background |-> FALSE]
    BY <1>4, <2>1, PlainTree
  <2> HIDE DEF q
  <2>3. line = PrintInput(tree)
    BY <1>10
  <2> HIDE DEF line
  <2>4. line = u /\ u \in Seq(X)
    BY <2>2, <2>3, PlainPrint
  <2>5. Split(u) = q
    BY <2>2, SplitSpaced
  <2> HIDE DEF u
  <2>6. ParseCommand(line) = ParseCommand(s)
    BY <2>4, <2>5 DEF ParseCommand, q
  <2>7. ~HasOperator(line)
    <3>1. X \cap Operators = {}
      <4>1. Blank \notin Operators
        BY Zenon DEF Blank, Operators
      <4> QED BY <4>1, WordLetters
    <3>2. X \ Operators = X
      BY <3>1
    <3> HIDE DEF X
    <3>3. Range(u) \cap Operators = {}
      BY <2>4, <3>2, WithoutThem
    <3> QED BY <2>4, <3>3 DEF HasOperator
  <2> QED BY <1>6, <1>7, <2>6, <2>7
<1> QED BY <1>9, <1>10

Checked ==
  \/ suggested = FALSE
  \/ /\ suggested = TRUE /\ phase = "run" /\ ~HasForbiddenSyntax(text)
     /\ cmds = <<[argv |-> ParseCommand(text), redirs |-> <<>>]>>
ConfirmInv == LineType /\ Checked

LEMMA ConfirmStep ==
  ASSUME ConfirmInv, [Next]_vars
  PROVE  ConfirmInv'
<1>1. LineType'
  BY LineTypeStep DEF ConfirmInv
<1>2. phase # "run" => suggested = FALSE
  BY DEF ConfirmInv, Checked
<1>3. CASE ReadLine \/ ReadRest \/ NextPrompt
  <2>1. suggested' = FALSE
    BY <1>3, Zenon DEF ReadLine, ReadRest, Read, NextPrompt
  <2> QED BY <1>1, <2>1 DEF ConfirmInv, Checked
<1>4. CASE \/ ExpandVariables \/ Normalize \/ RunSimple \/ SplitStages \/ ParseStage \/ NoQuery
           \/ phase = "asked" /\ \E s \in Suggestions : Suggest(s)
  <2>1. phase # "run" /\ suggested' = suggested
    BY <1>4, Zenon DEF ExpandVariables, Normalize, RunSimple, SplitStages, ParseStage, NoQuery, Suggest
  <2> QED BY <1>1, <1>2, <2>1 DEF ConfirmInv, Checked
<1>5. CASE \E yes \in BOOLEAN : Confirm(yes)
  <2>1. PICK yes \in BOOLEAN : Confirm(yes)
    BY <1>5
  <2> DEFINE runs == yes /\ Acceptable(text)
  <2>2. /\ phase' = (IF runs THEN "run" ELSE IF yes THEN "refused" ELSE "empty")
        /\ suggested' = runs
        /\ cmds' = IF runs THEN <<[argv |-> ParseCommand(text), redirs |-> <<>>]>> ELSE cmds
        /\ text' = text
    BY <2>1, Zenon DEF Confirm
  <2>3. CASE runs
    <3>1. suggested' = TRUE
      BY <2>2, <2>3, Zenon
    <3>2. ~HasForbiddenSyntax(text)
      BY <2>3, Zenon DEF Acceptable
    <3>3. phase' = "run" /\ cmds' = <<[argv |-> ParseCommand(text), redirs |-> <<>>]>> /\ text' = text
      BY <2>2, <2>3, Zenon
    <3>4. ~HasForbiddenSyntax(text')
      BY <3>2, <3>3
    <3>5. cmds' = <<[argv |-> ParseCommand(text'), redirs |-> <<>>]>>
      BY <3>3
    <3> QED BY <1>1, <3>1, <3>3, <3>4, <3>5 DEF ConfirmInv, Checked
  <2>4. CASE ~runs
    <3>1. suggested' = FALSE
      BY <2>2, <2>4, Zenon
    <3> QED BY <1>1, <3>1 DEF ConfirmInv, Checked
  <2> QED BY <2>3, <2>4
<1>6. CASE vars' = vars
  BY <1>1, <1>6 DEF vars, ConfirmInv, Checked
<1> QED BY <1>3, <1>4, <1>5, <1>6 DEF Next

\* A suggestion the user confirms runs exactly what the shown text would run had it
\* been typed (execute_suggested_command skips expand_variables_line, the BNFC parser
\* and its printer, through which every typed line goes): one plain command.
THEOREM SuggestionsRunAsTyped == Spec => []ConfirmedAsTyped
<1>1. Init => ConfirmInv
  BY DEF Init, ConfirmInv, Checked, LineType
<1>2. ConfirmInv /\ [Next]_vars => ConfirmInv'
  BY ConfirmStep
<1>3. ConfirmInv => ConfirmedAsTyped
  <2> SUFFICES ASSUME ConfirmInv, suggested, ~HasComment(text) PROVE cmds = TypedRun(text)
    BY Zenon DEF ConfirmedAsTyped
  <2>1. /\ text \in Seq(Char) /\ ~HasForbiddenSyntax(text)
        /\ cmds = <<[argv |-> ParseCommand(text), redirs |-> <<>>]>>
    BY Zenon DEF ConfirmInv, Checked, LineType
  <2> QED BY <2>1, TypedAgain
<1> QED BY <1>1, <1>2, <1>3, PTL DEF Spec
-----------------------------------------------------------------------------
(* split_pipeline_stages on a text that is put together from its stages.   *)

LEMMA ShiftedPiece ==
  ASSUME NEW X, NEW a \in Seq(X), NEW b \in Seq(X), NEW lo \in 1..Len(b) + 1, NEW hi \in 0..Len(b)
  PROVE  SubSeq(a \o b, lo + Len(a), hi + Len(a)) = SubSeq(b, lo, hi)
<1> DEFINE la == Len(a)
           lb == Len(b)
           s == a \o b
           u == SubSeq(s, lo + la, hi + la)
           v == SubSeq(b, lo, hi)
<1>1. la \in Nat /\ lb \in Nat /\ lo \in 1..lb + 1 /\ hi \in 0..lb
  OBVIOUS
<1>2. /\ s \in Seq(X) /\ Len(s) = la + lb
      /\ \A i \in 1..(la + lb) : s[i] = IF i <= la THEN a[i] ELSE b[i - la]
  BY ConcatProperties
<1> HIDE DEF s, la, lb
<1>3. \A i \in lo..hi : b[i] \in X
  BY <1>1 DEF lb
<1>4. \A i \in (lo + la)..(hi + la) : s[i] \in X
  BY <1>1, <1>2
<1>5. /\ v \in Seq(X) /\ Len(v) = IF lo <= hi THEN hi - lo + 1 ELSE 0
      /\ \A i \in 1..Len(v) : v[i] = b[lo + i - 1]
  BY <1>1, <1>3, SubSeqProperties
<1>6. /\ u \in Seq(X) /\ Len(u) = IF lo + la <= hi + la THEN (hi + la) - (lo + la) + 1 ELSE 0
      /\ \A i \in 1..Len(u) : u[i] = s[(lo + la) + i - 1]
  <2> DEFINE l2 == lo + la
             h2 == hi + la
  <2>1. l2 \in Int /\ h2 \in Int /\ \A i \in l2..h2 : s[i] \in X
    BY <1>1, <1>4
  <2> HIDE DEF l2, h2
  <2>2. /\ SubSeq(s, l2, h2) \in Seq(X) /\ Len(SubSeq(s, l2, h2)) = IF l2 <= h2 THEN h2 - l2 + 1 ELSE 0
        /\ \A i \in 1..Len(SubSeq(s, l2, h2)) : SubSeq(s, l2, h2)[i] = s[l2 + i - 1]
    BY <2>1, SubSeqProperties
  <2> QED BY <2>2 DEF l2, h2
<1> HIDE DEF u, v
<1>7. Len(u) = Len(v)
  BY <1>1, <1>5, <1>6
<1>8. ASSUME NEW i \in 1..Len(u) PROVE u[i] = v[i]
  <2> DEFINE k == (lo + la) + i - 1
             m == lo + i - 1
  <2>1. k \in 1..(la + lb) /\ ~(k <= la) /\ k - la = m
    BY <1>1, <1>6
  <2>2. u[i] = s[k] /\ v[i] = b[m]
    BY <1>5, <1>6, <1>7
  <2> HIDE DEF k, m
  <2>3. s[k] = b[k - la]
    BY <1>2, <2>1
  <2> QED BY <2>1, <2>2, <2>3
<1>9. u = v
  BY <1>5, <1>6, <1>7, <1>8, SameSeq
<1> QED BY <1>9 DEF u, v, s, la

\* Nothing is cut where no bar is.
LEMMA NothingCut ==
  ASSUME NEW s \in Seq(Plain), NEW n \in 0..Len(s), \A i \in 1..n : s[i] # "|",
         NEW at \in [0..Len(s) -> Cuts(s, Plain)], at[0] = [start |-> 1, pieces |-> <<>>],
         \A k \in 1..Len(s) : at[k] = PieceTurn(s, k, at[k - 1])
  PROVE  at[n] = [start |-> 1, pieces |-> <<>>]
<1> DEFINE Good == {k \in 0..n : at[k] = at[0]}
<1>1. n \in Nat /\ Len(s) \in Nat /\ 0 \in Good
  OBVIOUS
<1>2. ASSUME NEW k \in 1..n, k - 1 \in Good PROVE k \in Good
  <2>1. k \notin Bars(s) /\ k \in 1..Len(s) /\ k \in 0..n
    BY <1>1 DEF Bars
  <2>2. at[k] = at[k - 1]
    BY <2>1 DEF PieceTurn
  <2> QED BY <1>2, <2>1, <2>2
<1> HIDE DEF Good
<1>3. \A k \in 0..n : k \in Good
  BY <1>1, <1>2, Counting
<1>4. n \in Good
  BY <1>1, <1>3
<1> QED BY <1>4 DEF Good

LEMMA OnePiece ==
  ASSUME NEW a \in Seq(Unpiped)
  PROVE  Pieces(a) = <<Trim(a)>>
<1> DEFINE n == Len(a)
<1>1. a \in Seq(Plain) /\ n \in Nat /\ \A i \in 1..n : a[i] # "|"
  BY UnpipedIsPlain DEF Unpiped
<1>2. PICK at \in [0..n -> Cuts(a, Plain)] :
        /\ at[0] = [start |-> 1, pieces |-> <<>>]
        /\ \A k \in 1..n : at[k] = PieceTurn(a, k, at[k - 1])
        /\ Pieces(a) = Append(at[n].pieces, Trim(SubSeq(a, at[n].start, n)))
  BY <1>1, PiecesRuns
<1>3. at[n] = [start |-> 1, pieces |-> <<>>]
  <2>1. n \in 0..Len(a)
    BY <1>1
  <2> QED BY <1>1, <1>2, <2>1, NothingCut
<1>4. at[n].start = 1 /\ at[n].pieces = <<>> /\ SubSeq(a, 1, n) = a
  BY <1>1, <1>3, SubSeqFull
<1>5. Pieces(a) = Append(<<>>, Trim(a))
  BY <1>2, <1>4
<1> QED BY <1>5

\* The stage in front of a bar is the first piece, the others are those of the rest.
LEMMA PiecesJoined ==
  ASSUME NEW a \in Seq(Unpiped), NEW b \in Seq(Plain)
  PROVE  Pieces((a \o <<"|">>) \o b) = <<Trim(a)>> \o Pieces(b)
<1> DEFINE la == Len(a)
           lb == Len(b)
           h == a \o <<"|">>
           s == h \o b
           n == Len(s)
           T == Trim(a)
<1>1. la \in Nat /\ lb \in Nat /\ a \in Seq(Plain) /\ \A i \in 1..la : a[i] # "|"
  BY UnpipedIsPlain DEF Unpiped
<1>2. "|" \in Plain
  BY PlainChars DEF Operators
<1>3. h \in Seq(Plain) /\ Len(h) = la + 1 /\ h[la + 1] = "|" /\ \A i \in 1..la : h[i] = a[i]
  BY <1>1, <1>2, LastOf
<1> HIDE DEF h
<1>4. /\ s \in Seq(Plain) /\ n = la + 1 + lb /\ n \in Nat
      /\ \A i \in 1..(la + 1) : s[i] = h[i]
      /\ \A j \in 1..lb : s[la + 1 + j] = b[j]
  <2>1. /\ h \o b \in Seq(Plain) /\ Len(h \o b) = Len(h) + Len(b)
        /\ \A i \in 1..(Len(h) + Len(b)) : (h \o b)[i] = IF i <= Len(h) THEN h[i] ELSE b[i - Len(h)]
    BY <1>3, ConcatProperties
  <2> HIDE DEF s, la, lb
  <2>2. s \in Seq(Plain) /\ n = la + 1 + lb /\ n \in Nat
    BY <1>1, <1>3, <2>1 DEF s, lb
  <2>3. \A i \in 1..(la + 1) : s[i] = h[i]
    BY <1>1, <1>3, <2>1 DEF s, lb
  <2>4. ASSUME NEW j \in 1..lb PROVE s[la + 1 + j] = b[j]
    <3>1. la + 1 + j \in 1..(Len(h) + Len(b)) /\ ~(la + 1 + j <= Len(h)) /\ (la + 1 + j) - Len(h) = j
      BY <1>1, <1>3 DEF lb
    <3> QED BY <2>1, <3>1 DEF s
  <2> QED BY <2>2, <2>3, <2>4
<1>5. \A lo \in 1..lb + 1, hi \in 0..lb : SubSeq(s, lo + (la + 1), hi + (la + 1)) = SubSeq(b, lo, hi)
  <2> TAKE lo \in 1..lb + 1, hi \in 0..lb
  <2>1. SubSeq(h \o b, lo + Len(h), hi + Len(h)) = SubSeq(b, lo, hi)
    BY <1>3, ShiftedPiece
  <2> QED BY <1>3, <2>1
<1>6. SubSeq(s, 1, la) = a
  <2>1. Take(s, la) = a
    <3>1. la \in 0..n
      BY <1>1, <1>4
    <3> HIDE DEF s, la
    <3>2. Take(s, la) \in Seq(Plain) /\ Len(Take(s, la)) = la /\ \A i \in 1..la : Take(s, la)[i] = s[i]
      BY <1>4, <3>1, Cut
    <3>3. \A i \in 1..la : Take(s, la)[i] = a[i]
      BY <1>1, <1>3, <1>4, <3>2
    <3> DEFINE t == Take(s, la)
    <3>4. t \in Seq(Plain) /\ Len(t) = Len(a) /\ \A i \in 1..Len(t) : t[i] = a[i]
      BY <3>2, <3>3 DEF la
    <3> HIDE DEF t
    <3>5. t = a
      BY <1>1, <3>4, SameSeq
    <3> QED BY <3>5 DEF t
  <2> QED BY <2>1 DEF Take
<1> HIDE DEF s, n, la, lb
<1>7. PICK at \in [0..n -> Cuts(s, Plain)] :
        /\ at[0] = [start |-> 1, pieces |-> <<>>]
        /\ \A k \in 1..n : at[k] = PieceTurn(s, k, at[k - 1])
        /\ Pieces(s) = Append(at[n].pieces, Trim(SubSeq(s, at[n].start, n)))
  BY <1>4, PiecesRuns DEF n
<1>8. PICK bt \in [0..lb -> Cuts(b, Plain)] :
        /\ bt[0] = [start |-> 1, pieces |-> <<>>]
        /\ \A k \in 1..lb : bt[k] = PieceTurn(b, k, bt[k - 1])
        /\ Pieces(b) = Append(bt[lb].pieces, Trim(SubSeq(b, bt[lb].start, lb)))
  BY PiecesRuns DEF lb
<1>9. at[la] = [start |-> 1, pieces |-> <<>>]
  <2>1. la \in 0..n
    BY <1>1, <1>4
  <2>2. ASSUME NEW i \in 1..la PROVE s[i] # "|"
    <3>1. i \in 1..(la + 1)
      BY <1>1
    <3>2. s[i] = h[i] /\ h[i] = a[i] /\ a[i] # "|"
      BY <1>1, <1>3, <1>4, <3>1, Zenon
    <3> QED BY <3>2
  <2> QED BY <1>4, <1>7, <2>1, <2>2, NothingCut DEF n
<1>10. /\ \A k \in 1..n : k \in Bars(s) <=> s[k] = "|"
       /\ \A k \in 1..lb : k \in Bars(b) <=> b[k] = "|"
  BY <1>4, UnquotedIs DEF Bars, n, lb
<1>11. at[la + 1] = [start |-> la + 2, pieces |-> <<T>>]
  <2>1. la + 1 \in 1..n /\ la + 1 \in Bars(s) /\ (la + 1) - 1 = la
    <3>1. la + 1 \in 1..n /\ la + 1 \in 1..(la + 1) /\ (la + 1) - 1 = la
      BY <1>1, <1>4
    <3>2. s[la + 1] = h[la + 1]
      BY <1>4, <3>1, Zenon
    <3> QED BY <1>3, <1>10, <3>1, <3>2
  <2>2. at[la + 1] = PieceTurn(s, la + 1, at[la])
    BY <1>7, <2>1
  <2>3. at[la].start = 1 /\ at[la].pieces = <<>>
    BY <1>9
  <2>4. at[la + 1] = [start |-> (la + 1) + 1, pieces |-> Append(<<>>, Trim(SubSeq(s, 1, la)))]
    BY <1>1, <2>1, <2>2, <2>3 DEF PieceTurn
  <2> DEFINE v == SubSeq(s, 1, la)
             u == Trim(v)
  <2>5. v = a
    BY <1>6
  <2> HIDE DEF v
  <2>6. u = T
    BY <2>5
  <2> HIDE DEF T, u
  <2>7. Append(<<>>, u) = <<T>>
    BY <2>6
  <2>8. (la + 1) + 1 = la + 2
    BY <1>1
  <2> QED BY <2>4, <2>7, <2>8 DEF u, v
<1> DEFINE Like(x, y) == x.start = y.start + (la + 1) /\ x.pieces = <<T>> \o y.pieces
           Good == {j \in 0..lb : Like(at[la + 1 + j], bt[j])}
<1>12. T \in Seq(Plain)
  BY <1>1, TrimIs
<1>13. \A j \in 0..lb : bt[j].start \in 1..lb + 1 /\ bt[j].pieces \in Seq(Seq(Plain))
  BY <1>8 DEF Cuts, lb
<1> HIDE DEF T
<1>14. 0 \in Good
  <2>1. at[la + 1 + 0] = [start |-> la + 2, pieces |-> <<T>>]
    BY <1>1, <1>11
  <2>2. bt[0].start = 1 /\ bt[0].pieces = <<>>
    BY <1>8
  <2>3. Like(at[la + 1 + 0], bt[0])
    BY <1>1, <1>12, <2>1, <2>2
  <2> HIDE DEF Like
  <2> QED BY <1>1, <2>3
<1>15. ASSUME NEW q \in Seq(Seq(Plain)), NEW u \in Seq(Plain)
       PROVE  Append(<<T>> \o q, u) = <<T>> \o Append(q, u)
  <2> DEFINE S == Seq(Plain)
  <2>1. q \in Seq(S) /\ u \in S /\ T \in S
    BY <1>12
  <2> HIDE DEF S
  <2>2. <<T>> \in Seq(S) /\ <<u>> \in Seq(S)
    BY <2>1
  <2> DEFINE t1 == <<T>>
             u1 == <<u>>
  <2> HIDE DEF t1, u1
  <2>3. (t1 \o q) \o u1 = t1 \o (q \o u1)
    BY <2>1, <2>2, ConcatAssociative DEF t1, u1
  <2>4. Append(q, u) = q \o u1
    BY <2>1, LastOf DEF u1
  <2>5. t1 \o q \in Seq(S)
    BY <2>1, <2>2, ConcatProperties DEF t1
  <2>6. Append(t1 \o q, u) = (t1 \o q) \o u1
    BY <2>1, <2>5, LastOf DEF u1
  <2> QED BY <2>3, <2>4, <2>6 DEF t1
<1>16. ASSUME NEW lo \in 1..lb + 1, NEW hi \in 0..lb PROVE Trim(SubSeq(b, lo, hi)) \in Seq(Plain)
  <2>1. \A i \in lo..hi : b[i] \in Plain
    BY <1>1 DEF lb
  <2>2. SubSeq(b, lo, hi) \in Seq(Plain)
    BY <1>1, <2>1, SubSeqProperties
  <2> QED BY <2>2, TrimIs
<1>17. ASSUME NEW j \in 1..lb, j - 1 \in Good PROVE j \in Good
  <2> DEFINE i == la + 1 + j
             x == at[la + 1 + (j - 1)]
             y == bt[j - 1]
  <2>1. i \in 1..n /\ la + 1 + (j - 1) = i - 1 /\ j \in 0..lb /\ j - 1 \in 0..lb /\ j \in Nat
    BY <1>1, <1>4
  <2>2. Like(x, y)
    BY <1>17
  <2>3. at[i] = PieceTurn(s, i, x) /\ bt[j] = PieceTurn(b, j, y)
    BY <1>7, <1>8, <2>1
  <2>4. s[i] = b[j]
    BY <1>4
  <2>5. y.start \in 1..lb + 1 /\ y.pieces \in Seq(Seq(Plain))
    BY <1>13, <2>1
  <2>6. i \in Bars(s) <=> j \in Bars(b)
    <3> HIDE DEF i
    <3> QED BY <1>10, <2>1, <2>4
  <2> HIDE DEF x, y
  <2>7. CASE j \notin Bars(b)
    <3>1. at[i] = x /\ bt[j] = y
      <4> HIDE DEF i
      <4> QED BY <2>3, <2>6, <2>7 DEF PieceTurn
    <3> HIDE DEF Like
    <3> QED BY <2>1, <2>2, <3>1
  <2>8. CASE j \in Bars(b)
    <3> DEFINE u == Trim(SubSeq(b, y.start, j - 1))
    <3>1. bt[j] = [start |-> j + 1, pieces |-> Append(y.pieces, u)]
      BY <2>3, <2>8 DEF PieceTurn
    <3>2. at[i] = [start |-> i + 1, pieces |-> Append(x.pieces, Trim(SubSeq(s, x.start, i - 1)))]
      <4> HIDE DEF i
      <4> QED BY <2>3, <2>6, <2>8 DEF PieceTurn
    <3>3. i - 1 = (j - 1) + (la + 1) /\ i + 1 = (j + 1) + (la + 1)
      BY <1>1, <2>1
    <3>4. SubSeq(s, x.start, i - 1) = SubSeq(b, y.start, j - 1)
      <4>1. x.start = y.start + (la + 1)
        BY <2>2
      <4> HIDE DEF i
      <4> QED BY <1>5, <2>1, <2>5, <3>3, <4>1
    <3>5. u \in Seq(Plain)
      BY <1>16, <2>1, <2>5
    <3> HIDE DEF u
    <3>6. at[i].start = bt[j].start + (la + 1)
      <4> HIDE DEF i
      <4> QED BY <3>1, <3>2, <3>3
    <3>7. at[i].pieces = <<T>> \o bt[j].pieces
      <4>1. x.pieces = <<T>> \o y.pieces
        BY <2>2
      <4>2. Append(<<T>> \o y.pieces, u) = <<T>> \o Append(y.pieces, u)
        BY <1>15, <2>5, <3>5
      <4>3. at[i].pieces = Append(x.pieces, u)
        <5> HIDE DEF i
        <5>1. at[i].pieces = Append(x.pieces, Trim(SubSeq(s, x.start, i - 1)))
          BY <3>2
        <5>2. Trim(SubSeq(s, x.start, i - 1)) = u
          BY <3>4 DEF u
        <5> QED BY <5>1, <5>2
      <4>4. bt[j].pieces = Append(y.pieces, u)
        BY <3>1
      <4> HIDE DEF i
      <4> QED BY <4>1, <4>2, <4>3, <4>4
    <3>8. Like(at[i], bt[j])
      BY <3>6, <3>7
    <3> HIDE DEF Like
    <3> QED BY <2>1, <3>8
  <2> QED BY <2>7, <2>8
<1> HIDE DEF Good
<1>18. \A j \in 0..lb : j \in Good
  BY <1>1, <1>14, <1>17, Counting
<1>19. at[n].start = bt[lb].start + (la + 1) /\ at[n].pieces = <<T>> \o bt[lb].pieces
  <2>1. lb \in Good
    BY <1>1, <1>18
  <2> QED BY <1>4, <2>1 DEF Good
<1> HIDE DEF Like
<1>20. SubSeq(s, at[n].start, n) = SubSeq(b, bt[lb].start, lb)
  <2>1. bt[lb].start \in 1..lb + 1 /\ lb \in 0..lb /\ n = lb + (la + 1)
    BY <1>1, <1>4, <1>13
  <2> QED BY <1>5, <1>19, <2>1
<1>21. Pieces(s) = <<T>> \o Pieces(b)
  <2> DEFINE u == Trim(SubSeq(b, bt[lb].start, lb))
  <2>1. u \in Seq(Plain) /\ bt[lb].pieces \in Seq(Seq(Plain))
    <3>1. lb \in 0..lb
      BY <1>1
    <3> QED BY <1>13, <1>16, <3>1
  <2>2. Pieces(s) = Append(<<T>> \o bt[lb].pieces, u) /\ Pieces(b) = Append(bt[lb].pieces, u)
    BY <1>7, <1>8, <1>19, <1>20
  <2> HIDE DEF u
  <2> QED BY <1>15, <2>1, <2>2
<1> QED BY <1>21 DEF s, h, T

-----------------------------------------------------------------------------
(* The texts of the stages, as the printer writes them.                    *)

\* Induction on a sequence, from its end.
LEMMA ByTails ==
  ASSUME NEW X, NEW s \in Seq(X), NEW S, <<>> \in S,
         \A x \in X : \A r \in Seq(X) : r \in S => <<x>> \o r \in S
  PROVE  s \in S
<1> DEFINE n == Len(s)
           Good == {j \in 0..n : Drop(s, n - j) \in S}
<1>1. n \in Nat
  OBVIOUS
<1>2. 0 \in Good
  <2>1. n - 0 = n /\ 0 \in 0..n
    BY <1>1
  <2>2. Drop(s, n) = <<>>
    BY <1>1, SubSeqEmpty DEF Drop
  <2> HIDE DEF n
  <2> QED BY <2>1, <2>2
<1>3. ASSUME NEW j \in 1..n, j - 1 \in Good PROVE j \in Good
  <2> DEFINE i == (n - j) + 1
  <2>1. i \in 1..Len(s) /\ i - 1 = n - j /\ n - (j - 1) = i /\ j \in 0..n
    BY <1>1
  <2>2. Drop(s, n - (j - 1)) \in S
    BY <1>3
  <2> HIDE DEF n, i
  <2>3. Drop(s, i - 1) = <<s[i]>> \o Drop(s, i) /\ s[i] \in X /\ Drop(s, i) \in Seq(X)
    BY <2>1, DropCons
  <2>4. Drop(s, i) \in S
    BY <2>1, <2>2
  <2>5. <<s[i]>> \o Drop(s, i) \in S
    BY <2>3, <2>4
  <2> QED BY <2>1, <2>3, <2>5
<1> HIDE DEF Good
<1>4. \A j \in 0..n : j \in Good
  BY <1>1, <1>2, <1>3, Counting
<1>5. Drop(s, n - n) \in S
  <2>1. n \in Good
    BY <1>1, <1>4
  <2> QED BY <2>1 DEF Good
<1>6. n - n = 0 /\ Drop(s, 0) = s
  BY <1>1, SubSeqFull DEF Drop
<1> HIDE DEF n
<1> QED BY <1>5, <1>6

\* A sequence is empty or starts with something.
LEMMA ConsOf ==
  ASSUME NEW X, NEW s \in Seq(X), s # <<>>
  PROVE  \E x \in X, r \in Seq(X) : s = <<x>> \o r /\ Len(s) = Len(r) + 1 /\ Len(r) \in Nat
<1>1. /\ Head(s) \in X /\ Tail(s) \in Seq(X) /\ s = <<Head(s)>> \o Tail(s)
      /\ Len(s) \in Nat \ {0} /\ Len(Tail(s)) = Len(s) - 1
  BY HeadTail
<1>2. Len(s) = Len(Tail(s)) + 1 /\ Len(Tail(s)) \in Nat
  BY <1>1
<1> QED BY <1>1, <1>2, Zenon

LEMMA SnocOf ==
  ASSUME NEW X, NEW s \in Seq(X), s # <<>>
  PROVE  \E x \in X, r \in Seq(X) : s = Append(r, x) /\ r = Take(s, Len(s) - 1) /\ x = s[Len(s)]
<1> DEFINE n == Len(s)
<1>1. n \in 1..n /\ n \in Nat /\ n - 1 \in 0..n
  BY EmptySeq
<1>2. s[n] \in X /\ Take(s, n - 1) \in Seq(X)
  <2>1. s[n] \in X
    BY <1>1, ElementOfSeq
  <2>2. Take(s, n - 1) \in Seq(X)
    BY <1>1, Cut
  <2> QED BY <2>1, <2>2
<1>3. Append(Take(s, n - 1), s[n]) = Take(s, n)
  BY <1>1, CutOn
<1>4. Take(s, n) = s
  BY SubSeqFull DEF Take
<1> QED BY <1>2, <1>3, <1>4

\* The characters of words and of operators of redirection; with the blank, those of
\* the text of a stage.
Ink == WordChars \cup {"<", ">"}
Page == Ink \cup {Blank}
Inked == Seq(Ink) \ {<<>>}

LEMMA InkIs ==
  /\ Blank \notin Ink /\ "|" \notin Page /\ "&" \notin Page /\ Blank \in Page /\ Ink \subseteq Page
  /\ Page \subseteq Unpiped /\ Page \subseteq Plain /\ "|" \in Plain /\ "&" \in Plain
  /\ Blank \in Unpiped /\ Blank \in Plain
<1>1. "<" \in Operators /\ ">" \in Operators /\ "|" \in Operators /\ "&" \in Operators
  BY Zenon DEF Operators
<1>2. "|" # "<" /\ "|" # ">" /\ "&" # "<" /\ "&" # ">"
  OBVIOUS
<1>3. Blank \notin Operators
  BY Zenon DEF Blank, Operators
<1>4. Blank \notin Ink
  BY <1>1, <1>3, WordLetters DEF Ink
<1>5. "|" \notin Page /\ "&" \notin Page
  BY <1>1, <1>2, <1>3, WordLetters DEF Ink, Page
<1>6. Page \subseteq Plain
  BY <1>1, PlainChars DEF Ink, Page
<1> QED BY <1>1, <1>3, <1>4, <1>5, <1>6, PlainChars DEF Page, Unpiped

LEMMA InkedIs ==
  /\ Inked \subseteq Seq(Page) /\ Seq(Inked) \subseteq Seq(Seq(Page))
  /\ \A w \in Inked : /\ w \in Seq(Page) /\ w # <<>> /\ Len(w) \in Nat \ {0}
                      /\ \A i \in 1..Len(w) : w[i] \in Ink /\ w[i] # Blank
  /\ Words \subseteq Inked /\ RedirSymbols \subseteq Inked
<1>1. Seq(Ink) \subseteq Seq(Page)
  BY InkIs, SeqMonotonic
<1>2. Inked \subseteq Seq(Page)
  BY <1>1 DEF Inked
<1>3. Seq(Inked) \subseteq Seq(Seq(Page))
  BY <1>2, SeqMonotonic
<1>4. ASSUME NEW w \in Inked
      PROVE  /\ w \in Seq(Page) /\ w # <<>> /\ Len(w) \in Nat \ {0}
             /\ \A i \in 1..Len(w) : w[i] \in Ink /\ w[i] # Blank
  <2>1. w \in Seq(Ink) /\ w # <<>> /\ w \in Seq(Page)
    BY <1>2 DEF Inked
  <2>2. Len(w) \in Nat \ {0}
    BY <2>1, EmptySeq
  <2>3. \A i \in 1..Len(w) : w[i] \in Ink
    BY <2>1, ElementOfSeq
  <2> QED BY <2>1, <2>2, <2>3, InkIs
<1>5. Words \subseteq Inked
  <2>1. WordChars \subseteq Ink
    BY DEF Ink
  <2>2. Seq(WordChars) \subseteq Seq(Ink)
    BY <2>1, SeqMonotonic
  <2> QED BY <2>2 DEF Words, Inked
<1>6. RedirSymbols \subseteq Inked
  <2>1. "<" \in Ink /\ ">" \in Ink /\ "2" \in Ink
    <3>1. "2" \in WordChars
      BY Zenon DEF WordChars, NameChars
    <3> QED BY <3>1 DEF Ink
  <2> HIDE DEF Ink
  <2>2. RedirSymbols \subseteq Seq(Ink)
    BY <2>1 DEF RedirSymbols
  <2>3. <<>> \notin RedirSymbols
    BY DEF RedirSymbols
  <2> QED BY <2>2, <2>3 DEF Inked
<1> QED BY <1>2, <1>3, <1>4, <1>5, <1>6

\* The text of a stage: the words and operators with one blank between them.
Body(z) == IF z = <<>> THEN <<>> ELSE Take(Spaced(z), Len(Spaced(z)) - 1)
Gap(z) == IF z = <<>> THEN <<>> ELSE <<Blank>> \o Body(z)

LEMMA BodyIsThat ==
  ASSUME NEW z, z # <<>>, NEW a \in Seq(Page), Spaced(z) = a \o <<Blank>>
  PROVE  Body(z) = a
<1> DEFINE b == <<Blank>>
           s == a \o b
<1>1. b \in Seq(Page) /\ Len(b) = 1
  BY InkIs
<1> HIDE DEF b
<1>2. Len(s) = Len(a) + 1 /\ Take(s, Len(a)) = a /\ Len(a) \in Nat
  <2>1. Take(s, Len(a)) = a
    BY <1>1, Joined
  <2>2. Len(s) = Len(a) + Len(b)
    BY <1>1, ConcatProperties
  <2> HIDE DEF s
  <2> QED BY <1>1, <2>1, <2>2
<1>3. Len(s) - 1 = Len(a)
  BY <1>2
<1>4. Spaced(z) = s
  BY DEF b
<1> HIDE DEF s
<1> QED BY <1>2, <1>3, <1>4 DEF Body

LEMMA BodyIs ==
  ASSUME NEW z \in Seq(Inked)
  PROVE  /\ Body(z) \in Seq(Page)
         /\ z # <<>> => /\ Spaced(z) = Body(z) \o <<Blank>> /\ Body(z) # <<>>
                        /\ Len(Body(z)) \in Nat \ {0}
                        /\ Body(z)[1] # Blank /\ Body(z)[Len(Body(z))] # Blank
<1>1. CASE z = <<>>
  <2>1. <<>> \in Seq(Page)
    OBVIOUS
  <2> QED BY <1>1, <2>1 DEF Body
<1>2. CASE z # <<>>
  <2>1. PICK w \in Inked, y \in Seq(Inked) : z = Append(y, w)
    BY <1>2, SnocOf, Zenon
  <2> DEFINE a == Spaced(y)
             t == a \o w
             b == <<Blank>>
  <2>2. w \in Seq(Page) /\ y \in Seq(Seq(Page)) /\ Len(w) \in Nat \ {0} /\ w[Len(w)] # Blank /\ w # <<>>
    BY InkedIs
  <2>3. a \in Seq(Page) /\ b \in Seq(Page)
    BY <2>2, InkIs, SpacedIs
  <2>4. Spaced(z) = a \o (w \o b)
    <3> DEFINE B == Blanked(y)
               u == w \o b
    <3>1. \A i \in 1..Len(y) : Append(y[i], Blank) \in Seq(Page)
      <4> TAKE i \in 1..Len(y)
      <4>1. y[i] \in Seq(Page)
        BY <2>2, ElementOfSeq
      <4> QED BY <4>1, InkIs, AppendProperties
    <3>2. B \in Seq(Seq(Page)) /\ Len(B) = Len(y)
      <4> DEFINE e(i) == Append(y[i], Blank)
                 n == Len(y)
                 S == Seq(Page)
      <4>1. B = [i \in 1..n |-> e(i)] /\ n \in Nat
        BY <2>2 DEF Blanked
      <4>2. \A i \in 1..n : e(i) \in S
        BY <3>1
      <4> HIDE DEF e, B, n, S
      <4>3. B \in Seq(S) /\ Len(B) = n
        BY <4>1, <4>2
      <4> QED BY <4>3 DEF S, n
    <3>3. u = Append(w, Blank) /\ u \in Seq(Page)
      BY <2>2, InkIs, LastOf
    <3>4. Blanked(Append(y, w)) = Append(B, u)
      <4> DEFINE n == Len(y)
                 y1 == Append(y, w)
                 l == Blanked(y1)
                 r == Append(B, u)
      <4>1. n \in Nat /\ Len(y1) = n + 1 /\ DOMAIN y1 = 1..(n + 1) /\ y1[n + 1] = w /\ \A i \in 1..n : y1[i] = y[i]
        BY <2>2, AppendProperties
      <4>2. /\ Len(r) = n + 1 /\ DOMAIN r = 1..(n + 1) /\ r[n + 1] = u /\ \A i \in 1..n : r[i] = B[i]
            /\ r \in Seq(Seq(Page))
        BY <3>2, <3>3, AppendProperties
      <4>3. \A i \in 1..n : B[i] = Append(y[i], Blank)
        BY <2>2 DEF Blanked
      <4>4. l = [i \in 1..(n + 1) |-> Append(y1[i], Blank)]
        BY <4>1 DEF Blanked
      <4>5. r = [i \in 1..(n + 1) |-> r[i]]
        <5> HIDE DEF r
        <5> QED BY <4>2
      <4> HIDE DEF l, r, y1, n, u, B
      <4>6. \A i \in 1..(n + 1) : Append(y1[i], Blank) = r[i]
        <5> TAKE i \in 1..(n + 1)
        <5>1. CASE i = n + 1
          BY <3>3, <4>1, <4>2, <5>1
        <5>2. CASE i \in 1..n
          BY <4>1, <4>2, <4>3, <5>2
        <5> QED BY <4>1, <5>1, <5>2
      <4>7. l = r
        BY <4>4, <4>5, <4>6
      <4> QED BY <4>7 DEF l, r, y1
    <3>5. Spaced(z) = FlattenSeq(Append(B, u)) /\ a = FlattenSeq(B)
      <4>1. Spaced(z) = FlattenSeq(Blanked(z)) /\ a = FlattenSeq(B)
        BY DEF Spaced, Blanked
      <4> HIDE DEF B, u
      <4> QED BY <2>1, <3>4, <4>1
    <3> HIDE DEF B, u
    <3>6. FlattenSeq(Append(B, u)) = FlattenSeq(B) \o u
      BY <3>2, <3>3, FlattenAppend
    <3> QED BY <3>5, <3>6 DEF u
  <2>5. /\ t \in Seq(Page) /\ Len(t) = Len(a) + Len(w) /\ Len(a) \in Nat
        /\ \A i \in 1..(Len(a) + Len(w)) : t[i] = IF i <= Len(a) THEN a[i] ELSE w[i - Len(a)]
    <3> HIDE DEF a
    <3> QED BY <2>2, <2>3, ConcatProperties
  <2> HIDE DEF a
  <2>6. Spaced(z) = t \o b
    <3> HIDE DEF b
    <3> QED BY <2>2, <2>3, <2>4, ConcatAssociative
  <2>7. t[Len(t)] # Blank
    <3> DEFINE la == Len(a)
               lw == Len(w)
               k == la + lw
    <3>1. k \in 1..k /\ ~(k <= la) /\ k - la = lw
      BY <2>2, <2>5
    <3>2. t[k] = w[k - la]
      <4> HIDE DEF t
      <4> QED BY <2>5, <3>1
    <3> HIDE DEF t, k, la, lw
    <3> QED BY <2>2, <2>5, <3>1, <3>2 DEF k, la, lw
  <2>8. t # <<>> /\ Len(t) \in Nat \ {0}
    <3> HIDE DEF t
    <3>1. Len(t) \in Nat \ {0}
      BY <2>2, <2>5
    <3> QED BY <3>1
  <2> HIDE DEF t
  <2>9. Body(z) = t
    BY <1>2, <2>5, <2>6, BodyIsThat DEF b
  <2>10. t[1] # Blank
    <3>1. PICK v \in Inked, x \in Seq(Inked) : z = <<v>> \o x
      BY <1>2, ConsOf, Zenon
    <3> DEFINE c == v \o b
               d == Spaced(x)
    <3>2. v \in Seq(Page) /\ x \in Seq(Seq(Page)) /\ Len(v) \in Nat \ {0} /\ v[1] # Blank
      BY InkedIs
    <3>3. Spaced(z) = c \o d /\ c \in Seq(Page) /\ d \in Seq(Page)
      BY <3>1, <3>2, InkIs, SpacedCons
    <3>4. c[1] = v[1] /\ Len(c) \in Nat \ {0}
      <4>1. Len(v \o <<Blank>>) = Len(v) + 1 /\ \A i \in 1..Len(v) : (v \o <<Blank>>)[i] = v[i]
        BY <3>2, InkIs, LastOf
      <4>2. 1 \in 1..Len(v)
        BY <3>2
      <4> QED BY <3>2, <4>1, <4>2
    <3> HIDE DEF c, d
    <3>5. (c \o d)[1] = c[1]
      <4>1. 1 \in 1..(Len(c) + Len(d)) /\ 1 <= Len(c)
        BY <3>3, <3>4
      <4> QED BY <3>3, <4>1, ConcatProperties
    <3>6. (t \o b)[1] = t[1]
      <4>1. \A i \in 1..Len(t) : (t \o <<Blank>>)[i] = t[i]
        BY <2>5, InkIs, LastOf
      <4> QED BY <2>8, <4>1
    <3> QED BY <2>6, <3>2, <3>3, <3>4, <3>5, <3>6
  <2> QED BY <1>2, <2>5, <2>6, <2>7, <2>8, <2>9, <2>10
<1> QED BY <1>1, <1>2

\* The first word of a stage and what follows it.
LEMMA BodyCons ==
  ASSUME NEW w \in Inked, NEW z \in Seq(Inked)
  PROVE  /\ Body(<<w>> \o z) = w \o Gap(z) /\ <<w>> \o z \in Seq(Inked) /\ <<w>> \o z # <<>>
         /\ Gap(z) \in Seq(Page) /\ SkipBlanks(Gap(z)) = Body(z)
         /\ Gap(z) # <<>> => Head(Gap(z)) = Blank
<1> DEFINE b == <<Blank>>
           y == <<w>> \o z
           p == Body(z)
           g == Gap(z)
           S == Spaced(z)
<1>1. w \in Seq(Page) /\ z \in Seq(Seq(Page)) /\ b \in Seq(Page)
  BY InkIs, InkedIs
<1>2. y \in Seq(Inked) /\ y # <<>>
  BY FirstOf
<1>3. Spaced(y) = (w \o b) \o S /\ S \in Seq(Page)
  BY <1>1, InkIs, SpacedCons
<1>4. p \in Seq(Page) /\ (z # <<>> => S = p \o b /\ p # <<>> /\ p[1] # Blank)
  BY BodyIs
<1>5. z = <<>> => S = <<>> /\ p = <<>> /\ g = <<>>
  BY <1>1, InkIs, SpacedIs DEF Body, Gap
<1>6. z # <<>> => g = b \o p
  BY DEF Gap
<1> HIDE DEF y, p, g, S, b
<1>7. CASE z = <<>>
  <2>1. (w \o b) \o S = w \o b
    <3>1. w \o b \in Seq(Page)
      BY <1>1, ConcatProperties
    <3> DEFINE v == w \o b
    <3> HIDE DEF v
    <3>2. v \o <<>> = v
      BY <3>1, ConcatEmptySeq DEF v
    <3> QED BY <1>5, <1>7, <3>2 DEF v
  <2>2. Body(y) = w
    BY <1>1, <1>2, <1>3, <2>1, BodyIsThat DEF b
  <2>3. w \o g = w
    BY <1>1, <1>5, <1>7, ConcatEmptySeq
  <2>4. g \in Seq(Page) /\ g = <<>>
    BY <1>5, <1>7
  <2>5. SkipBlanks(g) = p
    <3>1. SkipBlanks(g) = g
      BY <2>4, SkipNone
    <3> QED BY <1>5, <1>7, <3>1
  <2> QED BY <1>2, <2>2, <2>3, <2>4, <2>5 DEF y, p, g
<1>8. CASE z # <<>>
  <2>1. g = b \o p /\ S = p \o b /\ p # <<>> /\ p[1] # Blank
    BY <1>4, <1>6, <1>8
  <2>2. g \in Seq(Page) /\ Head(g) = Blank /\ g # <<>>
    BY <1>4, <2>1, InkIs, FirstOf DEF b
  <2>3. SkipBlanks(g) = p
    <3>1. Head(p) # Blank
      BY <1>4, <2>1, HeadTail
    <3> QED BY <1>4, <2>1, <3>1, InkIs, SkipOne DEF b
  <2> DEFINE t == w \o g
  <2>4. t \in Seq(Page)
    BY <1>1, <2>2, ConcatProperties
  <2>5. Spaced(y) = t \o b
    <3>1. (w \o b) \o (p \o b) = w \o (b \o (p \o b))
      <4>1. p \o b \in Seq(Page)
        BY <1>1, <1>4, ConcatProperties
      <4> QED BY <1>1, <4>1, ConcatAssociative
    <3>2. b \o (p \o b) = g \o b
      BY <1>1, <1>4, <2>1, ConcatAssociative
    <3>3. w \o (g \o b) = (w \o g) \o b
      BY <1>1, <2>2, ConcatAssociative
    <3> QED BY <1>3, <2>1, <3>1, <3>2, <3>3
  <2> HIDE DEF t
  <2>6. Body(y) = t
    BY <1>2, <2>4, <2>5, BodyIsThat DEF b
  <2> QED BY <1>2, <2>2, <2>3, <2>6 DEF y, p, g, t
<1> QED BY <1>7, <1>8

LEMMA SpacedJoined ==
  ASSUME NEW X, Blank \in X, NEW a \in Seq(Seq(X)), NEW z \in Seq(Seq(X))
  PROVE  Spaced(a \o z) = Spaced(a) \o Spaced(z)
<1> DEFINE W == Seq(X)
           Good == {q \in Seq(W) : Spaced(q \o z) = Spaced(q) \o Spaced(z)}
<1> HIDE DEF W
<1>1. a \in Seq(W) /\ z \in Seq(W)
  BY DEF W
<1>2. \A q \in Seq(W) : Spaced(q) \in Seq(X) /\ (q = <<>> => Spaced(q) = <<>>)
  BY SpacedIs DEF W
<1>3. <<>> \in Good
  <2> DEFINE e == <<>>
  <2>1. e \in Seq(W) /\ e = <<>>
    OBVIOUS
  <2> HIDE DEF e
  <2>2. e \o z = z /\ Spaced(e) = e
    BY <1>1, <1>2, <2>1, ConcatEmptySeq
  <2> DEFINE s == Spaced(z)
  <2>3. s \in Seq(X)
    BY <1>1, <1>2
  <2> HIDE DEF s
  <2>4. e \o s = s
    BY <2>1, <2>3, ConcatEmptySeq
  <2>5. Spaced(e \o z) = Spaced(e) \o Spaced(z)
    BY <2>2, <2>4 DEF s
  <2> QED BY <2>1, <2>5
<1>4. ASSUME NEW x \in W, NEW r \in Seq(W), r \in Good PROVE <<x>> \o r \in Good
  <2> DEFINE c == x \o <<Blank>>
             d == <<x>>
             u == Spaced(r)
             s == Spaced(z)
  <2>1. x \in Seq(X) /\ r \in Seq(Seq(X))
    BY DEF W
  <2>2. Spaced(d \o r) = c \o u /\ c \in Seq(X)
    BY <2>1, SpacedCons
  <2>3. d \in Seq(W) /\ d \o r \in Seq(W)
    BY FirstOf
  <2>4. r \o z \in Seq(W)
    BY <1>1, ConcatProperties
  <2>5. Spaced(d \o (r \o z)) = c \o Spaced(r \o z)
    <3>1. r \o z \in Seq(Seq(X))
      BY <2>4 DEF W
    <3> QED BY <2>1, <3>1, SpacedCons
  <2>6. Spaced(r \o z) = u \o s
    BY <1>4
  <2>7. u \in Seq(X) /\ s \in Seq(X)
    BY <1>1, <1>2
  <2> HIDE DEF c, d, u, s, Good
  <2>8. (d \o r) \o z = d \o (r \o z)
    BY <1>1, <2>3, ConcatAssociative
  <2>9. c \o (u \o s) = (c \o u) \o s
    BY <2>2, <2>7, ConcatAssociative
  <2>10. Spaced((d \o r) \o z) = Spaced(d \o r) \o s
    BY <2>2, <2>5, <2>6, <2>8, <2>9
  <2> QED BY <2>3, <2>10 DEF Good, s, d
<1> HIDE DEF Good
<1>5. a \in Good
  BY <1>1, <1>3, <1>4, ByTails
<1> QED BY <1>5 DEF Good

\* A redirection is an operator and a file name.
Pairs == RedirSymbols \X Words

LEMMA PairIs ==
  ASSUME NEW r \in Pairs
  PROVE  r = <<r[1], r[2]>> /\ r[1] \in RedirSymbols /\ r[2] \in Words /\ r \in Seq(Inked)
<1>1. r = <<r[1], r[2]>> /\ r[1] \in RedirSymbols /\ r[2] \in Words
  BY DEF Pairs
<1>2. r[1] \in Inked /\ r[2] \in Inked
  BY <1>1, InkedIs
<1>3. <<r[1], r[2]>> \in Seq(Inked)
  BY <1>2
<1> QED BY <1>1, <1>3

LEMMA PairsAre ==
  ASSUME NEW u \in Seq(Pairs)
  PROVE  u \in Seq(Seq(Inked)) /\ FlattenSeq(u) \in Seq(Inked)
<1>1. Pairs \subseteq Seq(Inked)
  BY PairIs
<1>2. u \in Seq(Seq(Inked))
  BY <1>1, SeqMonotonic
<1> QED BY <1>2, Flattened

LEMMA PrintRedirCons ==
  ASSUME NEW r \in Pairs, NEW u \in Seq(Pairs)
  PROVE  PrintRedir(<<r>> \o u) = Spaced(r) \o PrintRedir(u)
<1> DEFINE S == Seq(Page)
           n == Len(u)
           a == <<r>> \o u
           e(i) == Spaced(u[i])
           f(i) == Spaced(a[i])
           E == [i \in 1..n |-> e(i)]
           F == [i \in 1..(n + 1) |-> f(i)]
           G == <<Spaced(r)>> \o E
<1>1. \A x \in Pairs : Spaced(x) \in S
  <2> TAKE x \in Pairs
  <2>1. x \in Seq(Seq(Page))
    BY PairIs, InkedIs
  <2> QED BY <2>1, InkIs, SpacedIs
<1>2. n \in Nat /\ DOMAIN u = 1..n /\ \A i \in 1..n : u[i] \in Pairs
  OBVIOUS
<1>3. Len(a) = n + 1 /\ DOMAIN a = 1..(n + 1) /\ a[1] = r /\ \A i \in 1..n : a[i + 1] = u[i]
  <2>1. <<r>> \in Seq(Pairs)
    OBVIOUS
  <2> DEFINE d == <<r>>
  <2>2. Len(d) = 1 /\ d[1] = r
    OBVIOUS
  <2> HIDE DEF d
  <2>3. /\ d \o u \in Seq(Pairs) /\ Len(d \o u) = Len(d) + Len(u)
        /\ \A i \in 1..(Len(d) + Len(u)) : (d \o u)[i] = IF i <= Len(d) THEN d[i] ELSE u[i - Len(d)]
    BY <2>1, ConcatProperties DEF d
  <2> DEFINE x == d \o u
  <2> HIDE DEF x
  <2>4. x \in Seq(Pairs) /\ Len(x) = 1 + n /\ x[1] = r
    BY <1>2, <2>2, <2>3 DEF x
  <2>5. ASSUME NEW i \in 1..n PROVE x[i + 1] = u[i]
    <3>1. i + 1 \in 1..(Len(d) + Len(u)) /\ ~(i + 1 <= Len(d)) /\ (i + 1) - Len(d) = i
      BY <1>2, <2>2
    <3> QED BY <2>3, <3>1 DEF x
  <2>6. DOMAIN x = 1..(n + 1) /\ Len(x) = n + 1
    BY <1>2, <2>4
  <2> QED BY <2>4, <2>5, <2>6 DEF x, d
<1>4. PrintRedir(u) = FlattenSeq(E) /\ PrintRedir(a) = FlattenSeq(F)
  <2> HIDE DEF a
  <2> QED BY <1>2, <1>3, Zenon DEF PrintRedir
<1>5. E \in Seq(S) /\ Len(E) = n
  <2>1. \A i \in 1..n : e(i) \in S
    BY <1>1, <1>2
  <2> HIDE DEF e, S, n
  <2> QED BY <1>2, <2>1
<1>6. Spaced(r) \in S
  BY <1>1
<1>7. F = G
  <2> DEFINE s == Spaced(r)
             d == <<s>>
             x == d \o E
  <2>1. d \in Seq(S) /\ Len(d) = 1 /\ d[1] = s
    <3> HIDE DEF S, s
    <3> QED BY <1>6 DEF s
  <2> HIDE DEF E, F, S, d, s
  <2>2. /\ d \o E \in Seq(S) /\ Len(d \o E) = Len(d) + Len(E)
        /\ \A i \in 1..(Len(d) + Len(E)) : (d \o E)[i] = IF i <= Len(d) THEN d[i] ELSE E[i - Len(d)]
    BY <1>5, <2>1, ConcatProperties
  <2> HIDE DEF x
  <2>3. x \in Seq(S) /\ Len(x) = n + 1 /\ \A i \in 1..(n + 1) : x[i] = IF i <= 1 THEN d[i] ELSE E[i - 1]
    BY <1>2, <1>5, <2>1, <2>2 DEF x
  <2>4. x = [i \in 1..(n + 1) |-> x[i]]
    BY <1>2, <2>3
  <2>5. \A i \in 1..(n + 1) : x[i] = f(i)
    <3> TAKE i \in 1..(n + 1)
    <3>1. CASE i = 1
      BY <1>2, <1>3, <2>1, <2>3, <3>1 DEF s
    <3>2. CASE i # 1
      <4>1. i - 1 \in 1..n /\ ~(i <= 1) /\ (i - 1) + 1 = i
        BY <1>2, <3>2
      <4>2. a[i] = u[i - 1]
        <5>1. a[(i - 1) + 1] = u[i - 1]
          BY <1>3, <4>1
        <5> QED BY <4>1, <5>1
      <4>3. E[i - 1] = e(i - 1)
        BY <4>1 DEF E
      <4> HIDE DEF a
      <4> QED BY <2>3, <4>1, <4>2, <4>3
    <3> QED BY <3>1, <3>2
  <2> HIDE DEF f
  <2>6. F = x
    BY <2>4, <2>5 DEF F
  <2> QED BY <2>6 DEF x, d, s
<1> HIDE DEF E, F, a
<1>8. FlattenSeq(G) = Spaced(r) \o FlattenSeq(E)
  BY <1>5, <1>6, FlattenCons
<1> QED BY <1>4, <1>7, <1>8 DEF a

\* The redirections are printed as their operators and file names are.
LEMMA PrintRedirIs ==
  ASSUME NEW u \in Seq(Pairs)
  PROVE  PrintRedir(u) = Spaced(FlattenSeq(u)) /\ PrintRedir(u) \in Seq(Page)
<1> DEFINE Good == {x \in Seq(Pairs) : PrintRedir(x) = Spaced(FlattenSeq(x))}
<1>1. <<>> \in Good
  <2> DEFINE z == <<>>
  <2>1. z \in Seq(Pairs) /\ z \in Seq(Seq(Page)) /\ z = <<>> /\ z \in Seq(Seq(Inked))
    OBVIOUS
  <2>2. PrintRedir(z) = FlattenSeq(z)
    <3> DEFINE f == [i \in DOMAIN <<>> |-> Spaced(<<>>[i])]
    <3>1. PrintRedir(<<>>) = FlattenSeq(f)
      BY Zenon DEF PrintRedir
    <3>2. f = <<>>
      OBVIOUS
    <3> QED BY <3>1, <3>2
  <2> HIDE DEF z
  <2>3. FlattenSeq(z) = z
    BY <2>1, Flattened
  <2>4. Spaced(z) = <<>>
    BY <2>1, InkIs, SpacedIs
  <2> QED BY <2>1, <2>2, <2>3, <2>4
<1>2. ASSUME NEW r \in Pairs, NEW x \in Seq(Pairs), x \in Good PROVE <<r>> \o x \in Good
  <2> DEFINE F == FlattenSeq(x)
             y == <<r>> \o x
  <2>1. r \in Seq(Inked) /\ x \in Seq(Seq(Inked)) /\ F \in Seq(Inked)
    BY PairIs, PairsAre
  <2>2. FlattenSeq(y) = r \o F
    BY <2>1, FlattenCons
  <2>3. PrintRedir(y) = Spaced(r) \o PrintRedir(x)
    BY PrintRedirCons
  <2>4. PrintRedir(x) = Spaced(F)
    BY <1>2
  <2>5. y \in Seq(Pairs)
    BY FirstOf
  <2> HIDE DEF F, y, Good
  <2>6. Spaced(r \o F) = Spaced(r) \o Spaced(F)
    <3>1. r \in Seq(Seq(Page)) /\ F \in Seq(Seq(Page))
      BY <2>1, InkedIs
    <3> QED BY <3>1, InkIs, SpacedJoined
  <2> QED BY <2>2, <2>3, <2>4, <2>5, <2>6 DEF Good, y
<1> HIDE DEF Good
<1>3. u \in Good
  BY <1>1, <1>2, ByTails
<1>4. Spaced(FlattenSeq(u)) \in Seq(Page)
  <2>1. FlattenSeq(u) \in Seq(Seq(Page))
    BY PairsAre, InkedIs
  <2> QED BY <2>1, InkIs, SpacedIs
<1> QED BY <1>3, <1>4 DEF Good
-----------------------------------------------------------------------------
(* What the scanners see of a printed line: its stages, cut at its bars.   *)

Bar == Spaced(<< <<"|">> >>)
\* The line that is made of the texts y of its stages.
Lines(y) == FlattenSeq([i \in DOMAIN y |-> (IF i = 1 THEN <<>> ELSE Bar) \o y[i]])

LEMMA BarIs ==
  Bar = <<"|">> \o <<Blank>> /\ Bar \in Seq(Plain) /\ <<"|">> \in Seq(Plain) /\ <<Blank>> \in Seq(Unpiped)
<1> DEFINE c == <<"|">>
           z == <<>>
<1>1. c \in Seq(Plain) /\ z \in Seq(Seq(Plain))
  BY InkIs
<1> HIDE DEF z
<1>2. Spaced(<<c>>) = c \o <<Blank>> /\ c \o <<Blank>> \in Seq(Plain)
  BY <1>1, InkIs, SpacedCons
<1>3. <<Blank>> \in Seq(Unpiped)
  BY InkIs
<1> QED BY <1>1, <1>2, <1>3 DEF Bar

Regroups(X) == \A x, y, z \in Seq(X) : (x \o y) \o z = x \o (y \o z)

LEMMA Regrouped ==
  ASSUME NEW X PROVE Regroups(X)
<1>1. ASSUME NEW x \in Seq(X), NEW y \in Seq(X), NEW z \in Seq(X)
      PROVE  (x \o y) \o z = x \o (y \o z)
  BY ConcatAssociative
<1> QED BY <1>1 DEF Regroups

\* One piece, and what is still behind the bar.
LEMMA PieceAtBar ==
  ASSUME NEW a \in Seq({Blank}), NEW t \in Seq(Unpiped), NEW b \in Seq({Blank}), t # <<>>,
         t[1] # Blank, t[Len(t)] # Blank
  PROVE  /\ Pieces(a \o (t \o b)) = <<t>>
         /\ \A r \in Seq(Plain) : Pieces(a \o ((t \o b) \o (Bar \o r))) = <<t>> \o Pieces(<<Blank>> \o r)
<1>0. \A x, y, z \in Seq(Plain) : (x \o y) \o z = x \o (y \o z)
  BY Regrouped DEF Regroups
<1> DEFINE k == <<Blank>>
           c == <<"|">>
           v == t \o b
           u == a \o v
<1>1. a \in Seq(Unpiped) /\ b \in Seq(Unpiped)
  <2>1. {Blank} \subseteq Unpiped
    BY InkIs
  <2> QED BY <2>1, SeqMonotonic
<1>2. v \in Seq(Unpiped)
  BY <1>1, ConcatProperties
<1>3. u \in Seq(Unpiped)
  BY <1>1, <1>2, ConcatProperties
<1>4. Trim(u) = t
  BY InkIs, TrimTo
<1>5. /\ Bar = c \o k /\ c \in Seq(Plain) /\ k \in Seq(Plain) /\ Bar \in Seq(Plain)
      /\ a \in Seq(Plain) /\ v \in Seq(Plain)
  BY <1>1, <1>2, BarIs, UnpipedIsPlain
<1> HIDE DEF k, c, u, v
<1>6. Pieces(u) = <<t>>
  BY <1>3, <1>4, OnePiece
<1>7. ASSUME NEW r \in Seq(Plain)
      PROVE  Pieces(a \o (v \o (Bar \o r))) = <<t>> \o Pieces(k \o r)
  <2> DEFINE x == k \o r
  <2>1. x \in Seq(Plain)
    BY <1>5, ConcatProperties
  <2>2. Bar \o r = c \o x
    <3>1. c \in Seq(Plain) /\ k \in Seq(Plain) /\ r \in Seq(Plain)
      BY <1>5
    <3>2. (c \o k) \o r = c \o (k \o r)
      BY <3>1, <1>0, Zenon
    <3> QED BY <1>5, <3>2
  <2>3. u \in Seq(Plain)
    BY <1>3, UnpipedIsPlain
  <2> HIDE DEF x
  <2> DEFINE y == c \o x
  <2>4. y \in Seq(Plain)
    BY <1>5, <2>1, ConcatProperties
  <2>5. (u \o c) \o x = u \o y
    <3>1. c \in Seq(Plain)
      BY <1>5
    <3> QED BY <2>1, <2>3, <3>1, <1>0, Zenon
  <2> HIDE DEF y
  <2>6. (a \o v) \o y = a \o (v \o y)
    <3>1. a \in Seq(Plain) /\ v \in Seq(Plain)
      BY <1>5
    <3> QED BY <2>4, <3>1, <1>0, Zenon
  <2>7. Pieces((u \o c) \o x) = <<Trim(u)>> \o Pieces(x)
    BY <1>3, <2>1, PiecesJoined DEF c
  <2>8. a \o (v \o (Bar \o r)) = (u \o c) \o x
    BY <2>2, <2>5, <2>6, Zenon DEF u, y
  <2> QED BY <1>4, <2>7, <2>8 DEF x
<1> QED BY <1>6, <1>7 DEF u, v, k

LEMMA PiecesOfLines ==
  ASSUME NEW B \in Seq(Seq(Unpiped)), NEW y \in Seq(Seq(Unpiped)), Len(y) = Len(B), y # <<>>,
         \A i \in 1..Len(y) : /\ B[i] # <<>> /\ B[i][1] # Blank /\ B[i][Len(B[i])] # Blank
                              /\ \E b \in Seq({Blank}) : y[i] = B[i] \o b
  PROVE  Pieces(Lines(y)) = B /\ Lines(y) \in Seq(Plain)
<1>0. \A a, b, c \in Seq(Plain) : (a \o b) \o c = a \o (b \o c)
  <2>1. Regroups(Plain)
    BY Regrouped, Zenon
  <2> QED BY <2>1, Zenon DEF Regroups
<1> DEFINE n == Len(y)
           S == Seq(Plain)
           e(i) == (IF i = 1 THEN <<>> ELSE Bar) \o y[i]
           E == [i \in 1..n |-> e(i)]
           F(i) == FlattenSeq(Drop(E, i))
           At(i) == \A a \in Seq({Blank}) : Pieces(a \o (y[i] \o F(i))) = Drop(B, i - 1)
           Good == {j \in 0..(n - 1) : At(n - j)}
<1>1. n \in Nat \ {0} /\ DOMAIN y = 1..n /\ Len(B) = n
  BY EmptySeq
<1>2. ASSUME NEW i \in 1..n
      PROVE  y[i] \in Seq(Unpiped) /\ B[i] \in Seq(Unpiped) /\ y[i] \in S
  <2> DEFINE U == Seq(Unpiped)
  <2>1. y \in Seq(U) /\ B \in Seq(U) /\ i \in 1..Len(y) /\ i \in 1..Len(B)
    BY <1>1
  <2> HIDE DEF U, n
  <2>2. y[i] \in U /\ B[i] \in U
    BY <2>1, ElementOfSeq
  <2> QED BY <2>2, UnpipedIsPlain DEF U
<1>3. ASSUME NEW i \in 1..n PROVE E[i] = e(i) /\ e(i) \in S
  <2>1. <<>> \in Seq(Plain) /\ Bar \in Seq(Plain) /\ y[i] \in Seq(Plain)
    BY <1>2, BarIs
  <2> DEFINE l == IF i = 1 THEN <<>> ELSE Bar
             v == y[i]
  <2>2. l \in Seq(Plain) /\ v \in Seq(Plain)
    BY <2>1
  <2> HIDE DEF l, v
  <2>3. l \o v \in Seq(Plain)
    BY <2>2, ConcatProperties
  <2> QED BY <2>3 DEF l, v
<1>4. E \in Seq(S) /\ Len(E) = n
  <2>1. \A i \in 1..n : e(i) \in S
    BY <1>3
  <2>2. n \in Nat
    BY <1>1
  <2> HIDE DEF e, S, n
  <2> QED BY <2>1, <2>2
<1>5. Lines(y) = FlattenSeq(E)
  BY <1>1, Zenon DEF Lines
<1> HIDE DEF E
<1>6. ASSUME NEW i \in 0..n PROVE F(i) \in S
  <2>1. Drop(E, i) \in Seq(S)
    <3> HIDE DEF S
    <3> QED BY <1>4, Cut
  <2> QED BY <2>1, Flattened
<1>7. ASSUME NEW i \in 1..n PROVE F(i - 1) = e(i) \o F(i)
  <2> DEFINE D == Drop(E, i)
             x == E[i]
  <2>1. Drop(E, i - 1) = <<x>> \o D /\ x \in S /\ D \in Seq(S)
    <3> HIDE DEF S
    <3> QED BY <1>4, DropCons
  <2> HIDE DEF D, x
  <2>2. FlattenSeq(<<x>> \o D) = x \o FlattenSeq(D)
    BY <2>1, FlattenCons
  <2>3. x = e(i)
    BY <1>3 DEF x
  <2> HIDE DEF e
  <2> QED BY <2>1, <2>2, <2>3 DEF D
<1>8. F(n) = <<>>
  <2> DEFINE D == Drop(E, n)
  <2>1. D = <<>> /\ D \in Seq(S)
    <3>1. Drop(E, Len(E)) = <<>>
      <4>1. Len(E) \in 1..Len(E)
        BY <1>1, <1>4
      <4> HIDE DEF S
      <4> QED BY <1>4, <4>1, DropCons
    <3>2. <<>> \in Seq(S)
      OBVIOUS
    <3> HIDE DEF S
    <3> QED BY <1>4, <3>1, <3>2
  <2> HIDE DEF D
  <2>2. FlattenSeq(D) = <<>>
    BY <2>1, Flattened
  <2> QED BY <2>2 DEF D
<1>9. ASSUME NEW i \in 1..n
      PROVE  \E b \in Seq({Blank}) :
               y[i] = B[i] \o b /\ B[i] # <<>> /\ B[i][1] # Blank /\ B[i][Len(B[i])] # Blank
  <2> HIDE DEF F, E, e, S, Good
  <2> QED OBVIOUS
<1>10. ASSUME NEW i \in 1..n PROVE Drop(B, i - 1) = <<B[i]>> \o Drop(B, i) /\ Drop(B, n) = <<>>
  <2> DEFINE U == Seq(Unpiped)
  <2>1. B \in Seq(U) /\ i \in 1..Len(B)
    BY <1>1
  <2> HIDE DEF U
  <2>2. Drop(B, i - 1) = <<B[i]>> \o Drop(B, i) /\ Drop(B, Len(B)) = <<>>
    BY <2>1, DropCons
  <2> QED BY <1>1, <2>2
<1>11. At(n)
  <2> SUFFICES ASSUME NEW a \in Seq({Blank}) PROVE Pieces(a \o (y[n] \o F(n))) = Drop(B, n - 1)
    OBVIOUS
  <2>1. n \in 1..n
    BY <1>1
  <2> DEFINE t == B[n]
             v == y[n]
             f == F(n)
  <2>2. PICK b \in Seq({Blank}) : v = t \o b /\ t # <<>> /\ t[1] # Blank /\ t[Len(t)] # Blank
    BY <1>9, <2>1
  <2>3. t \in Seq(Unpiped) /\ v \in Seq(Unpiped) /\ f = <<>>
    BY <1>2, <1>8, <2>1
  <2>4. Drop(B, n - 1) = <<t>> \o Drop(B, n) /\ Drop(B, n) = <<>>
    BY <1>10, <2>1
  <2>5. <<t>> \o <<>> = <<t>>
    <3> DEFINE x == <<t>>
    <3>1. x \in Seq(Seq(Unpiped))
      BY <2>3
    <3> HIDE DEF x
    <3>2. x \o <<>> = x
      BY <3>1, ConcatEmptySeq
    <3> QED BY <3>2 DEF x
  <2> HIDE DEF t, v, f
  <2>6. v \o f = v
    BY <2>3, ConcatEmptySeq
  <2>7. Pieces(a \o (t \o b)) = <<t>>
    BY <2>2, <2>3, PieceAtBar
  <2>8. Pieces(a \o (v \o f)) = <<t>>
    BY <2>2, <2>6, <2>7
  <2> HIDE DEF F
  <2> QED BY <2>4, <2>5, <2>8 DEF v, f
<1>12. ASSUME NEW i \in 1..(n - 1), At(i + 1) PROVE At(i)
  <2> SUFFICES ASSUME NEW a \in Seq({Blank}) PROVE Pieces(a \o (y[i] \o F(i))) = Drop(B, i - 1)
    OBVIOUS
  <2>1. i \in 1..n /\ i + 1 \in 1..n /\ (i + 1) - 1 = i /\ i + 1 # 1 /\ i + 1 \in 0..n
    BY <1>1
  <2> DEFINE t == B[i]
             v == y[i]
             w == y[i + 1]
             f == F(i + 1)
             r == w \o f
  <2>2. PICK b \in Seq({Blank}) : v = t \o b /\ t # <<>> /\ t[1] # Blank /\ t[Len(t)] # Blank
    BY <1>9, <2>1
  <2>3. t \in Seq(Unpiped) /\ w \in S /\ f \in S
    BY <1>2, <1>6, <2>1
  <2>4. F(i) = (Bar \o w) \o f
    <3>1. F((i + 1) - 1) = e(i + 1) \o F(i + 1)
      BY <1>7, <2>1
    <3>2. e(i + 1) = Bar \o w
      BY <2>1
    <3> HIDE DEF F, e
    <3> QED BY <2>1, <3>1, <3>2
  <2>5. <<Blank>> \in Seq({Blank})
    OBVIOUS
  <2>6. Pieces(<<Blank>> \o r) = Drop(B, i)
    <3>1. Pieces(<<Blank>> \o (y[i + 1] \o F(i + 1))) = Drop(B, (i + 1) - 1)
      BY <1>12, <2>5
    <3> HIDE DEF F
    <3> QED BY <2>1, <3>1
  <2>7. Drop(B, i - 1) = <<t>> \o Drop(B, i)
    BY <1>10, <2>1
  <2> HIDE DEF t, v, w, f, S
  <2>8. (Bar \o w) \o f = Bar \o r
    <3>1. Bar \in Seq(Plain) /\ w \in Seq(Plain) /\ f \in Seq(Plain)
      BY <2>3, BarIs DEF S
    <3> QED BY <3>1, <1>0, Zenon
  <2>9. r \in Seq(Plain)
    BY <2>3, ConcatProperties DEF S
  <2> HIDE DEF r
  <2>10. Pieces(a \o ((t \o b) \o (Bar \o r))) = <<t>> \o Pieces(<<Blank>> \o r)
    BY <2>2, <2>3, <2>9, PieceAtBar
  <2> HIDE DEF F
  <2>11. Pieces(a \o (v \o F(i))) = <<t>> \o Drop(B, i)
    BY <2>2, <2>4, <2>6, <2>8, <2>10
  <2> QED BY <2>7, <2>11 DEF v
<1> HIDE DEF At
<1>13. 0 \in Good
  <2>1. 0 \in 0..(n - 1) /\ n - 0 = n
    BY <1>1
  <2> QED BY <1>11, <2>1
<1>14. ASSUME NEW j \in 1..(n - 1), j - 1 \in Good PROVE j \in Good
  <2> DEFINE i == n - j
  <2>1. i \in 1..(n - 1) /\ n - (j - 1) = i + 1 /\ j \in 0..(n - 1)
    BY <1>1
  <2>2. At(i + 1)
    BY <1>14, <2>1
  <2>3. At(i)
    <3> HIDE DEF i
    <3> QED BY <1>12, <2>1, <2>2
  <2> QED BY <2>1, <2>3
<1> HIDE DEF Good
<1>15. \A j \in 0..(n - 1) : j \in Good
  <2>1. n - 1 \in Nat
    BY <1>1
  <2> HIDE DEF n
  <2> DEFINE m == n - 1
  <2> HIDE DEF m
  <2>2. \A j \in 0..m : j \in Good
    BY <1>13, <1>14, <2>1, Counting DEF m
  <2> QED BY <2>2 DEF m
<1>16. At(1)
  <2>1. n - 1 \in Good /\ n - (n - 1) = 1
    BY <1>1, <1>15
  <2> QED BY <2>1 DEF Good
<1>17. Lines(y) = y[1] \o F(1)
  <2>1. 1 \in 1..n /\ 1 - 1 = 0
    BY <1>1
  <2>2. F(0) = e(1) \o F(1)
    BY <1>7, <2>1
  <2>3. Drop(E, 0) = E
    BY <1>4, SubSeqFull DEF Drop
  <2>4. e(1) = y[1]
    <3> DEFINE v == y[1]
    <3>1. v \in S
      BY <1>2, <2>1
    <3> HIDE DEF v
    <3>2. <<>> \o v = v
      BY <3>1, ConcatEmptySeq
    <3> QED BY <3>2 DEF v
  <2>5. F(0) = FlattenSeq(E)
    BY <2>3
  <2> HIDE DEF F, e
  <2> QED BY <1>5, <2>2, <2>4, <2>5
<1>18. Pieces(y[1] \o F(1)) = B
  <2> DEFINE a == <<>>
             x == y[1] \o F(1)
             v == y[1]
             f == F(1)
  <2>1. a \in Seq({Blank}) /\ a = <<>>
    OBVIOUS
  <2>2. Pieces(a \o x) = Drop(B, 1 - 1)
    BY <1>16, <2>1 DEF At
  <2>3. v \in Seq(Plain) /\ f \in Seq(Plain)
    <3>1. 1 \in 1..n /\ 1 \in 0..n
      BY <1>1
    <3> QED BY <1>2, <1>6, <3>1
  <2>4. x \in Seq(Plain)
    <3> HIDE DEF v, f
    <3>1. v \o f \in Seq(Plain)
      BY <2>3, ConcatProperties
    <3> QED BY <3>1 DEF v, f
  <2> HIDE DEF a, x
  <2>5. a \o x = x
    BY <2>1, <2>4, ConcatEmptySeq
  <2>6. Drop(B, 1 - 1) = B
    <3>1. Drop(B, 0) = B
      BY SubSeqFull DEF Drop
    <3> QED BY <3>1
  <2> QED BY <2>2, <2>5, <2>6 DEF x
<1>19. Lines(y) \in Seq(Plain)
  BY <1>4, <1>5, Flattened
<1> QED BY <1>17, <1>18, <1>19

LEMMA LinesAre ==
  ASSUME NEW X, Bar \in Seq(X), NEW y \in Seq(Seq(X))
  PROVE  Lines(y) \in Seq(X)
<1> DEFINE S == Seq(X)
           n == Len(y)
           e(i) == (IF i = 1 THEN <<>> ELSE Bar) \o y[i]
           E == [i \in 1..n |-> e(i)]
<1>1. n \in Nat /\ DOMAIN y = 1..n /\ \A i \in 1..n : y[i] \in S
  <2> HIDE DEF S
  <2>1. y \in Seq(S)
    BY DEF S
  <2> QED BY <2>1
<1>2. ASSUME NEW i \in 1..n PROVE e(i) \in S
  <2> DEFINE l == IF i = 1 THEN <<>> ELSE Bar
             v == y[i]
  <2>1. l \in Seq(X) /\ v \in Seq(X)
    BY <1>1
  <2> HIDE DEF l, v
  <2>2. l \o v \in Seq(X)
    BY <2>1, ConcatProperties
  <2> QED BY <2>2 DEF l, v
<1>3. Lines(y) = FlattenSeq(E)
  BY <1>1, Zenon DEF Lines
<1>4. E \in Seq(S)
  <2>1. \A i \in 1..n : e(i) \in S
    BY <1>2
  <2> HIDE DEF e, S, n
  <2> QED BY <1>1, <2>1
<1> HIDE DEF E
<1> QED BY <1>3, <1>4, Flattened

\* What is appended to the last stage is appended to the line.
LEMMA LinesLast ==
  ASSUME NEW X, Bar \in Seq(X), NEW x \in Seq(Seq(X)), x # <<>>, NEW v \in Seq(X),
         NEW y \in Seq(Seq(X)), Len(y) = Len(x), \A i \in 1..(Len(x) - 1) : y[i] = x[i],
         y[Len(x)] = x[Len(x)] \o v
  PROVE  Lines(y) = Lines(x) \o v
<1>0. \A a, b, c \in Seq(X) : (a \o b) \o c = a \o (b \o c)
  <2>1. Regroups(X)
    BY Regrouped, Zenon
  <2> QED BY <2>1, Zenon DEF Regroups
<1> DEFINE S == Seq(X)
           n == Len(x)
           l(i) == IF i = 1 THEN <<>> ELSE Bar
           e(i) == l(i) \o x[i]
           f(i) == l(i) \o y[i]
           E == [i \in 1..n |-> e(i)]
           F == [i \in 1..n |-> f(i)]
<1>1. n \in Nat \ {0} /\ DOMAIN x = 1..n /\ DOMAIN y = 1..n
  BY EmptySeq
<1>2. ASSUME NEW i \in 1..n PROVE x[i] \in S /\ y[i] \in S /\ l(i) \in S
  <2>1. x \in Seq(S) /\ y \in Seq(S)
    OBVIOUS
  <2>2. l(i) \in S
    OBVIOUS
  <2> HIDE DEF S, l
  <2> QED BY <1>1, <2>1, <2>2
<1>3. ASSUME NEW i \in 1..n PROVE e(i) \in S /\ f(i) \in S
  <2> DEFINE a == x[i]
             b == y[i]
             c == l(i)
  <2>1. a \in Seq(X) /\ b \in Seq(X) /\ c \in Seq(X)
    BY <1>2
  <2> HIDE DEF a, b, c
  <2>2. c \o a \in Seq(X) /\ c \o b \in Seq(X)
    BY <2>1, ConcatProperties
  <2> QED BY <2>2 DEF a, b, c
<1>4. E \in Seq(S) /\ F \in Seq(S) /\ Len(E) = n /\ Len(F) = n /\ \A i \in 1..n : E[i] = e(i) /\ F[i] = f(i)
  <2>1. \A i \in 1..n : e(i) \in S /\ f(i) \in S
    BY <1>3
  <2>2. n \in Nat
    BY <1>1
  <2> HIDE DEF e, f, S, n
  <2> QED BY <2>1, <2>2
<1>5. Lines(x) = FlattenSeq(E) /\ Lines(y) = FlattenSeq(F)
  BY <1>1, Zenon DEF Lines
<1>6. ASSUME NEW i \in 1..(n - 1) PROVE E[i] = F[i]
  <2>1. i \in 1..n /\ y[i] = x[i]
    BY <1>1
  <2>2. e(i) = f(i)
    BY <2>1
  <2> HIDE DEF E, F, e, f
  <2> QED BY <1>4, <2>1, <2>2
<1>7. n \in 1..n /\ n - 1 \in 0..n
  BY <1>1
<1>8. F[n] = E[n] \o v /\ E[n] \in S
  <2> DEFINE a == x[n]
             c == l(n)
  <2>1. a \in Seq(X) /\ c \in Seq(X)
    BY <1>2, <1>7
  <2>2. E[n] = c \o a /\ F[n] = c \o (a \o v) /\ E[n] \in S
    <3>1. E[n] = e(n) /\ F[n] = f(n) /\ e(n) \in S
      BY <1>3, <1>4, <1>7
    <3> QED BY <3>1
  <2> HIDE DEF a, c, E, F
  <2>3. (c \o a) \o v = c \o (a \o v)
    BY <2>1, <1>0, Zenon
  <2> QED BY <2>2, <2>3
<1> HIDE DEF E, F, e, f, l
<1>9. Take(E, n - 1) = Take(F, n - 1)
  <2> DEFINE s == Take(E, n - 1)
             t == Take(F, n - 1)
             m == n - 1
  <2>1. /\ s \in Seq(S) /\ t \in Seq(S) /\ Len(s) = m /\ Len(t) = m
        /\ \A i \in 1..m : s[i] = E[i] /\ t[i] = F[i]
    <3>1. m \in 0..Len(E) /\ m \in 0..Len(F)
      BY <1>4, <1>7
    <3> HIDE DEF S, n, m
    <3>2. Take(E, m) \in Seq(S) /\ Len(Take(E, m)) = m /\ \A i \in 1..m : Take(E, m)[i] = E[i]
      BY <1>4, <3>1, Cut
    <3>3. Take(F, m) \in Seq(S) /\ Len(Take(F, m)) = m /\ \A i \in 1..m : Take(F, m)[i] = F[i]
      BY <1>4, <3>1, Cut
    <3> QED BY <3>2, <3>3 DEF m
  <2>2. \A i \in 1..m : s[i] = t[i]
    <3> HIDE DEF s, t, S, n
    <3> QED BY <1>6, <2>1
  <2> HIDE DEF s, t, S, m
  <2>3. s = t
    <3>1. \A i \in 1..Len(s) : s[i] = t[i]
      BY <2>1, <2>2
    <3> QED BY <2>1, <3>1, SameSeq
  <2> QED BY <2>3 DEF s, t
<1> DEFINE D == Take(E, n - 1)
           p == E[n]
<1>10. E = Append(D, p) /\ F = Append(D, p \o v) /\ D \in Seq(S)
  <2>1. D \in Seq(S)
    <3> HIDE DEF S, n
    <3> QED BY <1>4, <1>7, Cut
  <2>2. E # <<>> /\ F # <<>>
    <3> HIDE DEF S, n
    <3> QED BY <1>1, <1>4, EmptySeq
  <2>3. E = Append(Take(E, Len(E) - 1), E[Len(E)])
    <3> HIDE DEF S, n
    <3> QED BY <1>4, <2>2, SnocOf, Zenon
  <2>4. F = Append(Take(F, Len(F) - 1), F[Len(F)])
    <3> HIDE DEF S, n
    <3> QED BY <1>4, <2>2, SnocOf, Zenon
  <2> HIDE DEF S
  <2> QED BY <1>4, <1>8, <1>9, <2>1, <2>3, <2>4
<1>11. p \in Seq(X)
  BY <1>8
<1> HIDE DEF D, p
<1>12. p \o v \in Seq(X) /\ D \in Seq(Seq(X))
  BY <1>10, <1>11, ConcatProperties
<1>13. FlattenSeq(Append(D, p)) = FlattenSeq(D) \o p
  BY <1>11, <1>12, FlattenAppend
<1> DEFINE q == p \o v
<1>14. FlattenSeq(Append(D, q)) = FlattenSeq(D) \o q
  <2>1. q \in Seq(X)
    BY <1>12
  <2> HIDE DEF q
  <2> QED BY <1>12, <2>1, FlattenAppend
<1> DEFINE d == FlattenSeq(D)
<1>15. d \in Seq(X)
  BY <1>12, Flattened
<1> HIDE DEF d
<1>16. (d \o p) \o v = d \o (p \o v)
  BY <1>11, <1>15, <1>0, Zenon
<1> QED BY <1>5, <1>10, <1>13, <1>14, <1>16 DEF d

\* The characters of a line without its "&".
Sheet == Page \cup {"|"}

LEMMA SheetIs ==
  /\ Sheet \subseteq Plain /\ Page \subseteq Sheet /\ "&" \notin Sheet /\ Blank \in Sheet /\ Bar \in Seq(Sheet)
  /\ Seq(Page) \subseteq Seq(Sheet) /\ Seq(Sheet) \subseteq Seq(Plain)
<1>1. Sheet \subseteq Plain /\ Page \subseteq Sheet /\ Blank \in Sheet /\ "|" \in Sheet
  BY InkIs DEF Sheet
<1>2. "&" \notin Sheet
  BY InkIs DEF Sheet
<1>3. Bar \in Seq(Sheet)
  <2>1. <<"|">> \in Seq(Sheet)
    BY <1>1
  <2>2. <<"|">> \o <<Blank>> \in Seq(Sheet)
    BY <1>1, <2>1, LastOf
  <2> QED BY <2>2, BarIs
<1> QED BY <1>1, <1>2, <1>3, SeqMonotonic

LEMMA NoAmp ==
  ASSUME NEW s \in Seq(Sheet)
  PROVE  TrailingAmp(s) = {} /\ StripAmp(s) = s
<1>1. ASSUME NEW i \in 1..Len(s) PROVE s[i] # "&"
  <2>1. s[i] \in Sheet
    BY ElementOfSeq
  <2> QED BY <2>1, SheetIs
<1>2. s \in Seq(Plain)
  BY SheetIs
<1>3. Unquoted(s) = 1..Len(s)
  BY <1>2, UnquotedIs
<1>4. TrailingAmp(s) = {}
  BY <1>1, <1>3 DEF TrailingAmp
<1> QED BY <1>4 DEF StripAmp

LEMMA AmpStripped ==
  ASSUME NEW a \in Seq(Sheet), a # <<>>, a[Len(a)] # Blank
  PROVE  LET s == (a \o <<Blank>>) \o (<<"&">> \o <<Blank>>) IN
         s \in Seq(Plain) /\ TrailingAmp(s) # {} /\ StripAmp(s) = a
<1> DEFINE b == <<Blank>>
           L == a \o b
           m == <<"&">> \o b
           s == L \o m
           k == Len(L) + 1
<1>1. L \in Seq(Sheet) /\ Len(L) \in Nat
  BY SheetIs, LastOf
<1>2. m \in Seq(Plain) /\ Len(m) = 2 /\ m[1] = "&" /\ m[2] = Blank
  BY InkIs
<1>3. L \in Seq(Plain)
  BY <1>1, SheetIs
<1> HIDE DEF L, m
<1>4. /\ s \in Seq(Plain) /\ Len(s) = Len(L) + 2
      /\ \A i \in 1..(Len(L) + 2) : s[i] = IF i <= Len(L) THEN L[i] ELSE m[i - Len(L)]
  <2>1. /\ L \o m \in Seq(Plain) /\ Len(L \o m) = Len(L) + Len(m)
        /\ \A i \in 1..(Len(L) + Len(m)) : (L \o m)[i] = IF i <= Len(L) THEN L[i] ELSE m[i - Len(L)]
    BY <1>2, <1>3, ConcatProperties
  <2> HIDE DEF s
  <2> QED BY <1>2, <2>1 DEF s
<1>5. Take(s, Len(L)) = L
  BY <1>2, <1>3, Joined
<1> HIDE DEF s
<1>6. Unquoted(s) = 1..(Len(L) + 2)
  BY <1>4, UnquotedIs
<1>7. s[k] = "&" /\ s[k + 1] = Blank /\ k \in 1..(Len(L) + 2)
  <2>1. k \in 1..(Len(L) + 2) /\ ~(k <= Len(L)) /\ k - Len(L) = 1
        /\ k + 1 \in 1..(Len(L) + 2) /\ ~(k + 1 <= Len(L)) /\ (k + 1) - Len(L) = 2
    BY <1>1
  <2> HIDE DEF k
  <2> QED BY <1>2, <1>4, <2>1
<1>8. ASSUME NEW i \in 1..(Len(L) + 2), s[i] = "&" PROVE i = k
  <2>1. CASE i <= Len(L)
    <3>1. s[i] = L[i] /\ i \in 1..Len(L)
      BY <1>1, <1>4, <2>1
    <3>2. L[i] \in Sheet
      BY <1>1, <3>1, ElementOfSeq
    <3> QED BY <1>8, <3>1, <3>2, SheetIs
  <2>2. CASE i = k + 1
    <3>1. "&" # Blank
      BY NotBlank
    <3> QED BY <1>7, <1>8, <2>2, <3>1
  <2> QED BY <1>1, <2>1, <2>2
<1>9. TrailingAmp(s) = {k}
  <2>1. \A j \in (k + 1)..Len(s) : j = k + 1
    BY <1>1, <1>4
  <2>2. k \in TrailingAmp(s)
    BY <1>4, <1>6, <1>7, <2>1 DEF TrailingAmp
  <2>3. TrailingAmp(s) \subseteq {k}
    BY <1>6, <1>8 DEF TrailingAmp
  <2> QED BY <2>2, <2>3
<1>10. Min({k}) = k
  <2>1. k \in Nat
    BY <1>1
  <2> HIDE DEF k
  <2> QED BY <2>1, MinIs
<1>11. k - 1 = Len(L)
  BY <1>1
<1>12. Reverse(SkipBlanks(Reverse(L))) = a
  <2>1. b \in Seq({Blank})
    OBVIOUS
  <2> QED BY <2>1, SheetIs, CutBehind DEF L
<1> HIDE DEF k
<1>13. StripAmp(s) = a
  BY <1>5, <1>9, <1>10, <1>11, <1>12 DEF StripAmp
<1> QED BY <1>4, <1>9, <1>13 DEF s, L, m

\* The commands a tree stands for, and the words and operators each is printed as.
Written == [argv : Seq(Words) \ {<<>>}, redirs : Seq(Pairs)]
Items(c) == c.argv \o FlattenSeq(c.redirs)

LEMMA ItemsAre ==
  ASSUME NEW c \in Written
  PROVE  /\ Items(c) \in Seq(Inked) /\ Items(c) # <<>> /\ c.argv \in Seq(Words) /\ c.redirs \in Seq(Pairs)
         /\ c.redirs = <<>> => Items(c) = c.argv
         /\ Spaced(Items(c)) = Spaced(c.argv) \o PrintRedir(c.redirs)
         /\ Spaced(Items(c)) \in Seq(Page) /\ Spaced(c.argv) \in Seq(Page)
<1> DEFINE q == c.argv
           u == c.redirs
           f == FlattenSeq(u)
<1>1. q \in Seq(Words) /\ q # <<>> /\ u \in Seq(Pairs)
  BY DEF Written
<1>2. q \in Seq(Inked)
  BY <1>1, InkedIs, SeqMonotonic
<1>3. f \in Seq(Inked) /\ u \in Seq(Seq(Inked)) /\ (u = <<>> => f = <<>>)
  BY <1>1, PairsAre, Flattened
<1>4. PrintRedir(u) = Spaced(f)
  BY <1>1, PrintRedirIs
<1>5. Items(c) = q \o f
  BY DEF Items
<1> HIDE DEF q, u, f
<1> DEFINE z == q \o f
<1>6. z \in Seq(Inked) /\ Len(z) = Len(q) + Len(f)
  BY <1>2, <1>3, ConcatProperties
<1>7. z # <<>>
  <2> HIDE DEF z
  <2>1. Len(q) \in Nat \ {0} /\ Len(f) \in Nat
    BY <1>1, <1>3, EmptySeq
  <2> QED BY <1>6, <2>1
<1>8. u = <<>> => z = q
  BY <1>2, <1>3, ConcatEmptySeq
<1>9. q \in Seq(Seq(Page)) /\ f \in Seq(Seq(Page)) /\ z \in Seq(Seq(Page))
  BY <1>2, <1>3, <1>6, InkedIs
<1>10. Spaced(z) = Spaced(q) \o Spaced(f)
  BY <1>9, InkIs, SpacedJoined
<1> HIDE DEF z
<1>11. Spaced(z) \in Seq(Page) /\ Spaced(q) \in Seq(Page)
  BY <1>9, InkIs, SpacedIs
<1> QED BY <1>1, <1>4, <1>5, <1>6, <1>7, <1>8, <1>10, <1>11 DEF z, q, u

LEMMA DenotedIs ==
  ASSUME NEW t \in Trees
  PROVE  LET d == Denoted(t).cmds n == Len(t.pipeline) IN
         /\ n \in Nat \ {0} /\ d \in Seq(Written) /\ Len(d) = n /\ t.background \in BOOLEAN
         /\ Denoted(t).background = t.background
         /\ \A i \in 1..n : d[i].argv = t.pipeline[i] /\ (i < n => d[i].redirs = <<>>)
         /\ d[n].redirs = t.redir
         /\ Denoted(t) = [cmds |-> d, background |-> t.background]
<1> DEFINE p == t.pipeline
           n == Len(p)
           e(i) == [argv |-> p[i], redirs |-> IF i = n THEN t.redir ELSE <<>>]
           d == [i \in 1..n |-> e(i)]
<1>1. /\ p \in Seq(Seq(Words)) /\ t.redir \in Seq(Pairs) /\ t.background \in BOOLEAN
      /\ p # <<>> /\ \A i \in 1..n : p[i] # <<>>
  BY DEF Trees, Pairs
<1>2. n \in Nat \ {0}
  BY <1>1, EmptySeq
<1>3. ASSUME NEW i \in 1..n PROVE e(i) \in Written
  <2>1. p[i] \in Seq(Words) /\ p[i] # <<>>
    <3> DEFINE S == Seq(Words)
    <3>1. p \in Seq(S)
      BY <1>1
    <3> HIDE DEF S, p
    <3>2. p[i] \in S
      BY <3>1, ElementOfSeq
    <3> QED BY <1>1, <3>2 DEF S
  <2>2. (IF i = n THEN t.redir ELSE <<>>) \in Seq(Pairs)
    BY <1>1
  <2> QED BY <2>1, <2>2 DEF Written
<1>4. Denoted(t) = [cmds |-> d, background |-> t.background]
  BY DEF Denoted
<1>5. \A i \in 1..n : d[i] = e(i)
  OBVIOUS
<1>6. \A i \in 1..n : e(i).argv = p[i] /\ e(i).redirs = IF i = n THEN t.redir ELSE <<>>
  OBVIOUS
<1>7. d \in Seq(Written) /\ Len(d) = n
  <2>1. \A i \in 1..n : e(i) \in Written
    BY <1>3
  <2>2. n \in Nat
    BY <1>2
  <2> HIDE DEF e, n
  <2> QED BY <2>1, <2>2
<1> HIDE DEF d, e, n, p
<1>8. Denoted(t).cmds = d /\ Denoted(t).background = t.background
  BY <1>4
<1>9. \A i \in 1..n : d[i].argv = p[i] /\ (i < n => d[i].redirs = <<>>)
  BY <1>2, <1>5, <1>6
<1>10. d[n].redirs = t.redir
  BY <1>2, <1>5, <1>6
<1> QED BY <1>1, <1>2, <1>4, <1>7, <1>8, <1>9, <1>10 DEF n, p

\* The texts of the stages of a line: each ends with a blank, or only all but the last.
Printed(d) == [i \in 1..Len(d) |-> Spaced(Items(d[i]))]
StageText(c) == Body(Items(c))
StageTexts(d) == [i \in 1..Len(d) |-> StageText(d[i])]

LEMMA PrintedIs ==
  ASSUME NEW d \in Seq(Written), d # <<>>
  PROVE  /\ Printed(d) \in Seq(Seq(Page)) /\ Len(Printed(d)) = Len(d)
         /\ StageTexts(d) \in Seq(Seq(Page)) /\ Len(StageTexts(d)) = Len(d) /\ Len(d) \in Nat \ {0}
         /\ \A i \in 1..Len(d) :
              /\ StageTexts(d)[i] = StageText(d[i]) /\ StageTexts(d)[i] \in Seq(Page)
              /\ Printed(d)[i] = Spaced(Items(d[i]))
              /\ Printed(d)[i] = StageTexts(d)[i] \o <<Blank>>
              /\ StageTexts(d)[i] # <<>> /\ StageTexts(d)[i][1] # Blank
              /\ StageTexts(d)[i][Len(StageTexts(d)[i])] # Blank
<1> DEFINE n == Len(d)
           S == Seq(Page)
           e(i) == Spaced(Items(d[i]))
           f(i) == StageText(d[i])
           E == [i \in 1..n |-> e(i)]
           F == [i \in 1..n |-> f(i)]
<1>1. n \in Nat \ {0}
  BY EmptySeq
<1>2. ASSUME NEW i \in 1..n
      PROVE  /\ e(i) \in S /\ f(i) \in S /\ e(i) = f(i) \o <<Blank>>
             /\ f(i) # <<>> /\ f(i)[1] # Blank /\ f(i)[Len(f(i))] # Blank
  <2> DEFINE z == Items(d[i])
  <2>1. d[i] \in Written
    BY ElementOfSeq
  <2>2. z \in Seq(Inked) /\ z # <<>> /\ Spaced(z) \in Seq(Page)
    BY <2>1, ItemsAre
  <2> HIDE DEF z
  <2> DEFINE b == Body(z)
  <2>3. b \in Seq(Page) /\ Spaced(z) = b \o <<Blank>> /\ b # <<>> /\ b[1] # Blank /\ b[Len(b)] # Blank
    BY <2>2, BodyIs
  <2>4. f(i) = b /\ e(i) = Spaced(z)
    BY DEF StageText, z
  <2> HIDE DEF b, e, f
  <2> QED BY <2>2, <2>3, <2>4
<1>3. Printed(d) = E /\ StageTexts(d) = F
  BY DEF Printed, StageTexts
<1>4. \A i \in 1..n : E[i] = e(i) /\ F[i] = f(i)
  OBVIOUS
<1>5. E \in Seq(S) /\ F \in Seq(S) /\ Len(E) = n /\ Len(F) = n
  <2>1. \A i \in 1..n : e(i) \in S /\ f(i) \in S
    BY <1>2
  <2>2. n \in Nat
    BY <1>1
  <2> HIDE DEF e, f, S, n
  <2> QED BY <2>1, <2>2
<1> HIDE DEF E, F
<1>6. ASSUME NEW i \in 1..n
      PROVE  /\ F[i] = StageText(d[i]) /\ F[i] \in S
             /\ E[i] = Spaced(Items(d[i])) /\ E[i] = F[i] \o <<Blank>>
             /\ F[i] # <<>> /\ F[i][1] # Blank /\ F[i][Len(F[i])] # Blank
  <2>1. E[i] = e(i) /\ F[i] = f(i)
    BY <1>4
  <2>2. F[i] = StageText(d[i]) /\ E[i] = Spaced(Items(d[i]))
    BY <2>1
  <2>3. /\ e(i) \in S /\ f(i) \in S /\ e(i) = f(i) \o <<Blank>>
        /\ f(i) # <<>> /\ f(i)[1] # Blank /\ f(i)[Len(f(i))] # Blank
    BY <1>2
  <2> HIDE DEF e, f, S
  <2> QED BY <2>1, <2>2, <2>3
<1> HIDE DEF e, f, n
<1> QED BY <1>1, <1>3, <1>5, <1>6 DEF n

\* A line is printed stage after stage.
LEMMA PrintInputIs ==
  ASSUME NEW t \in Trees
  PROVE  LET d == Denoted(t).cmds IN
         PrintInput(t) = Lines(Printed(d)) \o (IF t.background THEN <<"&">> \o <<Blank>> ELSE <<>>)
<1> DEFINE d == Denoted(t).cmds
           n == Len(t.pipeline)
           S == Seq(Sheet)
           e(i) == Spaced(t.pipeline[i])
           x == [i \in 1..n |-> e(i)]
           y == Printed(d)
           v == PrintRedir(t.redir)
<1>1. /\ n \in Nat \ {0} /\ d \in Seq(Written) /\ Len(d) = n
      /\ \A i \in 1..n : d[i].argv = t.pipeline[i] /\ (i < n => d[i].redirs = <<>>)
      /\ d[n].redirs = t.redir
  BY DenotedIs
<1> HIDE DEF d
<1>2. ASSUME NEW i \in 1..n
      PROVE  /\ e(i) \in S /\ y[i] = e(i) \o PrintRedir(d[i].redirs)
             /\ d[i].redirs = <<>> => y[i] = e(i)
             /\ d[i].redirs \in Seq(Pairs)
  <2>1. d[i] \in Written
    BY <1>1, ElementOfSeq
  <2> DEFINE c == d[i]
  <2>2. /\ Spaced(Items(c)) = Spaced(c.argv) \o PrintRedir(c.redirs) /\ Spaced(c.argv) \in Seq(Page)
        /\ (c.redirs = <<>> => Items(c) = c.argv) /\ c.redirs \in Seq(Pairs)
    BY <2>1, ItemsAre
  <2>3. c.argv = t.pipeline[i]
    BY <1>1
  <2>4. y[i] = Spaced(Items(c))
    BY <1>1 DEF Printed
  <2>5. Spaced(c.argv) \in Seq(Sheet)
    BY <2>2, SheetIs
  <2> HIDE DEF c, y
  <2> QED BY <2>2, <2>3, <2>4, <2>5 DEF c
<1>3. x \in Seq(S) /\ Len(x) = n /\ \A i \in 1..n : x[i] = e(i)
  <2>1. \A i \in 1..n : e(i) \in S
    BY <1>2
  <2>2. n \in Nat
    BY <1>1
  <2> HIDE DEF e, S, n
  <2> QED BY <2>1, <2>2
<1>4. PrintPipeline(t.pipeline) = Lines(x)
  <2>1. DOMAIN x = 1..n /\ DOMAIN t.pipeline = 1..n
    <3>1. t.pipeline \in Seq(Seq(Words))
      BY DEF Trees
    <3> HIDE DEF x
    <3> QED BY <1>3, <3>1
  <2>2. \A i \in 1..n : x[i] = Spaced(t.pipeline[i])
    BY <1>3
  <2> HIDE DEF x, n
  <2>3. PrintPipeline(t.pipeline)
        = FlattenSeq([i \in 1..n |-> (IF i = 1 THEN <<>> ELSE Bar) \o Spaced(t.pipeline[i])])
    BY <2>1, Zenon DEF PrintPipeline, Bar
  <2>4. Lines(x) = FlattenSeq([i \in 1..n |-> (IF i = 1 THEN <<>> ELSE Bar) \o x[i]])
    BY <2>1, Zenon DEF Lines
  <2>5. [i \in 1..n |-> (IF i = 1 THEN <<>> ELSE Bar) \o x[i]]
        = [i \in 1..n |-> (IF i = 1 THEN <<>> ELSE Bar) \o Spaced(t.pipeline[i])]
    BY <2>2
  <2> QED BY <2>3, <2>4, <2>5
<1> HIDE DEF x
<1>5. y \in Seq(S) /\ Len(y) = n
  <2>1. d # <<>>
    BY <1>1
  <2>2. y \in Seq(Seq(Page)) /\ Len(y) = Len(d)
    BY <1>1, <2>1, PrintedIs
  <2>3. Seq(Seq(Page)) \subseteq Seq(S)
    BY SheetIs, SeqMonotonic
  <2> HIDE DEF S, y
  <2> QED BY <1>1, <2>2, <2>3
<1>6. n \in 1..n /\ x # <<>>
  BY <1>1, <1>3
<1>7. v \in S
  <2>1. t.redir \in Seq(Pairs)
    BY DEF Trees, Pairs
  <2> QED BY <2>1, PrintRedirIs, SheetIs
<1>8. \A i \in 1..(n - 1) : y[i] = x[i]
  <2> TAKE i \in 1..(n - 1)
  <2>1. i \in 1..n /\ i < n
    BY <1>1
  <2>2. d[i].redirs = <<>>
    BY <1>1, <2>1
  <2> HIDE DEF y, e, n
  <2> QED BY <1>2, <1>3, <2>1, <2>2
<1>9. y[n] = x[n] \o v
  <2>1. y[n] = e(n) \o PrintRedir(d[n].redirs)
    BY <1>2, <1>6
  <2> HIDE DEF y, e, n
  <2> QED BY <1>1, <1>3, <1>6, <2>1
<1> HIDE DEF y, v
<1>10. Lines(y) = Lines(x) \o v
  <2>1. y \in Seq(Seq(Sheet)) /\ x \in Seq(Seq(Sheet)) /\ v \in Seq(Sheet)
    BY <1>3, <1>5, <1>7
  <2>2. \A i \in 1..(Len(x) - 1) : y[i] = x[i]
    BY <1>3, <1>8
  <2>3. y[Len(x)] = x[Len(x)] \o v /\ Len(y) = Len(x)
    BY <1>3, <1>5, <1>9
  <2> HIDE DEF n
  <2> QED BY <1>6, <2>1, <2>2, <2>3, SheetIs, LinesLast
<1>11. Spaced(<< <<"&">> >>) = <<"&">> \o <<Blank>>
  <2> DEFINE c == <<"&">>
             z == <<>>
  <2>1. c \in Seq(Plain) /\ z \in Seq(Seq(Plain))
    BY InkIs
  <2> HIDE DEF c, z
  <2> QED BY <2>1, InkIs, SpacedCons DEF c
<1>12. PrintInput(t) = (Lines(x) \o v) \o (IF t.background THEN <<"&">> \o <<Blank>> ELSE <<>>)
  BY <1>4, <1>11, Zenon DEF PrintInput, v
<1> QED BY <1>10, <1>12 DEF y, d

\* What the scanners of a pipeline make of a printed line: its "&" and its stages.
LEMMA ScannedLine ==
  ASSUME NEW t \in Trees
  PROVE  LET d == Denoted(t).cmds IN
         /\ Pieces(StripAmp(PrintInput(t))) = StageTexts(d)
         /\ TrailingAmp(PrintInput(t)) # {} <=> t.background
         /\ PrintInput(t) \in Seq(Plain)
         /\ ~t.background => PrintInput(t) = Lines(Printed(d)) /\ Pieces(PrintInput(t)) = StageTexts(d)
<1> DEFINE d == Denoted(t).cmds
           n == Len(d)
           y == Printed(d)
           B == StageTexts(d)
           L == Lines(y)
           S == Seq(Sheet)
           s == PrintInput(t)
           k == <<Blank>>
           b(i) == B[i]
           u == [i \in 1..n |-> IF i = n THEN b(i) ELSE y[i]]
           w == [i \in 1..n |-> IF i = n THEN <<>> ELSE y[i]]
           a == Lines(u)
<1>1. d \in Seq(Written) /\ n \in Nat \ {0} /\ t.background \in BOOLEAN /\ d # <<>>
  <2>1. d \in Seq(Written) /\ n \in Nat \ {0} /\ t.background \in BOOLEAN
    BY DenotedIs
  <2> HIDE DEF d
  <2> QED BY <2>1
<1>2. s = L \o (IF t.background THEN <<"&">> \o <<Blank>> ELSE <<>>)
  BY PrintInputIs
<1> HIDE DEF d, s
<1>3. /\ y \in Seq(Seq(Page)) /\ Len(y) = n /\ B \in Seq(Seq(Page)) /\ Len(B) = n
      /\ \A i \in 1..n : /\ B[i] \in Seq(Page) /\ y[i] = B[i] \o k
                         /\ B[i] # <<>> /\ B[i][1] # Blank /\ B[i][Len(B[i])] # Blank
  BY <1>1, PrintedIs
<1> HIDE DEF y, B
<1>4. \A i \in 1..n : y[i] \in Seq(Page)
  <2> TAKE i \in 1..n
  <2>1. B[i] \in Seq(Page)
    BY <1>3
  <2> DEFINE c == B[i]
  <2> HIDE DEF c
  <2>2. c \o k \in Seq(Page)
    BY <2>1, InkIs, LastOf DEF c
  <2> QED BY <1>3, <2>2 DEF c
<1>5. /\ u \in Seq(Seq(Page)) /\ Len(u) = n /\ u[n] = B[n] /\ \A i \in 1..(n - 1) : u[i] = y[i]
      /\ w \in Seq(Seq(Page)) /\ Len(w) = n /\ w[n] = <<>> /\ \A i \in 1..(n - 1) : w[i] = y[i]
  <2> DEFINE P == Seq(Page)
             e(i) == IF i = n THEN B[i] ELSE y[i]
             f(i) == IF i = n THEN <<>> ELSE y[i]
  <2>1. n \in Nat /\ n \in 1..n /\ \A i \in 1..(n - 1) : i \in 1..n /\ i # n
    BY <1>1
  <2>2. \A i \in 1..n : e(i) \in P /\ f(i) \in P
    <3>1. <<>> \in P
      OBVIOUS
    <3> HIDE DEF P, n
    <3> QED BY <1>3, <1>4, <3>1 DEF P
  <2>3. u = [i \in 1..n |-> e(i)] /\ w = [i \in 1..n |-> f(i)]
    OBVIOUS
  <2>4. \A i \in 1..(n - 1) : e(i) = y[i] /\ f(i) = y[i]
    <3> HIDE DEF n
    <3> QED BY <2>1
  <2>5. e(n) = B[n] /\ f(n) = <<>>
    OBVIOUS
  <2> HIDE DEF e, f, u, w, P, n
  <2>6. u \in Seq(P) /\ Len(u) = n /\ w \in Seq(P) /\ Len(w) = n
    BY <2>1, <2>2, <2>3
  <2>7. \A i \in 1..n : u[i] = e(i) /\ w[i] = f(i)
    BY <2>3
  <2> QED BY <2>1, <2>4, <2>5, <2>6, <2>7 DEF P
<1> HIDE DEF u, w
<1>6. y \in Seq(S) /\ u \in Seq(S) /\ w \in Seq(S) /\ B[n] \in S /\ k \in S /\ n \in 1..n
      /\ y # <<>> /\ u # <<>> /\ w # <<>>
  <2>1. Seq(Seq(Page)) \subseteq Seq(S) /\ Seq(Page) \subseteq S
    BY SheetIs, SeqMonotonic
  <2>2. k \in S
    BY SheetIs
  <2>3. n \in 1..n
    BY <1>1
  <2> HIDE DEF S, n
  <2>4. y # <<>> /\ u # <<>> /\ w # <<>>
    BY <1>1, <1>3, <1>5
  <2> QED BY <1>3, <1>5, <2>1, <2>2, <2>3, <2>4
\* The blank behind the last stage, and the last stage, are at the end of the line.
<1>7. L = a \o k
  <2>1. y[Len(u)] = u[Len(u)] \o k /\ Len(y) = Len(u) /\ \A i \in 1..(Len(u) - 1) : y[i] = u[i]
    BY <1>3, <1>5, <1>6
  <2> HIDE DEF k
  <2> QED BY <1>6, <2>1, SheetIs, LinesLast
<1>8. a = Lines(w) \o B[n] /\ Lines(w) \in S
  <2> DEFINE v == B[n]
  <2>1. <<>> \o v = v
    <3>1. v \in S
      BY <1>6
    <3> HIDE DEF v
    <3> QED BY <3>1, ConcatEmptySeq
  <2>2. v \in S
    BY <1>6
  <2>3. u[Len(w)] = w[Len(w)] \o v /\ Len(u) = Len(w) /\ \A i \in 1..(Len(w) - 1) : u[i] = w[i]
    BY <1>5, <1>6, <2>1
  <2> HIDE DEF v
  <2>4. Lines(u) = Lines(w) \o v
    BY <1>6, <2>2, <2>3, SheetIs, LinesLast
  <2>5. Lines(w) \in S
    BY <1>6, SheetIs, LinesAre
  <2> QED BY <2>4, <2>5 DEF v
<1>9. a \in S /\ L \in S
  BY <1>6, SheetIs, LinesAre
<1>10. a # <<>> /\ a[Len(a)] # Blank
  <2> DEFINE v == B[n]
             l == Lines(w)
             m == Len(l) + Len(v)
  <2>1. v \in S /\ v # <<>> /\ v[Len(v)] # Blank /\ l \in S
    BY <1>3, <1>6, <1>8
  <2>2. a = l \o v
    BY <1>8
  <2> HIDE DEF v, l, a
  <2>3. Len(v) \in Nat \ {0} /\ Len(l) \in Nat
    BY <2>1, EmptySeq
  <2>4. Len(a) = m /\ \A i \in 1..m : a[i] = IF i <= Len(l) THEN l[i] ELSE v[i - Len(l)]
    BY <2>1, <2>2, ConcatProperties
  <2>5. m \in 1..m /\ ~(m <= Len(l)) /\ m - Len(l) = Len(v)
    BY <2>3
  <2> HIDE DEF m
  <2>6. a[m] = v[Len(v)]
    BY <2>4, <2>5
  <2>7. a # <<>>
    BY <2>4, <2>5
  <2> QED BY <2>1, <2>4, <2>6, <2>7
\* Both are cut into the same stages.
<1>11. Pieces(a) = B /\ Pieces(L) = B
  <2>1. B \in Seq(Seq(Unpiped)) /\ y \in Seq(Seq(Unpiped)) /\ u \in Seq(Seq(Unpiped))
    <3>1. Seq(Page) \subseteq Seq(Unpiped)
      BY InkIs, SeqMonotonic
    <3>2. Seq(Seq(Page)) \subseteq Seq(Seq(Unpiped))
      BY <3>1, SeqMonotonic
    <3> QED BY <1>3, <1>5, <3>2
  <2>2. k \in Seq({Blank})
    OBVIOUS
  <2>3. \A i \in 1..n : \E x \in Seq({Blank}) : y[i] = B[i] \o x
    BY <1>3, <2>2
  <2>4. \A i \in 1..n : \E x \in Seq({Blank}) : u[i] = B[i] \o x
    <3> TAKE i \in 1..n
    <3>1. CASE i = n
      <4> DEFINE e == <<>>
                 c == B[n]
      <4>1. e \in Seq({Blank}) /\ e = <<>> /\ c \in Seq(Page)
        BY <1>3, <1>6
      <4> HIDE DEF e, c
      <4>2. c \o e = c
        BY <4>1, ConcatEmptySeq
      <4>3. u[i] = B[i] \o e
        BY <1>5, <3>1, <4>2 DEF c
      <4> QED BY <4>1, <4>3
    <3>2. CASE i # n
      <4>1. i \in 1..(n - 1)
        BY <1>1, <3>2
      <4>2. u[i] = y[i]
        BY <1>5, <4>1
      <4> QED BY <2>3, <4>2
    <3> QED BY <3>1, <3>2
  <2>5. Pieces(Lines(y)) = B
    <3>1. Len(y) = Len(B)
      BY <1>3
    <3>2. \A i \in 1..Len(y) : /\ B[i] # <<>> /\ B[i][1] # Blank /\ B[i][Len(B[i])] # Blank
                               /\ \E x \in Seq({Blank}) : y[i] = B[i] \o x
      BY <1>3, <2>3
    <3> QED BY <1>6, <2>1, <3>1, <3>2, PiecesOfLines
  <2>6. Pieces(Lines(u)) = B
    <3>1. Len(u) = Len(B)
      BY <1>3, <1>5
    <3>2. \A i \in 1..Len(u) : /\ B[i] # <<>> /\ B[i][1] # Blank /\ B[i][Len(B[i])] # Blank
                               /\ \E x \in Seq({Blank}) : u[i] = B[i] \o x
      BY <1>3, <1>5, <2>4
    <3> QED BY <1>6, <2>1, <3>1, <3>2, PiecesOfLines
  <2> QED BY <2>5, <2>6
<1> HIDE DEF L, a
<1>12. CASE t.background
  <2>1. s = (a \o k) \o (<<"&">> \o <<Blank>>)
    BY <1>2, <1>7, <1>12
  <2>2. s \in Seq(Plain) /\ TrailingAmp(s) # {} /\ StripAmp(s) = a
    BY <1>9, <1>10, <2>1, AmpStripped
  <2> QED BY <1>11, <1>12, <2>2 DEF s, d, B
<1>13. CASE ~t.background
  <2>1. s = L
    <3>1. s = L \o <<>>
      BY <1>2, <1>13
    <3> QED BY <1>9, <3>1, ConcatEmptySeq
  <2>2. TrailingAmp(s) = {} /\ StripAmp(s) = L
    BY <1>9, <2>1, NoAmp
  <2>3. s \in Seq(Plain)
    BY <1>9, <2>1, SheetIs
  <2> QED BY <1>11, <1>13, <2>1, <2>2, <2>3 DEF s, d, B, L, y
<1> QED BY <1>1, <1>12, <1>13

\* Characters of what is spaced are characters of the words.
LEMMA SpacedOf ==
  ASSUME NEW D, NEW z \in Seq(Inked), Spaced(z) \in Seq(D)
  PROVE  z \in Seq(Seq(D))
<1> DEFINE Good == {q \in Seq(Inked) : Spaced(q) \in Seq(D) => q \in Seq(Seq(D))}
<1>1. <<>> \in Good
  <2>1. <<>> \in Seq(Inked) /\ <<>> \in Seq(Seq(D))
    OBVIOUS
  <2> QED BY <2>1
<1>2. ASSUME NEW w \in Inked, NEW r \in Seq(Inked), r \in Good PROVE <<w>> \o r \in Good
  <2> DEFINE q == <<w>> \o r
             c == w \o <<Blank>>
             s == Spaced(r)
  <2>1. q \in Seq(Inked)
    BY FirstOf
  <2> SUFFICES ASSUME Spaced(q) \in Seq(D) PROVE q \in Seq(Seq(D))
    BY <2>1
  <2>2. w \in Seq(Page) /\ r \in Seq(Seq(Page))
    BY InkedIs
  <2>3. Spaced(q) = c \o s /\ c \in Seq(Page) /\ s \in Seq(Page)
    BY <2>2, InkIs, SpacedCons
  <2>4. Len(c) = Len(w) + 1 /\ \A i \in 1..Len(w) : c[i] = w[i]
    BY <2>2, InkIs, LastOf
  <2> HIDE DEF q, c, s
  <2> DEFINE g == c \o s
  <2>5. /\ Len(g) = Len(c) + Len(s) /\ Len(c) \in Nat /\ Len(s) \in Nat /\ Len(w) \in Nat
        /\ \A i \in 1..(Len(c) + Len(s)) : g[i] = IF i <= Len(c) THEN c[i] ELSE s[i - Len(c)]
    BY <2>2, <2>3, ConcatProperties
  <2>6. g \in Seq(D)
    BY <2>3
  <2> HIDE DEF g
  <2>7. \A i \in 1..Len(g) : g[i] \in D
    BY <2>6, ElementOfSeq
  <2>8. ASSUME NEW i \in 1..Len(w) PROVE w[i] \in D
    <3>1. i \in 1..Len(g) /\ i \in 1..(Len(c) + Len(s)) /\ i <= Len(c)
      BY <2>4, <2>5
    <3> QED BY <2>4, <2>5, <2>7, <3>1
  <2>9. ASSUME NEW i \in 1..Len(s) PROVE s[i] \in D
    <3> DEFINE j == Len(c) + i
    <3>1. j \in 1..Len(g) /\ j \in 1..(Len(c) + Len(s)) /\ ~(j <= Len(c)) /\ j - Len(c) = i
      BY <2>5
    <3> HIDE DEF j
    <3> QED BY <2>5, <2>7, <3>1
  <2>10. w \in Seq(D)
    BY <2>2, <2>8
  <2>11. s \in Seq(D)
    BY <2>3, <2>9
  <2>12. r \in Seq(Seq(D))
    BY <1>2, <2>11 DEF s
  <2> DEFINE S == Seq(D)
  <2>13. w \in S /\ r \in Seq(S)
    BY <2>10, <2>12
  <2> HIDE DEF S
  <2>14. q \in Seq(S)
    BY <2>13, FirstOf DEF q
  <2> QED BY <2>14 DEF S
<1> HIDE DEF Good
<1>3. z \in Good
  BY <1>1, <1>2, ByTails
<1> QED BY <1>3 DEF Good

\* A line without an operator is one stage without redirections.
LEMMA OneStage ==
  ASSUME NEW t \in Trees, ~HasOperator(PrintInput(t))
  PROVE  \E q \in Seq(Words) : /\ q # <<>> /\ PrintInput(t) = Spaced(q)
                               /\ Denoted(t) = [cmds |-> <<[argv |-> q, redirs |-> <<>>]>>, background |-> FALSE]
<1> DEFINE d == Denoted(t).cmds
           s == PrintInput(t)
           y == Printed(d)
           c == d[1]
           q == c.argv
<1>1. d \in Seq(Written) /\ Len(d) \in Nat \ {0} /\ Denoted(t) = [cmds |-> d, background |-> t.background]
      /\ t.background \in BOOLEAN
  <2>1. d \in Seq(Written) /\ Len(d) = Len(t.pipeline) /\ Len(t.pipeline) \in Nat \ {0}
        /\ Denoted(t) = [cmds |-> d, background |-> t.background] /\ t.background \in BOOLEAN
    BY DenotedIs
  <2> HIDE DEF d
  <2> QED BY <2>1
<1>2. /\ (TrailingAmp(s) # {} <=> t.background) /\ s \in Seq(Plain)
      /\ ~t.background => s = Lines(y) /\ Pieces(s) = StageTexts(d)
  BY ScannedLine
<1>3. Range(s) \cap Operators = {}
  BY DEF HasOperator
<1> HIDE DEF d, s
<1>4. ASSUME NEW i \in 1..Len(s) PROVE s[i] \notin Operators /\ s[i] \in Plain
  <2>1. s[i] \in Range(s)
    BY <1>2 DEF Range
  <2>2. s[i] \in Plain
    BY <1>2, ElementOfSeq
  <2> QED BY <1>3, <2>1, <2>2
<1>5. t.background = FALSE
  <2>1. ASSUME NEW i \in TrailingAmp(s) PROVE FALSE
    <3>1. i \in 1..Len(s) /\ s[i] = "&"
      BY <1>2, UnquotedIs DEF TrailingAmp
    <3>2. "&" \in Operators
      BY Zenon DEF Operators
    <3> QED BY <1>4, <3>1, <3>2
  <2> QED BY <1>1, <1>2, <2>1
<1>6. s \in Seq(Unoperated) /\ s \in Seq(Unpiped)
  <2>1. "|" \in Operators
    BY Zenon DEF Operators
  <2>2. \A i \in 1..Len(s) : s[i] \in Unoperated /\ s[i] \in Unpiped
    BY <1>4, <2>1, PlainChars DEF Unoperated, Unpiped
  <2> QED BY <1>2, <2>2
<1>7. Len(d) = 1
  <2>1. Pieces(s) = <<Trim(s)>>
    BY <1>6, OnePiece
  <2>2. d # <<>>
    BY <1>1
  <2>3. Len(StageTexts(d)) = Len(d)
    BY <1>1, <2>2, PrintedIs
  <2>4. StageTexts(d) = <<Trim(s)>>
    BY <1>2, <1>5, <2>1
  <2> HIDE DEF s
  <2>5. Len(<<Trim(s)>>) = 1
    OBVIOUS
  <2> QED BY <2>3, <2>4, <2>5
<1>8. c \in Written /\ d = <<c>>
  <2>1. 1 \in 1..Len(d)
    BY <1>7
  <2>2. d[1] \in Written
    BY <1>1, <2>1, ElementOfSeq
  <2>3. d = <<d[1]>>
    BY <1>1, <1>7
  <2> QED BY <2>2, <2>3
<1> DEFINE x == Spaced(Items(c))
<1>9. /\ Items(c) \in Seq(Inked) /\ q \in Seq(Words) /\ c.redirs \in Seq(Pairs)
      /\ (c.redirs = <<>> => Items(c) = q) /\ x \in Seq(Page)
  BY <1>8, ItemsAre
<1>10. s = x
  <2>1. y = [i \in 1..1 |-> Spaced(Items(d[i]))]
    BY <1>7 DEF Printed
  <2>2. y = [i \in 1..1 |-> x] /\ DOMAIN y = 1..1 /\ y[1] = x
    BY <2>1
  <2> HIDE DEF x, y
  <2> DEFINE e == <<>>
  <2>3. e \o x = x
    BY <1>9, ConcatEmptySeq
  <2> HIDE DEF e
  <2>4. Lines(y) = FlattenSeq([i \in 1..1 |-> (IF i = 1 THEN e ELSE Bar) \o y[i]])
    BY <2>2, Zenon DEF Lines, e
  <2>5. [i \in 1..1 |-> (IF i = 1 THEN e ELSE Bar) \o y[i]] = <<x>>
    BY <2>2, <2>3
  <2>6. FlattenSeq(<<x>>) = x
    BY <1>9, FlattenOne
  <2> QED BY <1>2, <1>5, <2>4, <2>5, <2>6
<1> HIDE DEF x, y
<1>11. Items(c) \in Seq(Seq(Unoperated))
  BY <1>6, <1>9, <1>10, SpacedOf DEF x
<1>12. c.redirs = <<>>
  <2> SUFFICES ASSUME c.redirs # <<>> PROVE FALSE
    OBVIOUS
  <2>1. PICK r \in Pairs, u \in Seq(Pairs) : c.redirs = <<r>> \o u
    <3> DEFINE v == c.redirs
    <3>1. v \in Seq(Pairs) /\ v # <<>>
      BY <1>9
    <3> HIDE DEF v
    <3>2. Head(v) \in Pairs /\ Tail(v) \in Seq(Pairs) /\ v = <<Head(v)>> \o Tail(v)
      BY <3>1, HeadTail
    <3> QED BY <3>2, Zenon DEF v
  <2> DEFINE F == FlattenSeq(u)
             g == r \o F
             k == Len(q) + 1
  <2>2. r = <<r[1], r[2]>> /\ r[1] \in RedirSymbols /\ r \in Seq(Inked) /\ u \in Seq(Seq(Inked)) /\ F \in Seq(Inked)
    BY PairIs, PairsAre
  <2>3. FlattenSeq(c.redirs) = g
    BY <2>1, <2>2, FlattenCons
  <2>4. Items(c) = q \o g
    BY <2>3 DEF Items
  <2>5. Len(r) = 2 /\ Len(F) \in Nat
    BY <2>2
  <2>6. g \in Seq(Inked) /\ Len(g) = 2 + Len(F) /\ g[1] = r[1]
    <3>1. /\ r \o F \in Seq(Inked) /\ Len(r \o F) = Len(r) + Len(F)
          /\ \A i \in 1..(Len(r) + Len(F)) : (r \o F)[i] = IF i <= Len(r) THEN r[i] ELSE F[i - Len(r)]
      BY <2>2, ConcatProperties
    <3> HIDE DEF F, g
    <3> QED BY <2>5, <3>1 DEF g
  <2>7. q \in Seq(Inked)
    BY <1>9, InkedIs, SeqMonotonic
  <2> HIDE DEF g, F, q
  <2>8. /\ Len(q \o g) = Len(q) + Len(g) /\ Len(q) \in Nat
        /\ \A i \in 1..(Len(q) + Len(g)) : (q \o g)[i] = IF i <= Len(q) THEN q[i] ELSE g[i - Len(q)]
    <3>1. q \in Seq(Inked) /\ g \in Seq(Inked)
      BY <2>6, <2>7
    <3>2. Len(q) \in Nat
      BY <2>7
    <3>3. /\ Len(q \o g) = Len(q) + Len(g)
          /\ \A i \in 1..(Len(q) + Len(g)) : (q \o g)[i] = IF i <= Len(q) THEN q[i] ELSE g[i - Len(q)]
      BY <3>1, ConcatProperties
    <3> QED BY <3>2, <3>3
  <2> DEFINE z == Items(c)
  <2>9. z[k] = r[1] /\ k \in 1..Len(z)
    <3>1. k \in 1..(Len(q) + Len(g)) /\ ~(k <= Len(q)) /\ k - Len(q) = 1
      BY <2>5, <2>6, <2>8
    <3> HIDE DEF k, z
    <3>2. (q \o g)[k] = g[1]
      BY <2>8, <3>1
    <3> QED BY <2>4, <2>6, <2>8, <3>1, <3>2 DEF z
  <2> HIDE DEF z, k
  <2>10. r[1] \in Seq(Unoperated)
    <3> DEFINE U == Seq(Unoperated)
    <3>1. z \in Seq(U)
      BY <1>11 DEF z
    <3> HIDE DEF U
    <3>2. z[k] \in U
      BY <2>9, <3>1, ElementOfSeq
    <3> QED BY <2>9, <3>2 DEF U
  <2> DEFINE o == r[1]
  <2>11. o \in RedirSymbols /\ o \in Seq(Unoperated)
    BY <2>2, <2>10
  <2> HIDE DEF o
  <2>12. \E i \in 1..Len(o) : o[i] = "<" \/ o[i] = ">"
    <3>1. CASE o = <<"<">>
      <4>1. 1 \in 1..Len(o) /\ o[1] = "<"
        BY <3>1
      <4> QED BY <4>1
    <3>2. CASE o = <<">">> \/ o = <<">", ">">>
      <4>1. 1 \in 1..Len(o) /\ o[1] = ">"
        BY <3>2
      <4> QED BY <4>1
    <3>3. CASE o = <<"2", ">">> \/ o = <<"2", ">", ">">>
      <4>1. 2 \in 1..Len(o) /\ o[2] = ">"
        BY <3>3
      <4> QED BY <4>1
    <3> QED BY <2>11, <3>1, <3>2, <3>3 DEF RedirSymbols
  <2>13. PICK i \in 1..Len(o) : o[i] = "<" \/ o[i] = ">"
    BY <2>12
  <2>14. o[i] \in Unoperated
    BY <2>11, ElementOfSeq
  <2>15. "<" \in Operators /\ ">" \in Operators
    BY Zenon DEF Operators
  <2> QED BY <2>13, <2>14, <2>15 DEF Unoperated
<1>13. c = [argv |-> q, redirs |-> <<>>] /\ q # <<>>
  BY <1>8, <1>12 DEF Written
<1>14. Denoted(t) = [cmds |-> <<[argv |-> q, redirs |-> <<>>]>>, background |-> FALSE]
  BY <1>1, <1>5, <1>8, <1>13
<1>15. s = Spaced(q)
  BY <1>9, <1>10, <1>12 DEF x
<1> HIDE DEF c, q
<1> QED BY <1>9, <1>13, <1>14, <1>15 DEF s, q

-----------------------------------------------------------------------------
(* parse_stage on the text of a stage.                                     *)

\* A word ends where the blank behind it is, and no operator is in front of it.
LEMMA WordRead ==
  ASSUME NEW w \in Words, NEW r \in Seq(Page), r # <<>> => Head(r) = Blank
  PROVE  LET p == w \o r x == Word(p) IN
         x.ok = TRUE /\ x.quote = Nothing /\ x.word = w /\ x.rest = r /\ p \in Seq(Page)
<1> DEFINE p == w \o r
           l == Len(w)
<1>1. w \in Seq(WordChars) /\ w # <<>> /\ l \in Nat \ {0} /\ (\A i \in 1..l : w[i] \in WordChars /\ w[i] # Blank)
      /\ w \in Seq(Page)
  BY WordsAre, InkedIs
<1>2. p \in Seq(Page) /\ Len(p) = l + Len(r) /\ Len(r) \in Nat
      /\ \A i \in 1..(l + Len(r)) : p[i] = IF i <= l THEN w[i] ELSE r[i - l]
  BY <1>1, ConcatProperties
<1>3. p \in Seq(Plain) /\ p \in Seq(Char)
  <2>1. Page \subseteq Plain /\ Page \subseteq Char
    BY InkIs, PlainChars
  <2> QED BY <1>2, <2>1, SeqMonotonic
<1>4. Take(p, l) = w /\ Drop(p, l) = r
  BY <1>1, Joined
<1> HIDE DEF p, l
<1>5. PICK n \in 0..Len(p) :
        /\ Reads(p, n)
        /\ Word(p).ok = TRUE /\ Word(p).quote = Nothing
        /\ Word(p).word = Take(p, n) /\ Word(p).rest = Drop(p, n)
  BY <1>3, WordIs
<1>6. Stop(Drop(p, l))
  BY <1>4 DEF Stop
<1>7. ASSUME NEW i \in 0..(l - 1) PROVE ~Stop(Drop(p, i))
  <2> DEFINE x == Drop(p, i)
  <2>1. i \in 0..Len(p) /\ i + 1 \in 1..l /\ 1 \in 1..(Len(p) - i) /\ i + 1 \in 1..(l + Len(r))
    BY <1>1, <1>2
  <2>2. x \in Seq(Char) /\ Len(x) = Len(p) - i /\ \A j \in 1..(Len(p) - i) : x[j] = p[i + j]
    BY <1>3, <2>1, Cut
  <2> HIDE DEF x
  <2>3. x[1] = w[i + 1] /\ x # <<>>
    <3>1. x[1] = p[i + 1]
      BY <2>1, <2>2
    <3>2. p[i + 1] = w[i + 1]
      BY <1>2, <2>1
    <3>3. x # <<>>
      BY <2>1, <2>2
    <3> QED BY <3>1, <3>2, <3>3
  <2>4. x[1] \in WordChars /\ x[1] # Blank /\ Head(x) = x[1]
    BY <1>1, <2>1, <2>2, <2>3, HeadTail
  <2>5. "<" \notin WordChars /\ ">" \notin WordChars
    <3>1. "<" \in Operators /\ ">" \in Operators
      BY Zenon DEF Operators
    <3> QED BY <3>1, WordLetters
  <2>6. ~(Len(x) > 1 /\ x[2] = ">")
    <3> SUFFICES ASSUME Len(x) > 1 PROVE x[2] # ">"
      OBVIOUS
    <3>1. i + 2 \in 1..(l + Len(r)) /\ 2 \in 1..(Len(p) - i)
      BY <1>2, <2>1, <2>2
    <3>2. x[2] = p[i + 2]
      BY <2>2, <3>1
    <3>3. CASE i + 2 <= l
      <4>1. x[2] = w[i + 2] /\ i + 2 \in 1..l
        BY <1>1, <1>2, <2>1, <3>1, <3>2, <3>3
      <4> QED BY <1>1, <2>5, <4>1
    <3>4. CASE ~(i + 2 <= l)
      <4>1. (i + 2) - l = 1 /\ r # <<>>
        BY <1>1, <1>2, <2>1, <3>1, <3>4
      <4>2. p[i + 2] = r[1]
        BY <1>2, <3>1, <3>4, <4>1
      <4>3. r[1] = Blank
        BY <4>1, HeadTail
      <4> QED BY <3>2, <4>2, <4>3, NotBlank
    <3> QED BY <3>3, <3>4
  <2>7. ~IsRedirStart(x)
    BY <2>2, <2>3, <2>4, <2>5, <2>6, RedirStartIs
  <2> QED BY <2>3, <2>4, <2>7 DEF Stop, x
<1>8. n = l
  <2>1. ~(n < l)
    <3> SUFFICES ASSUME n < l PROVE FALSE
      OBVIOUS
    <3>1. n \in 0..(l - 1)
      BY <1>1
    <3> QED BY <1>5, <1>7, <3>1 DEF Reads
  <2>2. ~(n > l)
    <3> SUFFICES ASSUME n > l PROVE FALSE
      OBVIOUS
    <3> DEFINE j == l + 1
    <3>1. j \in 1..n /\ j - 1 = l
      BY <1>1
    <3> HIDE DEF j
    <3>2. ~Stop(Drop(p, j - 1))
      BY <1>5, <3>1 DEF Reads
    <3> QED BY <1>6, <3>1, <3>2
  <2> QED BY <1>1, <2>1, <2>2
<1> QED BY <1>2, <1>4, <1>5, <1>8 DEF p

\* When each of the operators of parse_stage is at the front of a text.
LEMMA FoundIs ==
  ASSUME NEW p \in Seq(Char)
  PROVE  /\ IsPrefix(RedirOps[1], p) => Len(p) > 2 /\ p[1] = "2" /\ p[2] = ">" /\ p[3] = "&"
         /\ IsPrefix(RedirOps[2], p) <=> Len(p) > 2 /\ p[1] = "2" /\ p[2] = ">" /\ p[3] = ">"
         /\ IsPrefix(RedirOps[3], p) <=> Len(p) > 1 /\ p[1] = "2" /\ p[2] = ">"
         /\ IsPrefix(RedirOps[4], p) <=> Len(p) > 1 /\ p[1] = ">" /\ p[2] = ">"
         /\ IsPrefix(RedirOps[5], p) <=> Len(p) > 0 /\ p[1] = ">"
         /\ IsPrefix(RedirOps[6], p) <=> Len(p) > 0 /\ p[1] = "<"
<1> DEFINE l == Len(p)
<1>1. l \in Nat
  OBVIOUS
<1>2. "2" \in Char /\ ">" \in Char /\ "&" \in Char /\ "1" \in Char /\ "<" \in Char
  <2>1. ">" \in Operators /\ "&" \in Operators /\ "<" \in Operators
    BY Zenon DEF Operators
  <2>2. "2" \in WordChars /\ "1" \in WordChars
    BY DEF WordChars, NameChars
  <2> QED BY <2>1, <2>2, Letters
<1> HIDE DEF l
<1>3. /\ RedirOps[1] = <<"2", ">", "&", "1">> /\ RedirOps[2] = <<"2", ">", ">">>
      /\ RedirOps[3] = <<"2", ">">> /\ RedirOps[4] = <<">", ">">>
      /\ RedirOps[5] = <<">">> /\ RedirOps[6] = <<"<">>
  BY DEF RedirOps
<1>4. ASSUME IsPrefix(RedirOps[1], p) PROVE l > 2 /\ p[1] = "2" /\ p[2] = ">" /\ p[3] = "&"
  <2> DEFINE a == <<"2", ">", "&", "1">>
  <2>1. a \in Seq(Char) /\ Len(a) = 4 /\ a[1] = "2" /\ a[2] = ">" /\ a[3] = "&"
    BY <1>2
  <2> HIDE DEF a
  <2>2. IsPrefix(a, p)
    BY <1>3, <1>4 DEF a
  <2>3. 4 <= l /\ \A k \in 1..4 : a[k] = p[k]
    BY <2>1, <2>2, PrefixMeans DEF l
  <2> QED BY <1>1, <2>1, <2>3
<1>5. ASSUME NEW a \in Seq(Char), Len(a) = 1
      PROVE  IsPrefix(a, p) <=> l > 0 /\ p[1] = a[1]
  <2>1. IsPrefix(a, p) <=> Len(a) <= Len(p) /\ \A i \in 1..Len(a) : a[i] = p[i]
    BY PrefixIs, Zenon
  <2>2. IsPrefix(a, p) <=> 1 <= l /\ \A i \in 1..1 : a[i] = p[i]
    BY <1>5, <2>1, Zenon DEF l
  <2> QED BY <1>1, <2>2
<1>6. ASSUME NEW a \in Seq(Char), Len(a) = 2
      PROVE  IsPrefix(a, p) <=> l > 1 /\ p[1] = a[1] /\ p[2] = a[2]
  <2>1. IsPrefix(a, p) <=> Len(a) <= Len(p) /\ \A i \in 1..Len(a) : a[i] = p[i]
    BY PrefixIs, Zenon
  <2>2. IsPrefix(a, p) <=> 2 <= l /\ \A i \in 1..2 : a[i] = p[i]
    BY <1>6, <2>1, Zenon DEF l
  <2> QED BY <1>1, <2>2
<1>7. ASSUME NEW a \in Seq(Char), Len(a) = 3
      PROVE  IsPrefix(a, p) <=> l > 2 /\ p[1] = a[1] /\ p[2] = a[2] /\ p[3] = a[3]
  <2>1. IsPrefix(a, p) <=> Len(a) <= Len(p) /\ \A i \in 1..Len(a) : a[i] = p[i]
    BY PrefixIs, Zenon
  <2>2. IsPrefix(a, p) <=> 3 <= l /\ \A i \in 1..3 : a[i] = p[i]
    BY <1>7, <2>1, Zenon DEF l
  <2> QED BY <1>1, <2>2
<1>8. IsPrefix(RedirOps[2], p) <=> l > 2 /\ p[1] = "2" /\ p[2] = ">" /\ p[3] = ">"
  <2> DEFINE a == RedirOps[2]
  <2>1. a \in Seq(Char) /\ Len(a) = 3
    BY <1>2, <1>3
  <2>2. a[1] = "2" /\ a[2] = ">" /\ a[3] = ">"
    BY <1>3
  <2> HIDE DEF a
  <2>3. IsPrefix(a, p) <=> l > 2 /\ p[1] = a[1] /\ p[2] = a[2] /\ p[3] = a[3]
    BY <1>7, <2>1
  <2> QED BY <2>2, <2>3 DEF a
<1>9. IsPrefix(RedirOps[3], p) <=> l > 1 /\ p[1] = "2" /\ p[2] = ">"
  <2> DEFINE a == RedirOps[3]
  <2>1. a \in Seq(Char) /\ Len(a) = 2
    BY <1>2, <1>3
  <2>2. a[1] = "2" /\ a[2] = ">"
    BY <1>3
  <2> HIDE DEF a
  <2>3. IsPrefix(a, p) <=> l > 1 /\ p[1] = a[1] /\ p[2] = a[2]
    BY <1>6, <2>1
  <2> QED BY <2>2, <2>3 DEF a
<1>10. IsPrefix(RedirOps[4], p) <=> l > 1 /\ p[1] = ">" /\ p[2] = ">"
  <2> DEFINE a == RedirOps[4]
  <2>1. a \in Seq(Char) /\ Len(a) = 2
    BY <1>2, <1>3
  <2>2. a[1] = ">" /\ a[2] = ">"
    BY <1>3
  <2> HIDE DEF a
  <2>3. IsPrefix(a, p) <=> l > 1 /\ p[1] = a[1] /\ p[2] = a[2]
    BY <1>6, <2>1
  <2> QED BY <2>2, <2>3 DEF a
<1>11. IsPrefix(RedirOps[5], p) <=> l > 0 /\ p[1] = ">"
  <2> DEFINE a == RedirOps[5]
  <2>1. a \in Seq(Char) /\ Len(a) = 1
    BY <1>2, <1>3
  <2>2. a[1] = ">"
    BY <1>3
  <2> HIDE DEF a
  <2>3. IsPrefix(a, p) <=> l > 0 /\ p[1] = a[1]
    BY <1>5, <2>1
  <2> QED BY <2>2, <2>3 DEF a
<1>12. IsPrefix(RedirOps[6], p) <=> l > 0 /\ p[1] = "<"
  <2> DEFINE a == RedirOps[6]
  <2>1. a \in Seq(Char) /\ Len(a) = 1
    BY <1>2, <1>3
  <2>2. a[1] = "<"
    BY <1>3
  <2> HIDE DEF a
  <2>3. IsPrefix(a, p) <=> l > 0 /\ p[1] = a[1]
    BY <1>5, <2>1
  <2> QED BY <2>2, <2>3 DEF a
<1> QED BY <1>4, <1>8, <1>9, <1>10, <1>11, <1>12 DEF l

\* No operator is at the front of a word that ends at a blank.
LEMMA OpAtWord ==
  ASSUME NEW w \in Words, NEW r \in Seq(Page), r # <<>> => Head(r) = Blank
  PROVE  OpAt(w \o r) = <<>>
<1> DEFINE p == w \o r
           l == Len(w)
           m == Len(r)
<1>1. w \in Seq(WordChars) /\ w # <<>> /\ l \in Nat \ {0} /\ (\A i \in 1..l : w[i] \in WordChars)
      /\ w \in Seq(Page)
  BY WordsAre, InkedIs
<1>2. p \in Seq(Page) /\ Len(p) = l + m /\ m \in Nat
      /\ \A i \in 1..(l + m) : p[i] = IF i <= l THEN w[i] ELSE r[i - l]
  BY <1>1, ConcatProperties
<1>3. p \in Seq(Char)
  <2>1. Page \subseteq Char
    BY InkIs, PlainChars
  <2> QED BY <1>2, <2>1, SeqMonotonic
<1>4. m > 0 => r[1] = Blank
  <2> SUFFICES ASSUME m > 0 PROVE r[1] = Blank
    OBVIOUS
  <2>1. r # <<>>
    OBVIOUS
  <2> QED BY <2>1, HeadTail
<1> HIDE DEF p, l, m
<1>5. p[1] \in WordChars
  BY <1>1, <1>2
<1>6. ">" \notin WordChars /\ "<" \notin WordChars
  <2>1. "<" \in Operators /\ ">" \in Operators
    BY Zenon DEF Operators
  <2> QED BY <2>1, WordLetters
<1>7. Len(p) > 1 => p[2] # ">"
  <2> SUFFICES ASSUME Len(p) > 1 PROVE p[2] # ">"
    OBVIOUS
  <2>1. CASE l > 1
    <3>1. p[2] = w[2] /\ 2 \in 1..l
      BY <1>1, <1>2, <2>1
    <3> QED BY <1>1, <1>6, <3>1
  <2>2. CASE ~(l > 1)
    <3>1. l = 1 /\ m > 0 /\ p[2] = r[1]
      BY <1>1, <1>2, <2>2
    <3> QED BY <1>4, <3>1, NotBlank
  <2> QED BY <2>1, <2>2
<1>8. ASSUME NEW i \in 1..6 PROVE ~IsPrefix(RedirOps[i], p)
  <2>1. Len(p) \in Nat
    BY <1>2
  <2>2. Len(p) > 2 => Len(p) > 1
    BY <2>1
  <2>3. p[1] # ">" /\ p[1] # "<"
    BY <1>5, <1>6
  <2>4. /\ ~IsPrefix(RedirOps[1], p) /\ ~IsPrefix(RedirOps[2], p) /\ ~IsPrefix(RedirOps[3], p)
        /\ ~IsPrefix(RedirOps[4], p) /\ ~IsPrefix(RedirOps[5], p) /\ ~IsPrefix(RedirOps[6], p)
    BY <1>3, <1>7, <2>2, <2>3, FoundIs
  <2>5. i = 1 \/ i = 2 \/ i = 3 \/ i = 4 \/ i = 5 \/ i = 6
    OBVIOUS
  <2> QED BY <2>4, <2>5
<1>9. {i \in DOMAIN RedirOps : IsPrefix(RedirOps[i], p)} = {}
  BY <1>8, RedirOpsAre
<1> QED BY <1>9, Zenon DEF OpAt, p

\* An operator that a blank follows is read whole.
LEMMA OpAtOp ==
  ASSUME NEW op \in RedirSymbols, NEW r \in Seq(Page), r # <<>>, Head(r) = Blank
  PROVE  OpAt(op \o r) = op /\ op # RedirOps[1] /\ op # <<>>
<1> DEFINE p == op \o r
           l == Len(op)
           m == Len(r)
<1>1. op \in Seq(Page) /\ l \in Nat \ {0}
  BY InkedIs
<1>2. p \in Seq(Page) /\ Len(p) = l + m /\ m \in Nat
      /\ \A i \in 1..(l + m) : p[i] = IF i <= l THEN op[i] ELSE r[i - l]
  BY <1>1, ConcatProperties
<1>3. p \in Seq(Char)
  <2>1. Page \subseteq Char
    BY InkIs, PlainChars
  <2> QED BY <1>2, <2>1, SeqMonotonic
<1>4. m > 0 /\ r[1] = Blank
  BY HeadTail
<1> HIDE DEF p, l, m
<1>5. p[l + 1] = Blank /\ Len(p) > l
  BY <1>1, <1>2, <1>4
<1>6. \A i \in 1..l : p[i] = op[i]
  BY <1>1, <1>2
<1> DEFINE Found == {i \in 1..6 : IsPrefix(RedirOps[i], p)}
<1>7. ASSUME NEW n \in Found, \A i \in Found : n <= i PROVE OpAt(p) = RedirOps[n]
  <2>1. Found = {i \in DOMAIN RedirOps : IsPrefix(RedirOps[i], p)}
    BY RedirOpsAre
  <2>2. Found \subseteq Nat /\ Found # {}
    OBVIOUS
  <2> HIDE DEF Found
  <2>3. Min(Found) = n
    BY <1>7, <2>2, MinIs
  <2> QED BY <2>1, <2>2, <2>3, Zenon DEF OpAt
<1>8. ASSUME NEW i \in Found PROVE i = 1 \/ i = 2 \/ i = 3 \/ i = 4 \/ i = 5 \/ i = 6
  OBVIOUS
<1>9. \A i \in 1..6 : i \in Found <=> IsPrefix(RedirOps[i], p)
  OBVIOUS
<1> HIDE DEF Found
<1>10. /\ RedirOps[1] = <<"2", ">", "&", "1">> /\ RedirOps[2] = <<"2", ">", ">">>
       /\ RedirOps[3] = <<"2", ">">> /\ RedirOps[4] = <<">", ">">>
       /\ RedirOps[5] = <<">">> /\ RedirOps[6] = <<"<">>
  BY DEF RedirOps
<1>11. op # RedirOps[1] /\ op # <<>>
  BY <1>1, <1>10 DEF RedirSymbols, l
<1> DEFINE k == Len(p)
<1>12. k \in Nat
  BY <1>2
<1> HIDE DEF k
<1>13. /\ 1 \in Found => k > 2 /\ p[1] = "2" /\ p[2] = ">" /\ p[3] = "&"
       /\ 2 \in Found <=> k > 2 /\ p[1] = "2" /\ p[2] = ">" /\ p[3] = ">"
       /\ 3 \in Found <=> k > 1 /\ p[1] = "2" /\ p[2] = ">"
       /\ 4 \in Found <=> k > 1 /\ p[1] = ">" /\ p[2] = ">"
       /\ 5 \in Found <=> k > 0 /\ p[1] = ">"
       /\ 6 \in Found <=> k > 0 /\ p[1] = "<"
  BY <1>3, <1>9, FoundIs DEF k
<1>14. CASE op = <<"<">>
  <2>1. l = 1 /\ p[1] = "<" /\ k > 0
    BY <1>1, <1>5, <1>6, <1>14 DEF l, k
  <2>2. 6 \in Found /\ \A i \in Found : 6 <= i
    BY <1>8, <1>13, <2>1
  <2> QED BY <1>7, <1>10, <1>11, <1>14, <2>2 DEF p
<1>15. CASE op = <<">">>
  <2>1. l = 1 /\ p[1] = ">" /\ p[2] = Blank /\ k > 0
    BY <1>1, <1>5, <1>6, <1>15 DEF l, k
  <2>2. 5 \in Found /\ \A i \in Found : 5 <= i
    BY <1>8, <1>13, <2>1, NotBlank
  <2> QED BY <1>7, <1>10, <1>11, <1>15, <2>2 DEF p
<1>16. CASE op = <<">", ">">>
  <2>1. l = 2 /\ p[1] = ">" /\ p[2] = ">" /\ k > 1
    BY <1>1, <1>5, <1>6, <1>16 DEF l, k
  <2>2. 4 \in Found /\ \A i \in Found : 4 <= i
    BY <1>8, <1>13, <2>1
  <2> QED BY <1>7, <1>10, <1>11, <1>16, <2>2 DEF p
<1>17. CASE op = <<"2", ">">>
  <2>1. l = 2 /\ p[1] = "2" /\ p[2] = ">" /\ p[3] = Blank /\ k > 1
    BY <1>1, <1>5, <1>6, <1>17 DEF l, k
  <2>2. 3 \in Found /\ \A i \in Found : 3 <= i
    BY <1>8, <1>13, <2>1, NotBlank
  <2> QED BY <1>7, <1>10, <1>11, <1>17, <2>2 DEF p
<1>18. CASE op = <<"2", ">", ">">>
  <2>1. l = 3 /\ p[1] = "2" /\ p[2] = ">" /\ p[3] = ">" /\ k > 2
    BY <1>1, <1>5, <1>6, <1>18 DEF l, k
  <2>2. 2 \in Found /\ \A i \in Found : 2 <= i
    BY <1>8, <1>13, <2>1
  <2> QED BY <1>7, <1>10, <1>11, <1>18, <2>2 DEF p
<1> QED BY <1>14, <1>15, <1>16, <1>17, <1>18 DEF RedirSymbols

\* A word at the front of a text is stored when its storage has room for it.
ReadTo(x, w, z, used) ==
    x.word = w /\ x.rest = Gap(z) /\ x.ok = (used + Len(w) + 1 <= BufferSize)

LEMMA StoreRead ==
  ASSUME NEW w \in Words, NEW z \in Seq(Inked), NEW t, SkipBlanks(t) = Body(<<w>> \o z), NEW used \in Nat
  PROVE  ReadTo(StoreWord(t, used), w, z, used)
<1> DEFINE g == Gap(z)
           p == w \o g
           x == Word(p)
           y == Stored(x, used)
<1>1. w \in Inked /\ w # <<>>
  BY InkedIs
<1>2. SkipBlanks(t) = p /\ g \in Seq(Page) /\ (g # <<>> => Head(g) = Blank)
  BY <1>1, BodyCons
<1> HIDE DEF g
<1>3. x.ok = TRUE /\ x.quote = Nothing /\ x.word = w /\ x.rest = g /\ p \in Seq(Page)
  BY <1>2, WordRead
<1>4. x = [ok |-> TRUE, quote |-> Nothing, word |-> w, rest |-> g]
  <2>1. Page \subseteq Plain
    BY InkIs
  <2>2. p \in Seq(Plain)
    BY <1>3, <2>1, SeqMonotonic
  <2> HIDE DEF p
  <2>3. x \in PlainWords
    <3>1. PICK at \in [0..Len(p) -> PlainWords] : Word(p) = at[Len(p)]
      BY <2>2, WordRuns
    <3>2. Len(p) \in 0..Len(p)
      BY <2>2
    <3> QED BY <3>1, <3>2
  <2> HIDE DEF x
  <2> QED BY <1>3, <2>3 DEF PlainWords
<1> HIDE DEF x, p
<1>5. y = [x EXCEPT !.ok = x.ok /\ x.quote = Nothing /\ (x.word # <<>> /\ used + Len(x.word) + 1 <= BufferSize)]
  BY Zenon DEF Stored, y
<1> DEFINE fits == used + Len(w) + 1 <= BufferSize
<1>6. fits \in BOOLEAN
  OBVIOUS
<1>7. x.ok /\ x.quote = Nothing /\ (x.word # <<>> /\ used + Len(x.word) + 1 <= BufferSize) <=> fits
  BY <1>1, <1>3
<1> HIDE DEF fits
<1>8. y = [x EXCEPT !.ok = fits]
  BY <1>5, <1>6, <1>7, Zenon
<1>9. y.word = w /\ y.rest = g /\ y.ok = fits
  BY <1>4, <1>8
<1>10. StoreWord(t, used) = y
  BY <1>2, Zenon DEF StoreWord, x, y
<1> QED BY <1>9, <1>10, Zenon DEF fits, g, ReadTo

\* The file names of redirections, and what the words and the names of a stage take
\* of its storage, each with its NUL.
Files(u) == [i \in DOMAIN u |-> u[i][2]]
Cost(q, u) == Len(Spaced(q)) + Len(Spaced(Files(u)))

LEMMA SpacedLen ==
  ASSUME NEW w \in Words, NEW q \in Seq(Words)
  PROVE  /\ Len(Spaced(<<w>> \o q)) = Len(w) + 1 + Len(Spaced(q))
         /\ Len(Spaced(q)) \in Nat /\ Len(w) \in Nat
<1> DEFINE X == Page
           a == Spaced(q)
           b == w \o <<Blank>>
<1>1. Blank \in X /\ w \in Seq(X) /\ q \in Seq(Seq(X))
  <2>1. w \in Inked /\ q \in Seq(Inked)
    BY InkedIs, SeqMonotonic
  <2> QED BY <2>1, InkedIs, InkIs
<1> HIDE DEF X
<1>2. Spaced(<<w>> \o q) = b \o a /\ b \in Seq(X) /\ a \in Seq(X)
  BY <1>1, SpacedCons
<1>3. Len(b) = Len(w) + 1
  BY <1>1, LastOf
<1>4. Len(w) \in Nat
  BY <1>1
<1> HIDE DEF a, b
<1>5. Len(b \o a) = Len(b) + Len(a) /\ Len(a) \in Nat
  BY <1>2, ConcatProperties
<1> QED BY <1>2, <1>3, <1>4, <1>5 DEF a

LEMMA FilesAre ==
  ASSUME NEW r \in Pairs, NEW u \in Seq(Pairs)
  PROVE  /\ Files(u) \in Seq(Words)
         /\ Files(<<r>> \o u) = <<r[2]>> \o Files(u)
         /\ Files(<<>>) = <<>>
<1> DEFINE n == Len(u)
           v == <<r>> \o u
<1>1. n \in Nat /\ DOMAIN u = 1..n
  OBVIOUS
<1>2. \A i \in 1..n : u[i][2] \in Words
  <2> SUFFICES ASSUME NEW i \in 1..n PROVE u[i][2] \in Words
    OBVIOUS
  <2>1. u[i] \in Pairs
    BY ElementOfSeq
  <2> QED BY <2>1, PairIs
<1>3. v \in Seq(Pairs) /\ Len(v) = n + 1 /\ DOMAIN v = 1..(n + 1)
      /\ \A i \in 1..(n + 1) : v[i] = IF i = 1 THEN r ELSE u[i - 1]
  <2> DEFINE h == <<r>>
  <2>1. h \in Seq(Pairs) /\ Len(h) = 1 /\ h[1] = r
    OBVIOUS
  <2> HIDE DEF h
  <2>2. h \o u \in Seq(Pairs) /\ Len(h \o u) = Len(h) + Len(u)
        /\ \A i \in 1..(Len(h) + Len(u)) : (h \o u)[i] = IF i <= Len(h) THEN h[i] ELSE u[i - Len(h)]
    BY <2>1, ConcatProperties
  <2>3. h \o u \in Seq(Pairs) /\ Len(h \o u) = n + 1 /\ DOMAIN (h \o u) = 1..(n + 1)
        /\ \A i \in 1..(n + 1) : (h \o u)[i] = IF i = 1 THEN r ELSE u[i - 1]
    BY <1>1, <2>1, <2>2
  <2> QED BY <2>3 DEF h
<1> DEFINE f == [i \in 1..n |-> u[i][2]]
<1>4. f \in Seq(Words) /\ Len(f) = n
  BY <1>1, <1>2
<1>5. Files(u) = f
  BY <1>1 DEF Files
<1>6. Files(v) = [i \in 1..(n + 1) |-> v[i][2]]
  BY <1>3 DEF Files
<1>7. [i \in 1..(n + 1) |-> v[i][2]] = <<r[2]>> \o f
  <2>1. r[2] \in Words
    BY PairIs
  <2> DEFINE h == <<r[2]>>
             e == [i \in 1..(n + 1) |-> v[i][2]]
  <2>2. h \in Seq(Words) /\ Len(h) = 1 /\ h[1] = r[2]
    BY <2>1
  <2> HIDE DEF h, f
  <2>3. h \o f \in Seq(Words) /\ Len(h \o f) = Len(h) + Len(f)
        /\ \A i \in 1..(Len(h) + Len(f)) : (h \o f)[i] = IF i <= Len(h) THEN h[i] ELSE f[i - Len(h)]
    BY <1>4, <2>2, ConcatProperties
  <2>4. ASSUME NEW i \in 1..(n + 1) PROVE (h \o f)[i] = v[i][2] /\ v[i][2] \in Words
    <3>1. CASE i = 1
      BY <1>1, <1>3, <1>4, <2>1, <2>2, <2>3, <3>1
    <3>2. CASE i # 1
      <4>1. i - 1 \in 1..n /\ ~(i <= 1) /\ i \in 1..(Len(h) + Len(f))
        BY <1>1, <1>4, <2>2, <3>2
      <4>2. v[i] = u[i - 1] /\ f[i - 1] = u[i - 1][2]
        BY <1>3, <3>2, <4>1 DEF f
      <4>3. (h \o f)[i] = f[i - 1]
        BY <2>2, <2>3, <4>1
      <4> QED BY <1>2, <4>1, <4>2, <4>3
    <3> QED BY <3>1, <3>2
  <2>5. e \in Seq(Words) /\ Len(e) = n + 1 /\ \A i \in 1..(n + 1) : e[i] = v[i][2]
    BY <1>1, <2>4
  <2>6. Len(h \o f) = n + 1
    BY <1>1, <1>4, <2>2, <2>3
  <2> HIDE DEF e
  <2>7. e = h \o f
    BY <2>3, <2>4, <2>5, <2>6, SameSeq
  <2> QED BY <2>7 DEF e, h
<1>8. Files(<<>>) = <<>>
  BY DEF Files
<1> QED BY <1>4, <1>5, <1>6, <1>7, <1>8 DEF v

LEMMA CostIs ==
  ASSUME NEW q \in Seq(Words), NEW u \in Seq(Pairs)
  PROVE  /\ Cost(q, u) \in Nat
         /\ \A w \in Words : Cost(<<w>> \o q, u) = Len(w) + 1 + Cost(q, u)
         /\ \A r \in Pairs : Cost(q, <<r>> \o u) = Len(r[2]) + 1 + Cost(q, u)
<1>1. PICK w0 : w0 \in Words
  <2>1. "a" \in WordChars
    BY DEF WordChars, NameChars
  <2>2. <<"a">> \in Seq(WordChars) /\ <<"a">> # <<>>
    BY <2>1
  <2> QED BY <2>2 DEF Words
<1>2. Files(u) \in Seq(Words)
  <2>1. CASE u = <<>>
    <3>1. Files(<<>>) = <<>>
      BY DEF Files
    <3>2. Files(u) = <<>>
      BY <2>1, <3>1
    <3>3. <<>> \in Seq(Words)
      OBVIOUS
    <3> QED BY <3>2, <3>3
  <2>2. CASE u # <<>>
    <3>1. Head(u) \in Pairs
      BY <2>2, HeadTail
    <3> QED BY <3>1, FilesAre
  <2> QED BY <2>1, <2>2
<1> DEFINE a == Len(Spaced(q))
           b == Len(Spaced(Files(u)))
<1>3. a \in Nat /\ b \in Nat
  BY <1>1, <1>2, SpacedLen
<1>4. Cost(q, u) = a + b
  BY DEF Cost
<1>5. ASSUME NEW w \in Words PROVE Cost(<<w>> \o q, u) = Len(w) + 1 + Cost(q, u)
  <2> DEFINE c == Len(Spaced(<<w>> \o q))
             l == Len(w)
  <2>1. c = l + 1 + a /\ l \in Nat
    BY SpacedLen
  <2>2. Cost(<<w>> \o q, u) = c + b
    BY Zenon DEF Cost
  <2> HIDE DEF a, b, c, l
  <2>3. Cost(<<w>> \o q, u) = l + 1 + Cost(q, u)
    BY <1>3, <1>4, <2>1, <2>2
  <2> QED BY <2>3 DEF l
<1>6. ASSUME NEW r \in Pairs PROVE Cost(q, <<r>> \o u) = Len(r[2]) + 1 + Cost(q, u)
  <2> DEFINE f == Files(u)
             w == r[2]
             c == Len(Spaced(<<w>> \o f))
             l == Len(w)
  <2>1. w \in Words /\ Files(<<r>> \o u) = <<w>> \o f /\ f \in Seq(Words)
    BY <1>2, PairIs, FilesAre
  <2> HIDE DEF f, w
  <2>2. c = l + 1 + Len(Spaced(f)) /\ l \in Nat
    BY <2>1, SpacedLen
  <2>3. Cost(q, <<r>> \o u) = a + c
    BY <2>1, Zenon DEF Cost
  <2>4. Len(Spaced(f)) = b
    BY DEF f
  <2> HIDE DEF a, b, c, l
  <2>5. Cost(q, <<r>> \o u) = l + 1 + Cost(q, u)
    BY <1>3, <1>4, <2>2, <2>3, <2>4
  <2> QED BY <2>5 DEF l, w
<1>7. Cost(q, u) \in Nat
  BY <1>3, <1>4
<1> QED BY <1>5, <1>6, <1>7

LEMMA BodyShrinks ==
  ASSUME NEW w \in Inked, NEW z \in Seq(Inked)
  PROVE  /\ Len(Body(z)) \in Nat /\ Len(Body(<<w>> \o z)) \in Nat
         /\ Len(Body(z)) < Len(Body(<<w>> \o z))
<1> DEFINE g == Gap(z)
           b == Body(z)
           l == Len(w)
<1>1. w \in Seq(Page) /\ l \in Nat \ {0}
  BY InkedIs
<1>2. b \in Seq(Page)
  BY BodyIs
<1>3. Body(<<w>> \o z) = w \o g /\ g \in Seq(Page) /\ SkipBlanks(g) = b
  BY BodyCons
<1> HIDE DEF g, b, l
<1>4. Len(b) <= Len(g) /\ Len(b) \in Nat /\ Len(g) \in Nat
  <2>1. Len(SkipBlanks(g)) \in 0..Len(g) /\ Len(g) \in Nat
    BY <1>3, Skip
  <2> QED BY <1>3, <2>1
<1>5. Len(w \o g) = l + Len(g)
  BY <1>1, <1>3, ConcatProperties DEF l
<1>6. Len(w \o g) \in Nat /\ Len(b) < Len(w \o g)
  BY <1>1, <1>4, <1>5
<1> QED BY <1>3, <1>4, <1>6 DEF b

\* What is left of the stage c when st has been read of it: the words q and the
\* redirections u.
Left(st, c, q, u) ==
    /\ st.argv \in Seq(Words) /\ st.redirs \in Seq(Pairs)
    /\ c.argv = st.argv \o q /\ c.redirs = st.redirs \o u
    /\ st.used + Cost(q, u) = Cost(c.argv, c.redirs)
    /\ SkipBlanks(st.rest) = Body(q \o FlattenSeq(u))

\* After k turns on the text of the stage c: a stage is only refused for its size.
InStage(st, c, k) ==
    IF st.ok
    THEN \E q \in Seq(Words), u \in Seq(Pairs) :
            /\ Left(st, c, q, u)
            /\ \/ k + Len(Body(q \o FlattenSeq(u))) <= Len(StageText(c))
               \/ q \o FlattenSeq(u) = <<>>
    ELSE ~Small(c) \/ ~Fits(c)

LEMMA StageTurnCases ==
  ASSUME NEW st
  PROVE  LET p == SkipBlanks(st.rest) op == OpAt(p) w == StoreWord(Drop(p, Len(op)), st.used) IN
         /\ p = <<>> \/ ~st.ok => StageTurn(st) = st
         /\ p # <<>> /\ st.ok /\ op # <<>> /\ Len(st.redirs) = MaxArgs =>
              StageTurn(st) = [st EXCEPT !.ok = FALSE]
         /\ p # <<>> /\ st.ok /\ (op = <<>> \/ Len(st.redirs) # MaxArgs) /\ op # RedirOps[1] =>
              StageTurn(st) = Grown(st, op, w)
  BY Zenon DEF StageTurn

\* What Grown(st, op, w) is, when the word was stored and there is a slot for it.
Full(st, op, w) == ~w.ok \/ (op = <<>> /\ Len(st.argv) = MaxArgs - 1)
GrownTo(g, st, op, w) ==
    /\ Full(st, op, w) => g.ok = FALSE
    /\ ~Full(st, op, w) =>
         /\ g.ok = st.ok /\ g.used = st.used + Len(w.word) + 1 /\ g.rest = w.rest
         /\ op = <<>> => g.argv = Append(st.argv, w.word) /\ g.redirs = st.redirs
         /\ op # <<>> => g.argv = st.argv /\ g.redirs = Append(st.redirs, <<op, w.word>>)

LEMMA GrownOf ==
  ASSUME NEW st \in Stagings, NEW op, NEW w
  PROVE  GrownTo(Grown(st, op, w), st, op, w)
<1> DEFINE read == [st EXCEPT !.used = st.used + Len(w.word) + 1, !.rest = w.rest]
           bad == Full(st, op, w)
<1>1. Grown(st, op, w) = IF bad THEN [st EXCEPT !.ok = FALSE]
                         ELSE IF op = <<>> THEN [read EXCEPT !.argv = Append(read.argv, w.word)]
                         ELSE [read EXCEPT !.redirs = Append(read.redirs, <<op, w.word>>)]
  BY Zenon DEF Grown, Full
<1> HIDE DEF bad
<1>2. CASE bad
  <2>1. Grown(st, op, w) = [st EXCEPT !.ok = FALSE]
    BY <1>1, <1>2
  <2>2. [st EXCEPT !.ok = FALSE].ok = FALSE
    BY DEF Stagings
  <2> QED BY <1>2, <2>1, <2>2 DEF bad, GrownTo
<1>3. CASE ~bad
  <2> DEFINE n == st.used + Len(w.word) + 1
             e == w.rest
             F == {"ok", "argv", "redirs", "used", "rest"}
  <2>1. st \in [ok : BOOLEAN, argv : Seq(Seq(Operand)), redirs : Seq(Redirection), used : Nat,
               rest : Seq(Unpiped)]
    BY Zenon DEF Stagings
  <2>2. DOMAIN st = F
    BY <2>1
  <2> HIDE DEF n, e
  <2>3. /\ DOMAIN read = F /\ read.ok = st.ok /\ read.argv = st.argv /\ read.redirs = st.redirs
        /\ read.used = n /\ read.rest = e
    BY <2>2 DEF n, e
  <2> HIDE DEF read
  <2>4. CASE op = <<>>
    <3>1. Grown(st, op, w) = [read EXCEPT !.argv = Append(read.argv, w.word)]
      BY <1>1, <1>3, <2>4
    <3> QED BY <1>3, <2>3, <2>4, <3>1 DEF bad, n, e, GrownTo
  <2>5. CASE op # <<>>
    <3>1. Grown(st, op, w) = [read EXCEPT !.redirs = Append(read.redirs, <<op, w.word>>)]
      BY <1>1, <1>3, <2>5
    <3> QED BY <1>3, <2>3, <2>5, <3>1 DEF bad, n, e, GrownTo
  <2> QED BY <2>4, <2>5
<1> QED BY <1>2, <1>3

LEMMA Sizes ==
  ASSUME NEW c
  PROVE  /\ Fits(c) <=> Cost(c.argv, c.redirs) <= BufferSize
         /\ Small(c) <=> Len(c.argv) < MaxArgs /\ Len(c.redirs) <= MaxArgs
         /\ BufferSize \in Nat /\ MaxArgs \in Nat \ {0, 1}
<1>1. Fits(c) <=> Cost(c.argv, c.redirs) <= BufferSize
  BY Zenon DEF Fits, Cost, Files
<1> QED BY <1>1, SizesAssumption, Zenon DEF Small

\* A turn that reads a word.
LEMMA TurnReadsWord ==
  ASSUME NEW c \in Written, NEW st \in Stagings, NEW k \in Nat, st.ok,
         NEW w \in Words, NEW q \in Seq(Words), NEW u \in Seq(Pairs), Left(st, c, <<w>> \o q, u),
         k + Len(Body((<<w>> \o q) \o FlattenSeq(u))) <= Len(StageText(c))
         \/ (<<w>> \o q) \o FlattenSeq(u) = <<>>
  PROVE  InStage(StageTurn(st), c, k + 1)
<1> DEFINE F == FlattenSeq(u)
           z == q \o F
           v == <<w>> \o z
           p == SkipBlanks(st.rest)
           e == <<w>>
           L == Len(StageText(c))
<1>1. w \in Inked /\ F \in Seq(Inked) /\ e \in Seq(Inked) /\ q \in Seq(Inked) /\ z \in Seq(Inked) /\ e \in Seq(Words)
  <2>1. w \in Inked /\ q \in Seq(Inked) /\ F \in Seq(Inked)
    BY InkedIs, SeqMonotonic, PairsAre
  <2> HIDE DEF F
  <2>2. q \o F \in Seq(Inked)
    BY <2>1, ConcatProperties
  <2> QED BY <2>1, <2>2
<1>2. (<<w>> \o q) \o F = v
  <2>1. Regroups(Inked)
    BY Regrouped, Zenon
  <2> HIDE DEF F, e
  <2>2. (e \o q) \o F = e \o (q \o F)
    BY <1>1, <2>1, Zenon DEF Regroups
  <2> QED BY <2>2 DEF e
<1>3. /\ st.argv \in Seq(Words) /\ st.redirs \in Seq(Pairs)
      /\ c.argv = st.argv \o (e \o q) /\ c.redirs = st.redirs \o u
      /\ st.used + Cost(<<w>> \o q, u) = Cost(c.argv, c.redirs)
      /\ p = Body(v)
  BY <1>2, Zenon DEF Left, F, p, e
<1>4. k + Len(Body(v)) <= L \/ v = <<>>
  BY <1>2, Zenon DEF F, L
<1> HIDE DEF F, p, L
<1>5. /\ Body(v) = w \o Gap(z) /\ v # <<>> /\ Gap(z) \in Seq(Page) /\ SkipBlanks(Gap(z)) = Body(z)
      /\ (Gap(z) # <<>> => Head(Gap(z)) = Blank) /\ v \in Seq(Inked)
  BY <1>1, BodyCons
<1> HIDE DEF z, v
<1>6. p # <<>> /\ p \in Seq(Page) /\ Head(p) # Blank /\ Len(p) \in Nat
  <2>1. Body(v) \in Seq(Page) /\ Body(v) # <<>> /\ Body(v)[1] # Blank
    BY <1>5, BodyIs
  <2> QED BY <1>3, <2>1, HeadTail
<1>7. OpAt(p) = <<>> /\ RedirOps[1] # <<>>
  <2>1. OpAt(w \o Gap(z)) = <<>>
    BY <1>5, OpAtWord
  <2>2. RedirOps[1] # <<>>
    BY DEF RedirOps
  <2> QED BY <1>3, <1>5, <2>1, <2>2
<1>8. Len(OpAt(p)) = 0 /\ Drop(p, 0) = p /\ SkipBlanks(p) = p
  <2>1. Drop(p, 0) = p
    <3>1. 1 \in 1..Len(p)
      BY <1>6
    <3> QED BY <1>6, <3>1, DropCons
  <2>2. SkipBlanks(p) = p
    BY <1>6, SkipNone
  <2> QED BY <1>7, <2>1, <2>2
<1> DEFINE x == StoreWord(Drop(p, Len(OpAt(p))), st.used)
           g == Grown(st, <<>>, x)
           n == Len(w)
<1>9. st.used \in Nat /\ Len(w) \in Nat
  BY WordsAre DEF Stagings
<1>10. x.word = w /\ x.rest = Gap(z) /\ x.ok = (st.used + Len(w) + 1 <= BufferSize)
  <2> DEFINE t == Drop(p, Len(OpAt(p)))
  <2>1. SkipBlanks(t) = Body(<<w>> \o z)
    BY <1>3, <1>8, Zenon DEF v
  <2> HIDE DEF t
  <2> DEFINE m == st.used
  <2>2. m \in Nat
    BY <1>9
  <2> HIDE DEF m
  <2>3. ReadTo(StoreWord(t, m), w, z, m)
    BY <1>1, <2>1, <2>2, StoreRead
  <2> QED BY <2>3, Zenon DEF ReadTo, x, t, m
<1>11. StageTurn(st) = g
  BY <1>6, <1>7, StageTurnCases, Zenon DEF p, x, g
<1>12. Cost(<<w>> \o q, u) = n + 1 + Cost(q, u) /\ Cost(q, u) \in Nat
  BY CostIs
<1> HIDE DEF n, x
<1> DEFINE bad == Full(st, <<>>, x)
<1>13. /\ bad => g.ok = FALSE
       /\ ~bad => /\ g.ok = TRUE /\ g.used = st.used + n + 1 /\ g.rest = Gap(z)
                  /\ g.argv = Append(st.argv, w) /\ g.redirs = st.redirs
  <2>1. /\ bad => g.ok = FALSE
        /\ ~bad => /\ g.ok = st.ok /\ g.used = st.used + Len(x.word) + 1 /\ g.rest = x.rest
                   /\ g.argv = Append(st.argv, x.word) /\ g.redirs = st.redirs
    <3>1. GrownTo(g, st, <<>>, x)
      BY GrownOf
    <3> QED BY <3>1, Zenon DEF GrownTo
  <2>2. st.ok = TRUE
    BY DEF Stagings
  <2> HIDE DEF g, bad
  <2> QED BY <1>10, <2>1, <2>2 DEF n
<1> HIDE DEF g
<1>14. CASE bad
  <2>1. CASE ~x.ok
    <3>1. ~(st.used + n + 1 <= BufferSize)
      BY <1>10, <2>1 DEF n
    <3>2. n \in Nat /\ BufferSize \in Nat
      BY <1>9, Sizes DEF n
    <3>3. ~(Cost(c.argv, c.redirs) <= BufferSize)
      <4> DEFINE a == Cost(<<w>> \o q, u)
                 b == Cost(q, u)
                 d == Cost(c.argv, c.redirs)
                 m == st.used
      <4>1. m + a = d /\ a = n + 1 + b /\ b \in Nat /\ m \in Nat /\ ~(m + n + 1 <= BufferSize)
        BY <1>3, <1>9, <1>12, <3>1
      <4> HIDE DEF a, b, d, m
      <4>2. ~(d <= BufferSize)
        BY <3>2, <4>1
      <4> QED BY <4>2 DEF d
    <3>4. ~Fits(c)
      BY <3>3, Sizes
    <3> QED BY <1>11, <1>13, <1>14, <3>4, Zenon DEF InStage
  <2>2. CASE Len(st.argv) = MaxArgs - 1
    <3>1. Len(c.argv) = Len(st.argv) + Len(e \o q)
      <4>1. e \o q \in Seq(Words)
        BY <1>1, ConcatProperties
      <4> DEFINE b == e \o q
      <4>2. b \in Seq(Words)
        BY <4>1
      <4> HIDE DEF b
      <4>3. Len(st.argv \o b) = Len(st.argv) + Len(b)
        BY <1>3, <4>2, ConcatProperties
      <4> QED BY <1>3, <4>3 DEF b
    <3>2. Len(e \o q) = Len(q) + 1 /\ Len(q) \in Nat
      BY FirstOf
    <3>3. MaxArgs \in Nat
      BY Sizes
    <3>4. ~(Len(c.argv) < MaxArgs)
      BY <2>2, <3>1, <3>2, <3>3
    <3>5. ~Small(c)
      BY <3>4, Sizes
    <3> QED BY <1>11, <1>13, <1>14, <3>5, Zenon DEF InStage
  <2> QED BY <1>14, <2>1, <2>2 DEF bad, Full
<1>15. CASE ~bad
  <2>1. g.argv \in Seq(Words) /\ c.argv = g.argv \o q
    <3>1. Append(st.argv, w) = st.argv \o e /\ st.argv \o e \in Seq(Words)
      BY <1>3, LastOf
    <3>2. Regroups(Words)
      BY Regrouped, Zenon
    <3>3. (st.argv \o e) \o q = st.argv \o (e \o q)
      BY <1>1, <1>3, <3>2, Zenon DEF Regroups
    <3> QED BY <1>3, <1>13, <1>15, <3>1, <3>3
  <2>2. g.redirs \in Seq(Pairs) /\ c.redirs = g.redirs \o u
    BY <1>3, <1>13, <1>15
  <2>3. g.used + Cost(q, u) = Cost(c.argv, c.redirs)
    <3>1. n \in Nat
      BY <1>9 DEF n
    <3> QED BY <1>3, <1>9, <1>12, <1>13, <1>15, <3>1
  <2>4. SkipBlanks(g.rest) = Body(q \o FlattenSeq(u))
    BY <1>5, <1>13, <1>15 DEF z, F
  <2>5. Left(g, c, q, u)
    BY <2>1, <2>2, <2>3, <2>4, Zenon DEF Left
  <2>6. (k + 1) + Len(Body(z)) <= L
    <3>1. Len(Body(z)) \in Nat /\ Len(Body(v)) \in Nat /\ Len(Body(z)) < Len(Body(v))
      BY <1>1, BodyShrinks DEF v
    <3>2. L \in Nat
      <4>1. StageText(c) \in Seq(Page)
        BY ItemsAre, BodyIs DEF StageText
      <4> QED BY <4>1 DEF L
    <3> QED BY <1>4, <1>5, <3>1, <3>2
  <2> QED BY <1>11, <1>13, <1>15, <2>5, <2>6, Zenon DEF InStage, z, F, L
<1> QED BY <1>14, <1>15

\* A turn that reads a redirection.
LEMMA TurnReadsRedir ==
  ASSUME NEW c \in Written, NEW st \in Stagings, NEW k \in Nat, st.ok,
         NEW r \in Pairs, NEW u \in Seq(Pairs), Left(st, c, <<>>, <<r>> \o u),
         k + Len(Body(<<>> \o FlattenSeq(<<r>> \o u))) <= Len(StageText(c))
         \/ <<>> \o FlattenSeq(<<r>> \o u) = <<>>
  PROVE  InStage(StageTurn(st), c, k + 1)
<1> DEFINE F == FlattenSeq(u)
           o == r[1]
           w == r[2]
           y == <<w>> \o F
           v == <<o>> \o y
           p == SkipBlanks(st.rest)
           e == <<r>>
           L == Len(StageText(c))
           N == <<>>
<1>1. /\ o \in RedirSymbols /\ w \in Words /\ o \in Inked /\ w \in Inked /\ F \in Seq(Inked)
      /\ e \in Seq(Pairs) /\ r = <<o, w>> /\ <<o>> \in Seq(Inked) /\ <<w>> \in Seq(Inked) /\ N \in Seq(Words)
  BY PairIs, PairsAre, InkedIs
<1>2. N \o FlattenSeq(<<r>> \o u) = v
  <2>1. FlattenSeq(<<r>> \o u) = r \o F
    BY PairIs, PairsAre, FlattenCons
  <2>2. Regroups(Inked)
    BY Regrouped, Zenon
  <2> HIDE DEF F
  <2> DEFINE a == <<o>> b == <<w>>
  <2>3. r = a \o b
    BY <1>1
  <2>4. a \in Seq(Inked) /\ b \in Seq(Inked)
    BY <1>1
  <2> HIDE DEF a, b
  <2>5. (a \o b) \o F = a \o (b \o F)
    BY <1>1, <2>2, <2>4, Zenon DEF Regroups
  <2>6. r \o F \in Seq(Inked)
    BY <1>1, PairIs, ConcatProperties
  <2> DEFINE x == r \o F
  <2>7. x \in Seq(Inked)
    BY <2>6
  <2> HIDE DEF x
  <2>8. N \o x = x
    BY <2>7, ConcatEmptySeq
  <2> QED BY <2>1, <2>3, <2>5, <2>8 DEF a, b, x
<1>3. /\ st.argv \in Seq(Words) /\ st.redirs \in Seq(Pairs)
      /\ c.argv = st.argv \o N /\ c.redirs = st.redirs \o (e \o u)
      /\ st.used + Cost(N, e \o u) = Cost(c.argv, c.redirs)
      /\ p = Body(v)
  BY <1>2, Zenon DEF Left, p, e
<1>4. k + Len(Body(v)) <= L \/ v = <<>>
  BY <1>2, Zenon DEF L
<1> HIDE DEF F, p, L, N
<1>5. /\ Body(y) = w \o Gap(F) /\ y # <<>> /\ Gap(F) \in Seq(Page) /\ SkipBlanks(Gap(F)) = Body(F)
      /\ (Gap(F) # <<>> => Head(Gap(F)) = Blank) /\ y \in Seq(Inked)
  BY <1>1, BodyCons
<1> HIDE DEF y
<1>6. /\ Body(v) = o \o Gap(y) /\ v # <<>> /\ Gap(y) \in Seq(Page) /\ SkipBlanks(Gap(y)) = Body(y)
      /\ (Gap(y) # <<>> => Head(Gap(y)) = Blank) /\ v \in Seq(Inked)
  BY <1>1, <1>5, BodyCons
<1> HIDE DEF v
<1>7. p # <<>>
  <2>1. Body(v) # <<>>
    BY <1>6, BodyIs
  <2> QED BY <1>3, <2>1
<1>8. OpAt(p) = o /\ o # RedirOps[1] /\ o # <<>> /\ Drop(p, Len(o)) = Gap(y)
  <2>1. Gap(y) # <<>>
    <3>1. Body(y) \in Seq(Page) /\ Blank \in Page
      BY <1>5, BodyIs, InkIs
    <3>2. <<Blank>> \o Body(y) # <<>>
      BY <3>1, FirstOf
    <3> QED BY <1>5, <3>2, Zenon DEF Gap
  <2>2. OpAt(o \o Gap(y)) = o /\ o # RedirOps[1] /\ o # <<>>
    BY <1>1, <1>6, <2>1, OpAtOp
  <2>3. o \in Seq(Page)
    BY <1>1, InkedIs
  <2>4. Drop(o \o Gap(y), Len(o)) = Gap(y)
    BY <1>6, <2>3, Joined
  <2> QED BY <1>3, <1>6, <2>2, <2>4
<1> DEFINE x == StoreWord(Drop(p, Len(OpAt(p))), st.used)
           g == Grown(st, o, x)
           n == Len(w)
<1>9. st.used \in Nat /\ Len(w) \in Nat
  BY <1>1, WordsAre DEF Stagings
<1> HIDE DEF o, w
<1>10. x.word = w /\ x.rest = Gap(F) /\ x.ok = (st.used + Len(w) + 1 <= BufferSize)
  <2> DEFINE t == Drop(p, Len(OpAt(p)))
  <2>1. SkipBlanks(t) = Body(<<w>> \o F)
    BY <1>6, <1>8, Zenon DEF y
  <2> HIDE DEF t
  <2> DEFINE m == st.used
  <2>2. m \in Nat
    BY <1>9
  <2> HIDE DEF m
  <2>3. ReadTo(StoreWord(t, m), w, F, m)
    BY <1>1, <2>1, <2>2, StoreRead
  <2> QED BY <2>3, Zenon DEF ReadTo, x, t, m
<1>11. Cost(N, e \o u) = n + 1 + Cost(N, u) /\ Cost(N, u) \in Nat
  BY <1>1, CostIs DEF w
<1> HIDE DEF n, x
<1>12. CASE Len(st.redirs) = MaxArgs
  <2>1. StageTurn(st) = [st EXCEPT !.ok = FALSE]
    BY <1>7, <1>8, <1>12, StageTurnCases, Zenon DEF p
  <2>2. [st EXCEPT !.ok = FALSE].ok = FALSE
    BY DEF Stagings
  <2>3. ~Small(c)
    <3> DEFINE b == e \o u
    <3>1. b \in Seq(Pairs) /\ Len(b) = Len(u) + 1 /\ Len(u) \in Nat
      BY FirstOf
    <3> HIDE DEF b
    <3>2. Len(st.redirs \o b) = Len(st.redirs) + Len(b)
      BY <1>3, <3>1, ConcatProperties
    <3>3. Len(c.redirs) = Len(st.redirs) + Len(b)
      BY <1>3, <3>2 DEF b
    <3>4. MaxArgs \in Nat
      BY Sizes
    <3>5. ~(Len(c.redirs) <= MaxArgs)
      BY <1>12, <3>1, <3>3, <3>4
    <3> QED BY <3>5, Sizes
  <2> QED BY <2>1, <2>2, <2>3, Zenon DEF InStage
<1>13. CASE Len(st.redirs) # MaxArgs
  <2>1. StageTurn(st) = g
    BY <1>7, <1>8, <1>13, StageTurnCases, Zenon DEF p, x, g
  <2> DEFINE bad == Full(st, o, x)
  <2>2. /\ bad => g.ok = FALSE
        /\ ~bad => /\ g.ok = TRUE /\ g.used = st.used + n + 1 /\ g.rest = Gap(F)
                   /\ g.argv = st.argv /\ g.redirs = Append(st.redirs, r)
    <3>1. GrownTo(g, st, o, x)
      BY GrownOf
    <3>2. /\ bad => g.ok = FALSE
          /\ ~bad => /\ g.ok = st.ok /\ g.used = st.used + Len(x.word) + 1 /\ g.rest = x.rest
                     /\ g.argv = st.argv /\ g.redirs = Append(st.redirs, <<o, x.word>>)
      BY <1>8, <3>1, Zenon DEF GrownTo
    <3>3. st.ok = TRUE
      BY DEF Stagings
    <3> HIDE DEF g, bad
    <3> QED BY <1>1, <1>10, <3>2, <3>3 DEF n
  <2> HIDE DEF g
  <2>3. CASE bad
    <3>1. ~x.ok
      BY <1>8, <2>3, Zenon DEF Full
    <3>2. n \in Nat /\ BufferSize \in Nat /\ ~(st.used + n + 1 <= BufferSize)
      BY <1>9, <1>10, <3>1, Sizes DEF n
    <3>3. ~(Cost(c.argv, c.redirs) <= BufferSize)
      <4> DEFINE a == Cost(N, e \o u)
                 b == Cost(N, u)
                 d == Cost(c.argv, c.redirs)
                 m == st.used
      <4>1. m + a = d /\ a = n + 1 + b /\ b \in Nat /\ m \in Nat
        BY <1>3, <1>9, <1>11
      <4>2. ~(m + n + 1 <= BufferSize)
        BY <3>2
      <4> HIDE DEF a, b, d, m
      <4>3. ~(d <= BufferSize)
        BY <3>2, <4>1, <4>2
      <4> QED BY <4>3 DEF d
    <3>4. ~Fits(c)
      BY <3>3, Sizes
    <3> QED BY <2>1, <2>2, <2>3, <3>4, Zenon DEF InStage
  <2>4. CASE ~bad
    <3>1. g.argv \in Seq(Words) /\ c.argv = g.argv \o N
      BY <1>3, <2>2, <2>4
    <3>2. g.redirs \in Seq(Pairs) /\ c.redirs = g.redirs \o u
      <4>1. Append(st.redirs, r) = st.redirs \o e /\ st.redirs \o e \in Seq(Pairs)
        BY <1>3, LastOf
      <4>2. Regroups(Pairs)
        BY Regrouped, Zenon
      <4> HIDE DEF e
      <4>3. (st.redirs \o e) \o u = st.redirs \o (e \o u)
        BY <1>1, <1>3, <4>2, Zenon DEF Regroups
      <4> QED BY <1>3, <2>2, <2>4, <4>1, <4>3
    <3>3. g.used + Cost(N, u) = Cost(c.argv, c.redirs)
      <4> DEFINE a == Cost(N, e \o u)
                 b == Cost(N, u)
                 d == Cost(c.argv, c.redirs)
                 m == st.used
      <4>1. m + a = d /\ a = n + 1 + b /\ b \in Nat /\ m \in Nat /\ g.used = m + n + 1
        BY <1>3, <1>9, <1>11, <2>2, <2>4
      <4>2. n \in Nat
        BY <1>9 DEF n
      <4> HIDE DEF a, b, d, m
      <4>3. g.used + b = d
        BY <4>1, <4>2
      <4> QED BY <4>3 DEF b, d
    <3>4. N \o F = F
      BY <1>1, ConcatEmptySeq DEF N
    <3>5. SkipBlanks(g.rest) = Body(N \o F)
      BY <1>5, <2>2, <2>4, <3>4
    <3>6. Left(g, c, N, u)
      BY <3>1, <3>2, <3>3, <3>5, Zenon DEF Left, F
    <3>7. (k + 1) + Len(Body(N \o F)) <= L
      <4>1. Len(Body(F)) \in Nat /\ Len(Body(y)) \in Nat /\ Len(Body(F)) < Len(Body(y))
        BY <1>1, BodyShrinks DEF y
      <4>2. Len(Body(v)) \in Nat /\ Len(Body(y)) < Len(Body(v))
        BY <1>1, <1>5, BodyShrinks DEF v
      <4>3. L \in Nat
        <5>1. StageText(c) \in Seq(Page)
          BY ItemsAre, BodyIs DEF StageText
        <5> QED BY <5>1 DEF L
      <4> QED BY <1>4, <1>6, <3>4, <4>1, <4>2, <4>3
    <3> QED BY <1>1, <2>1, <2>2, <2>4, <3>6, <3>7, Zenon DEF InStage, F, L
  <2> QED BY <2>3, <2>4
<1> QED BY <1>12, <1>13

LEMMA StageStep ==
  ASSUME NEW c \in Written, NEW st \in Stagings, NEW k \in Nat, InStage(st, c, k)
  PROVE  InStage(StageTurn(st), c, k + 1)
<1>1. CASE ~st.ok
  <2>1. StageTurn(st) = st
    BY <1>1, StageTurnCases, Zenon
  <2>2. ~Small(c) \/ ~Fits(c)
    BY <1>1, Zenon DEF InStage
  <2> QED BY <1>1, <2>1, <2>2, Zenon DEF InStage
<1>2. CASE st.ok
  <2>1. PICK q \in Seq(Words), u \in Seq(Pairs) :
           /\ Left(st, c, q, u)
           /\ \/ k + Len(Body(q \o FlattenSeq(u))) <= Len(StageText(c))
              \/ q \o FlattenSeq(u) = <<>>
    BY <1>2, Zenon DEF InStage
  <2>2. CASE q # <<>>
    <3>1. Head(q) \in Words /\ Tail(q) \in Seq(Words) /\ q = <<Head(q)>> \o Tail(q)
      BY <2>2, HeadTail
    <3> DEFINE w == Head(q)
               v == Tail(q)
    <3>2. w \in Words /\ v \in Seq(Words) /\ q = <<w>> \o v
      BY <3>1
    <3> HIDE DEF w, v
    <3>3. Left(st, c, <<w>> \o v, u)
      BY <2>1, <3>2, Zenon
    <3>4. \/ k + Len(Body((<<w>> \o v) \o FlattenSeq(u))) <= Len(StageText(c))
          \/ (<<w>> \o v) \o FlattenSeq(u) = <<>>
      BY <2>1, <3>2, Zenon
    <3> QED BY <1>2, <3>2, <3>3, <3>4, TurnReadsWord
  <2>3. CASE q = <<>> /\ u # <<>>
    <3>1. Head(u) \in Pairs /\ Tail(u) \in Seq(Pairs) /\ u = <<Head(u)>> \o Tail(u)
      BY <2>3, HeadTail
    <3> DEFINE r == Head(u)
               v == Tail(u)
    <3>2. r \in Pairs /\ v \in Seq(Pairs) /\ u = <<r>> \o v
      BY <3>1
    <3> HIDE DEF r, v
    <3>3. Left(st, c, <<>>, <<r>> \o v)
      BY <2>1, <2>3, <3>2, Zenon
    <3>4. \/ k + Len(Body(<<>> \o FlattenSeq(<<r>> \o v))) <= Len(StageText(c))
          \/ <<>> \o FlattenSeq(<<r>> \o v) = <<>>
      BY <2>1, <2>3, <3>2, Zenon
    <3> QED BY <1>2, <3>2, <3>3, <3>4, TurnReadsRedir
  <2>4. CASE q = <<>> /\ u = <<>>
    <3>1. FlattenSeq(u) = <<>>
      <4>1. <<>> \in Seq(Seq(Char))
        OBVIOUS
      <4> QED BY <2>4, <4>1, Flattened
    <3>2. q \o FlattenSeq(u) = <<>>
      BY <2>4, <3>1
    <3>3. SkipBlanks(st.rest) = <<>>
      BY <2>1, <3>2, Zenon DEF Left, Body
    <3>4. StageTurn(st) = st
      BY <3>3, StageTurnCases, Zenon
    <3> QED BY <1>2, <2>1, <3>2, <3>4, Zenon DEF InStage
  <2> QED BY <2>2, <2>3, <2>4
<1> QED BY <1>1, <1>2

\* parse_stage reads a stage back as it was written, unless it is too large.
LEMMA StageReads ==
  ASSUME NEW c \in Written
  PROVE  LET st == Stage(StageText(c)) IN
         /\ st.ok => st.argv = c.argv /\ st.redirs = c.redirs
         /\ ~st.ok => ~Small(c) \/ ~Fits(c)
<1> DEFINE s == StageText(c)
           n == Len(s)
           z0 == c.argv \o FlattenSeq(c.redirs)
<1>1. /\ z0 \in Seq(Inked) /\ z0 # <<>> /\ c.argv \in Seq(Words) /\ c.redirs \in Seq(Pairs) /\ s = Body(z0)
      /\ c.argv # <<>>
  <2>1. /\ Items(c) \in Seq(Inked) /\ Items(c) # <<>> /\ c.argv \in Seq(Words) /\ c.redirs \in Seq(Pairs)
    BY ItemsAre
  <2>2. c.argv # <<>>
    BY DEF Written
  <2> QED BY <2>1, <2>2, Zenon DEF Items, StageText
<1> HIDE DEF z0
<1>2. s \in Seq(Page) /\ s # <<>> /\ s[1] # Blank /\ n \in Nat
  BY <1>1, BodyIs
<1>3. s \in Seq(Unpiped) /\ SkipBlanks(s) = s
  <2>1. Page \subseteq Unpiped
    BY InkIs
  <2>2. Head(s) # Blank
    BY <1>2, HeadTail
  <2>3. SkipBlanks(s) = s
    BY <1>2, <2>2, SkipNone
  <2> QED BY <1>2, <2>1, <2>3, SeqMonotonic
<1> HIDE DEF s
<1>4. PICK at \in [0..Len(s) -> Stagings] :
         /\ at[0] = [ok |-> TRUE, argv |-> <<>>, redirs |-> <<>>, used |-> 0, rest |-> s]
         /\ \A k \in 1..Len(s) : at[k] = StageTurn(at[k - 1])
         /\ Stage(s) = [at[Len(s)] EXCEPT !.ok = @ /\ at[Len(s)].argv # <<>>]
  BY <1>3, StageRuns
<1> HIDE DEF n
<1>5. /\ at \in [0..n -> Stagings]
      /\ at[0] = [ok |-> TRUE, argv |-> <<>>, redirs |-> <<>>, used |-> 0, rest |-> s]
      /\ \A k \in 1..n : at[k] = StageTurn(at[k - 1])
  BY <1>4 DEF n
<1> DEFINE S == {k \in 0..n : InStage(at[k], c, k)}
<1>6. 0 \in S
  <2> DEFINE st == at[0]
  <2>1. /\ st.ok = TRUE /\ st.argv = <<>> /\ st.redirs = <<>> /\ st.used = 0 /\ st.rest = s
    BY <1>5
  <2> HIDE DEF st
  <2>2. st.argv \in Seq(Words) /\ st.redirs \in Seq(Pairs)
    BY <2>1
  <2>3. c.argv = st.argv \o c.argv /\ c.redirs = st.redirs \o c.redirs
    <3>1. <<>> \o c.argv = c.argv
      BY <1>1, ConcatEmptySeq
    <3>2. <<>> \o c.redirs = c.redirs
      BY <1>1, ConcatEmptySeq
    <3> QED BY <2>1, <3>1, <3>2
  <2>4. st.used + Cost(c.argv, c.redirs) = Cost(c.argv, c.redirs)
    <3> DEFINE a == Cost(c.argv, c.redirs)
    <3>1. a \in Nat
      BY <1>1, CostIs
    <3> HIDE DEF a
    <3>2. st.used + a = a
      BY <2>1, <3>1
    <3> QED BY <3>2 DEF a
  <2>5. SkipBlanks(st.rest) = Body(c.argv \o FlattenSeq(c.redirs))
    BY <1>1, <1>3, <2>1 DEF z0
  <2>6. Left(st, c, c.argv, c.redirs)
    BY <2>2, <2>3, <2>4, <2>5, Zenon DEF Left
  <2>7. 0 + Len(Body(c.argv \o FlattenSeq(c.redirs))) <= Len(StageText(c))
    <3>1. Body(c.argv \o FlattenSeq(c.redirs)) = s
      BY <1>1 DEF z0
    <3>2. 0 + n <= n
      BY <1>2
    <3> QED BY <3>1, <3>2 DEF s, n
  <2>8. InStage(st, c, 0)
    BY <1>1, <2>1, <2>6, <2>7, Zenon DEF InStage
  <2>9. 0 \in 0..n
    BY <1>2
  <2> QED BY <2>8, <2>9 DEF st
<1>7. ASSUME NEW k \in 1..n, k - 1 \in S PROVE k \in S
  <2>1. k - 1 \in 0..n /\ k - 1 \in Nat /\ (k - 1) + 1 = k /\ k \in 0..n
    BY <1>2
  <2>2. InStage(at[k - 1], c, k - 1) /\ at[k - 1] \in Stagings /\ at[k] = StageTurn(at[k - 1])
    BY <1>5, <1>7, <2>1
  <2>3. InStage(StageTurn(at[k - 1]), c, (k - 1) + 1)
    BY <2>1, <2>2, StageStep
  <2> QED BY <2>1, <2>2, <2>3
<1>8. n \in S
  <2> HIDE DEF S
  <2>1. \A j \in 1..n : j - 1 \in S => j \in S
    BY <1>7
  <2>2. n \in 0..n
    BY <1>2
  <2> QED BY <1>2, <1>6, <2>1, <2>2, Counting
<1> DEFINE st == at[n]
<1>9. InStage(st, c, n) /\ st \in Stagings /\ n \in 0..n
  <2>1. n \in 0..n
    BY <1>2
  <2> QED BY <1>5, <1>8, <2>1
<1> HIDE DEF S, st
<1>10. /\ Stage(s).ok <=> st.ok /\ st.argv # <<>>
       /\ Stage(s).argv = st.argv /\ Stage(s).redirs = st.redirs
  <2>1. Stage(s) = [st EXCEPT !.ok = st.ok /\ st.argv # <<>>]
    BY <1>4 DEF st, n
  <2>2. DOMAIN st = {"ok", "argv", "redirs", "used", "rest"} /\ st.ok \in BOOLEAN
    BY <1>9 DEF Stagings
  <2> QED BY <2>1, <2>2
<1>11. CASE ~st.ok
  <2>1. ~Small(c) \/ ~Fits(c)
    BY <1>9, <1>11, Zenon DEF InStage
  <2> QED BY <1>10, <1>11, <2>1 DEF s
<1>12. CASE st.ok
  <2>1. PICK q \in Seq(Words), u \in Seq(Pairs) :
           /\ Left(st, c, q, u)
           /\ \/ n + Len(Body(q \o FlattenSeq(u))) <= Len(StageText(c))
              \/ q \o FlattenSeq(u) = <<>>
    BY <1>9, <1>12, Zenon DEF InStage
  <2> DEFINE F == FlattenSeq(u)
             z == q \o F
  <2>2. q \in Seq(Inked) /\ F \in Seq(Inked)
    BY InkedIs, SeqMonotonic, PairsAre
  <2>3. z \in Seq(Inked) /\ Len(z) = Len(q) + Len(F) /\ Len(q) \in Nat /\ Len(F) \in Nat
    <3> HIDE DEF F, z
    <3>1. q \o F \in Seq(Inked) /\ Len(q \o F) = Len(q) + Len(F)
      BY <2>2, ConcatProperties
    <3>2. Len(q) \in Nat /\ Len(F) \in Nat
      BY <2>2
    <3> QED BY <3>1, <3>2 DEF z
  <2>4. n + Len(Body(z)) <= n \/ z = <<>>
    BY <2>1 DEF n, s
  <2> HIDE DEF z
  <2>5. z = <<>>
    <3>1. z # <<>> => Len(Body(z)) \in Nat \ {0}
      BY <2>3, BodyIs
    <3> QED BY <1>2, <2>4, <3>1
  <2>6. q = <<>> /\ F = <<>>
    <3>1. Len(z) = 0
      BY <2>5
    <3>2. Len(q) = 0 /\ Len(F) = 0
      <4> DEFINE a == Len(q) b == Len(F) d == Len(z)
      <4>1. d = a + b /\ a \in Nat /\ b \in Nat /\ d = 0
        BY <2>3, <3>1
      <4> HIDE DEF a, b, d
      <4>2. a = 0 /\ b = 0
        BY <4>1
      <4> QED BY <4>2 DEF a, b
    <3> QED BY <2>2, <3>2, EmptySeq
  <2>7. u = <<>>
    <3> SUFFICES ASSUME u # <<>> PROVE FALSE
      OBVIOUS
    <3>1. Head(u) \in Pairs /\ Tail(u) \in Seq(Pairs) /\ u = <<Head(u)>> \o Tail(u)
      BY HeadTail
    <3> DEFINE r == Head(u)
               v == Tail(u)
               G == FlattenSeq(v)
    <3>2. r \in Pairs /\ v \in Seq(Pairs) /\ u = <<r>> \o v
      BY <3>1
    <3> HIDE DEF r, v
    <3>3. r \in Seq(Inked) /\ v \in Seq(Seq(Inked)) /\ G \in Seq(Inked) /\ r = <<r[1], r[2]>>
      BY <3>2, PairIs, PairsAre
    <3>4. F = r \o G
      BY <3>2, <3>3, FlattenCons
    <3> HIDE DEF G, F
    <3>5. Len(r) = 2 /\ Len(G) \in Nat
      BY <3>3
    <3>6. Len(r \o G) = Len(r) + Len(G)
      BY <3>3, ConcatProperties
    <3>7. Len(F) = 0
      BY <2>6
    <3> QED BY <3>4, <3>5, <3>6, <3>7
  <2>8. c.argv = st.argv /\ c.redirs = st.redirs
    <3>1. st.argv \in Seq(Words) /\ st.redirs \in Seq(Pairs) /\ c.argv = st.argv \o <<>> /\ c.redirs = st.redirs \o <<>>
      BY <2>1, <2>6, <2>7, Zenon DEF Left
    <3>2. st.argv \o <<>> = st.argv
      BY <3>1, ConcatEmptySeq
    <3>3. st.redirs \o <<>> = st.redirs
      BY <3>1, ConcatEmptySeq
    <3> QED BY <3>1, <3>2, <3>3
  <2> QED BY <1>1, <1>10, <1>12, <2>8 DEF s
<1> QED BY <1>11, <1>12

-----------------------------------------------------------------------------
(* A line the grammar accepts runs as its tree reads.                      *)

\* The limits of the scanners that the grammar does not know.
Excused(d) ==
    \/ Len(d) > MaxPipeCmds
    \/ \E i \in DOMAIN d : ~Small(d[i]) \/ ~Fits(d[i])
    \/ Misplaced(Last(d).redirs, Len(d) = 1, TRUE)

\* The commands of a tree once i of their stages are parsed.
Parsed(d, i) == cmds = Take(d, i) /\ stages = Drop(StageTexts(d), i)

AsPrinted ==
    LET d == Denoted(ast).cmds
    IN /\ ast \in Trees /\ text = PrintInput(ast)
       /\ phase \in {"normal", "parse", "run", "refused"}
       /\ phase = "normal" => cmds = <<>> /\ background = FALSE
       /\ phase = "parse" => /\ background = ast.background
                             /\ \E i \in 0..Len(d) - 1 : Parsed(d, i)
       /\ phase = "run" /\ (\A i \in DOMAIN d : Small(d[i])) => Outcome = Denoted(ast)
       /\ phase = "refused" => Excused(d)

PrintInv ==
    /\ LineType
    /\ phase \in {"prompt", "asked", "read", "expanded", "confirm"} =>
         ast = NoTree /\ cmds = <<>> /\ background = FALSE
    /\ ast # NoTree => AsPrinted

LEMMA PrintedRunSimple ==
  ASSUME ast # NoTree, AsPrinted, RunSimple
  PROVE  AsPrinted'
<1> DEFINE D == Denoted(ast)
<1>1. /\ phase = "normal" /\ ~HasOperator(text) /\ ast' = ast /\ text' = text /\ background' = background
      /\ cmds' = <<[argv |-> ParseCommand(text), redirs |-> <<>>]>>
      /\ phase' = IF ParseCommand(text) = <<>> THEN "empty" ELSE "run"
  BY Zenon DEF RunSimple
<1>2. ast \in Trees /\ text = PrintInput(ast) /\ background = FALSE
  BY <1>1, Zenon DEF AsPrinted
<1>3. PICK q \in Seq(Words) :
         /\ q # <<>> /\ text = Spaced(q)
         /\ D = [cmds |-> <<[argv |-> q, redirs |-> <<>>]>>, background |-> FALSE]
  <2>1. ~HasOperator(PrintInput(ast))
    BY <1>1, <1>2
  <2> QED BY <1>2, <2>1, OneStage
<1>4. Split(text) = q
  BY <1>3, SplitSpaced
<1>5. text \in Seq(Char)
  BY <1>2, PrintIs
<1>6. ParseCommand(text) # <<>> /\ (Len(q) < MaxArgs => ParseCommand(text) = q)
  BY <1>3, <1>4, <1>5, ParseCommandIs
<1>7. phase' = "run"
  BY <1>1, <1>6
<1>8. ASSUME \A i \in DOMAIN D.cmds : Small(D.cmds[i]) PROVE Outcome' = D
  <2> DEFINE c == [argv |-> q, redirs |-> <<>>]
  <2>1. D.cmds = <<c>> /\ D.background = FALSE
    BY <1>3
  <2>2. 1 \in DOMAIN D.cmds /\ D.cmds[1] = c
    BY <2>1
  <2>3. Small(c)
    BY <1>8, <2>2
  <2>4. Len(q) < MaxArgs
    BY <2>3 DEF Small
  <2>5. cmds' = <<c>> /\ background' = FALSE
    BY <1>1, <1>2, <1>6, <2>4
  <2> QED BY <1>3, <2>5 DEF Outcome
<1> HIDE DEF D
<1>9. phase' # "normal" /\ phase' # "parse" /\ phase' # "refused"
  BY <1>7
<1>10. Denoted(ast') = D /\ ast' \in Trees /\ text' = PrintInput(ast')
  BY <1>1, <1>2 DEF D
<1> QED BY <1>7, <1>8, <1>9, <1>10, Zenon DEF AsPrinted

LEMMA PrintedSplit ==
  ASSUME ast # NoTree, AsPrinted, SplitStages
  PROVE  AsPrinted'
<1> DEFINE d == Denoted(ast).cmds
           p == StageTexts(d)
<1>1. /\ phase = "normal" /\ ast' = ast /\ text' = text /\ cmds' = cmds
      /\ background' = (TrailingAmp(text) # {})
  BY Zenon DEF SplitStages
<1>2. ast \in Trees /\ text = PrintInput(ast) /\ cmds = <<>>
  BY <1>1, Zenon DEF AsPrinted
<1>3. Pieces(StripAmp(text)) = p /\ (TrailingAmp(text) # {} <=> ast.background)
  BY <1>2, ScannedLine
<1>4. d \in Seq(Written) /\ d # <<>> /\ ast.background \in BOOLEAN
  <2>1. d \in Seq(Written) /\ Len(d) = Len(ast.pipeline) /\ Len(ast.pipeline) \in Nat \ {0}
        /\ ast.background \in BOOLEAN
    BY <1>2, DenotedIs
  <2> HIDE DEF d
  <2>2. d # <<>>
    BY <2>1
  <2> QED BY <2>1, <2>2
<1>5. background' = ast.background
  BY <1>1, <1>3, <1>4
<1>6. /\ phase' = CASE p = << <<>> >> -> "empty"
                    [] Len(p) > 1 /\ <<>> \in Range(p) -> "refused"
                    [] Len(p) > MaxPipeCmds -> "refused"
                    [] OTHER -> "parse"
      /\ stages' = IF phase' = "parse" THEN p ELSE <<>>
  BY <1>3, Zenon DEF SplitStages
<1> HIDE DEF d
<1>7. p \in Seq(Seq(Page)) /\ Len(p) = Len(d) /\ Len(d) \in Nat \ {0} /\ \A i \in 1..Len(d) : p[i] # <<>>
  BY <1>4, PrintedIs
<1> HIDE DEF p
<1>8. p # << <<>> >> /\ <<>> \notin Range(p)
  <2>1. <<>> \notin Range(p)
    BY <1>7 DEF Range
  <2>2. p[1] # <<>>
    BY <1>7
  <2> QED BY <2>1, <2>2
<1>9. CASE Len(p) > MaxPipeCmds
  <2>1. phase' = "refused"
    BY <1>6, <1>8, <1>9
  <2>2. Excused(d)
    BY <1>7, <1>9 DEF Excused
  <2>3. phase' # "normal" /\ phase' # "parse" /\ phase' # "run"
    BY <2>1
  <2>4. Denoted(ast').cmds = d /\ ast' \in Trees /\ text' = PrintInput(ast')
    BY <1>1, <1>2 DEF d
  <2> QED BY <2>1, <2>2, <2>3, <2>4, Zenon DEF AsPrinted
<1>10. CASE ~(Len(p) > MaxPipeCmds)
  <2>1. phase' = "parse" /\ stages' = p
    BY <1>6, <1>8, <1>10
  <2>2. Take(d, 0) = <<>> /\ Drop(p, 0) = p /\ 0 \in 0..Len(d) - 1
    <3>1. 1 \in 1..Len(p) /\ 0 \in 0..Len(d) /\ 0 \in 0..Len(d) - 1
      BY <1>7
    <3>2. Drop(p, 0) = p
      BY <1>7, <3>1, DropCons
    <3>3. Take(d, 0) \in Seq(Written) /\ Len(Take(d, 0)) = 0
      BY <1>4, <3>1, Cut
    <3>4. Take(d, 0) = <<>>
      BY <3>3, EmptySeq
    <3> QED BY <3>1, <3>2, <3>4
  <2>3. cmds' = Take(d, 0) /\ stages' = Drop(p, 0)
    BY <1>1, <1>2, <2>1, <2>2
  <2>4. phase' # "normal" /\ phase' # "refused" /\ phase' # "run"
    BY <2>1
  <2> DEFINE e == Denoted(ast').cmds
  <2>5. e = d /\ ast' \in Trees /\ text' = PrintInput(ast') /\ background' = ast'.background
    BY <1>1, <1>2, <1>5 DEF d
  <2>6. 0 \in 0..Len(e) - 1 /\ cmds' = Take(e, 0) /\ stages' = Drop(StageTexts(e), 0)
    BY <2>2, <2>3, <2>5, Zenon DEF p
  <2>7. \E i \in 0..Len(e) - 1 : cmds' = Take(e, i) /\ stages' = Drop(StageTexts(e), i)
    BY <2>6, Zenon
  <2> QED BY <2>1, <2>4, <2>5, <2>7, Zenon DEF AsPrinted, Parsed, e
<1> QED BY <1>9, <1>10

LEMMA PrintedParseStage ==
  ASSUME ast # NoTree, AsPrinted, ParseStage
  PROVE  AsPrinted'
<1> DEFINE D == Denoted(ast)
           d == D.cmds
           n == Len(d)
           p == StageTexts(d)
           st == Stage(Head(stages))
           bad == ~st.ok \/ Misplaced(st.redirs, cmds = <<>>, Len(stages) = 1)
<1>1. /\ phase = "parse" /\ ast' = ast /\ text' = text /\ background' = background
      /\ cmds' = Append(cmds, [argv |-> st.argv, redirs |-> st.redirs]) /\ stages' = Tail(stages)
      /\ phase' = IF bad THEN "refused" ELSE IF Len(stages) = 1 THEN "run" ELSE "parse"
  BY Zenon DEF ParseStage
<1>2. ast \in Trees /\ text = PrintInput(ast) /\ background = ast.background
      /\ \E i \in 0..n - 1 : Parsed(d, i)
  BY <1>1, Zenon DEF AsPrinted
<1>3. PICK i \in 0..n - 1 : cmds = Take(d, i) /\ stages = Drop(p, i)
  BY <1>2, Zenon DEF Parsed
<1>4. /\ d \in Seq(Written) /\ n \in Nat \ {0} /\ D = [cmds |-> d, background |-> ast.background]
      /\ \A j \in 1..n : j < n => d[j].redirs = <<>>
  <2>1. LET d2 == Denoted(ast).cmds m == Len(ast.pipeline) IN
        /\ m \in Nat \ {0} /\ d2 \in Seq(Written) /\ Len(d2) = m
        /\ \A j \in 1..m : d2[j].argv = ast.pipeline[j] /\ (j < m => d2[j].redirs = <<>>)
        /\ Denoted(ast) = [cmds |-> d2, background |-> ast.background]
    BY <1>2, DenotedIs
  <2> DEFINE m == Len(ast.pipeline)
  <2>2. /\ m \in Nat \ {0} /\ d \in Seq(Written) /\ n = m
        /\ \A j \in 1..m : d[j].argv = ast.pipeline[j] /\ (j < m => d[j].redirs = <<>>)
        /\ D = [cmds |-> d, background |-> ast.background]
    BY <2>1
  <2> HIDE DEF D, d, n, m
  <2> QED BY <2>2
<1>5. d # <<>>
  <2> HIDE DEF d
  <2> QED BY <1>4 DEF n
<1> HIDE DEF D, d, st
<1> DEFINE k == i + 1
           c == d[k]
<1>6. /\ k \in 1..n /\ i \in 0..n /\ i \in Nat /\ k - 1 = i
      /\ (k < n <=> n - i # 1) /\ (k = n <=> n - i = 1) /\ (k = n => (i = 0 <=> n = 1))
  <2>1. n \in Nat \ {0} /\ i \in 0..n - 1
    BY <1>4
  <2> HIDE DEF n
  <2>2. k \in 1..n /\ i \in 0..n /\ i \in Nat /\ k - 1 = i
    BY <2>1
  <2>3. (k < n <=> n - i # 1) /\ (k = n <=> n - i = 1)
    BY <2>1
  <2>4. k = n => (i = 0 <=> n = 1)
    BY <2>1
  <2> QED BY <2>2, <2>3, <2>4
<1>7. c \in Written /\ c = [argv |-> c.argv, redirs |-> c.redirs]
  <2>1. d[k] \in Written
    BY <1>4, <1>6, ElementOfSeq
  <2> HIDE DEF k
  <2> QED BY <2>1 DEF Written
<1>8. /\ p \in Seq(Seq(Page)) /\ Len(p) = n /\ p[k] = StageText(c)
  BY <1>4, <1>5, <1>6, PrintedIs
<1> HIDE DEF p, c, k
<1>9. Head(stages) = StageText(c) /\ Tail(stages) = Drop(p, k) /\ Len(stages) = n - i
  <2>1. k \in 1..Len(p) /\ i \in 0..Len(p) /\ k - 1 = i
    BY <1>6, <1>8
  <2>2. Head(Drop(p, k - 1)) = p[k] /\ Tail(Drop(p, k - 1)) = Drop(p, k)
    BY <1>8, <2>1, CutOn
  <2>3. Len(Drop(p, i)) = Len(p) - i
    BY <1>8, <2>1, Cut
  <2> QED BY <1>3, <1>6, <1>8, <2>2, <2>3
<1>10. Append(cmds, c) = Take(d, k)
  <2>1. Append(Take(d, k - 1), d[k]) = Take(d, k)
    BY <1>4, <1>6, CutOn
  <2> QED BY <1>3, <1>6, <2>1 DEF c
<1>11. cmds = <<>> <=> i = 0
  <2>1. Len(Take(d, i)) = i /\ Take(d, i) \in Seq(Written)
    BY <1>4, <1>6, Cut
  <2> QED BY <1>3, <1>6, <2>1, EmptySeq
<1>12. /\ st.ok => st.argv = c.argv /\ st.redirs = c.redirs
       /\ ~st.ok => ~Small(c) \/ ~Fits(c)
  BY <1>7, <1>9, StageReads DEF st
<1>13. k \in DOMAIN d /\ Last(d) = d[n]
  <2>1. DOMAIN d = 1..n
    BY <1>4
  <2> QED BY <1>6, <2>1, Zenon DEF Last, n
<1> DEFINE F == Denoted(ast')
           e == F.cmds
<1>14. F = D /\ e = d /\ ast' \in Trees /\ text' = PrintInput(ast') /\ background' = ast'.background
  BY <1>1, <1>2 DEF D, d
<1> HIDE DEF F, e
<1>15. CASE bad
  <2>1. phase' = "refused"
    BY <1>1, <1>15
  <2>2. Excused(d)
    <3>1. CASE ~st.ok
      <4>1. ~Small(d[k]) \/ ~Fits(d[k])
        BY <1>12, <3>1 DEF c
      <4> QED BY <1>13, <4>1, Zenon DEF Excused
    <3>2. CASE st.ok
      <4>1. Misplaced(c.redirs, cmds = <<>>, Len(stages) = 1)
        BY <1>12, <1>15, <3>2, Zenon
      <4>2. k = n
        <5> SUFFICES ASSUME k # n PROVE FALSE
          OBVIOUS
        <5>1. k < n
          BY <1>4, <1>6
        <5>2. c.redirs = <<>>
          BY <1>4, <1>6, <5>1 DEF c
        <5>3. \E j \in DOMAIN c.redirs : TRUE
          BY <4>1, Zenon DEF Misplaced
        <5>4. DOMAIN c.redirs = {}
          BY <5>2
        <5> QED BY <5>3, <5>4
      <4>3. (cmds = <<>>) = (n = 1) /\ (Len(stages) = 1) = TRUE
        BY <1>4, <1>6, <1>9, <1>11, <4>2
      <4>4. c.redirs = Last(d).redirs
        BY <1>13, <4>2 DEF c
      <4>5. Misplaced(Last(d).redirs, n = 1, TRUE)
        BY <4>1, <4>3, <4>4, Zenon
      <4> QED BY <4>5, Zenon DEF Excused, n
    <3> QED BY <3>1, <3>2
  <2>3. Excused(e)
    BY <1>14, <2>2
  <2>4. phase' # "normal" /\ phase' # "parse" /\ phase' # "run"
    BY <2>1
  <2> QED BY <1>14, <2>1, <2>3, <2>4, Zenon DEF AsPrinted, e, F
<1>16. CASE ~bad
  <2>1. st.ok
    BY <1>16
  <2>2. cmds' = Take(d, k) /\ stages' = Drop(p, k)
    <3>1. cmds' = Append(cmds, [argv |-> c.argv, redirs |-> c.redirs])
      BY <1>1, <1>12, <2>1, Zenon
    <3> QED BY <1>1, <1>7, <1>9, <1>10, <3>1, Zenon
  <2>3. CASE Len(stages) = 1
    <3>1. phase' = "run"
      BY <1>1, <1>16, <2>3
    <3>2. k = n
      BY <1>6, <1>9, <2>3, Zenon
    <3>3. Take(d, n) = d
      <4>1. n \in 0..Len(d)
        BY <1>4 DEF n
      <4>2. Take(d, n) \in Seq(Written) /\ Len(Take(d, n)) = n /\ \A j \in 1..n : Take(d, n)[j] = d[j]
        BY <1>4, <4>1, Cut
      <4> QED BY <1>4, <4>2, SameSeq DEF n
    <3>4. Outcome' = D
      BY <1>2, <1>4, <1>14, <2>2, <3>2, <3>3, <1>1 DEF Outcome
    <3>5. Outcome' = F
      BY <1>14, <3>4
    <3>6. phase' # "normal" /\ phase' # "parse" /\ phase' # "refused"
      BY <3>1
    <3> QED BY <1>14, <3>1, <3>5, <3>6, Zenon DEF AsPrinted, F
  <2>4. CASE Len(stages) # 1
    <3>1. phase' = "parse"
      BY <1>1, <1>16, <2>4
    <3>2. k \in 0..Len(e) - 1
      BY <1>4, <1>6, <1>9, <1>14, <2>4 DEF n
    <3>3. cmds' = Take(e, k) /\ stages' = Drop(StageTexts(e), k)
      BY <1>14, <2>2 DEF p
    <3>4. \E j \in 0..Len(e) - 1 : cmds' = Take(e, j) /\ stages' = Drop(StageTexts(e), j)
      BY <3>2, <3>3, Zenon
    <3>5. phase' # "normal" /\ phase' # "run" /\ phase' # "refused"
      BY <3>1
    <3> QED BY <1>14, <3>1, <3>4, <3>5, Zenon DEF AsPrinted, Parsed, e, F
  <2> QED BY <2>3, <2>4
<1> QED BY <1>15, <1>16

LEMMA PrintedStep ==
  ASSUME PrintInv, [Next]_vars
  PROVE  PrintInv'
<1>1. LineType' /\ LineType
  BY LineTypeStep DEF PrintInv
<1>2. ASSUME ast' = NoTree, cmds' = <<>>, background' = FALSE PROVE PrintInv'
  BY <1>1, <1>2, Zenon DEF PrintInv
<1>3. ASSUME ast' = NoTree, phase' \notin {"prompt", "asked", "read", "expanded", "confirm"} PROVE PrintInv'
  BY <1>1, <1>3, Zenon DEF PrintInv
<1>4. ASSUME phase \in {"prompt", "asked", "read", "expanded", "confirm"}
      PROVE  ast = NoTree /\ cmds = <<>> /\ background = FALSE
  BY <1>4, Zenon DEF PrintInv
<1>5. CASE ReadLine \/ ReadRest \/ NextPrompt
  <2>1. ast' = NoTree /\ cmds' = <<>> /\ background' = FALSE
    BY <1>5, Zenon DEF ReadLine, ReadRest, Read, NextPrompt
  <2> QED BY <1>2, <2>1
<1>6. CASE ExpandVariables \/ NoQuery \/ (phase = "asked" /\ \E s \in Suggestions : Suggest(s))
  <2>1. phase = "read" \/ phase = "asked"
    BY <1>6, Zenon DEF ExpandVariables, NoQuery
  <2>2. ast = NoTree /\ cmds = <<>> /\ background = FALSE
    BY <1>4, <2>1
  <2>3. ast' = ast /\ cmds' = cmds /\ background' = background
    BY <1>6, Zenon DEF ExpandVariables, NoQuery, Suggest
  <2> QED BY <1>2, <2>2, <2>3
<1>7. CASE \E yes \in BOOLEAN : Confirm(yes)
  <2>1. PICK yes \in BOOLEAN : Confirm(yes)
    BY <1>7
  <2>2. phase = "confirm" /\ ast' = ast /\ phase' \in {"run", "refused", "empty"}
    BY <2>1, Zenon DEF Confirm
  <2>3. ast' = NoTree
    BY <1>4, <2>2
  <2> QED BY <1>3, <2>2, <2>3
<1>8. CASE Normalize
  <2>1. /\ phase = "expanded" /\ phase' = "normal" /\ cmds' = cmds /\ background' = background
        /\ ast' = NoTree \/ ast' = ParseInput(text)
        /\ text' = IF ast' = NoTree THEN text ELSE PrintInput(ast')
    BY <1>8, Zenon DEF Normalize
  <2>2. cmds' = <<>> /\ background' = FALSE
    BY <1>4, <2>1
  <2>3. CASE ast' = NoTree
    BY <1>2, <2>2, <2>3
  <2>4. CASE ast' # NoTree
    <3>1. text \in Seq(Char)
      BY <1>1 DEF LineType
    <3>2. ast' \in Trees
      BY <2>1, <2>4, <3>1, TreeIs
    <3>3. text' = PrintInput(ast')
      BY <2>1, <2>4
    <3>4. phase' # "parse" /\ phase' # "run" /\ phase' # "refused"
      BY <2>1
    <3>5. AsPrinted'
      BY <2>1, <2>2, <3>2, <3>3, <3>4, Zenon DEF AsPrinted
    <3>6. phase' \notin {"prompt", "asked", "read", "expanded", "confirm"}
      BY <2>1
    <3> QED BY <1>1, <3>5, <3>6, Zenon DEF PrintInv
  <2> QED BY <2>3, <2>4
<1>9. CASE RunSimple \/ SplitStages \/ ParseStage
  <2>1. ast' = ast
    BY <1>9, Zenon DEF RunSimple, SplitStages, ParseStage
  <2>2. phase' \notin {"prompt", "asked", "read", "expanded", "confirm"}
    <3>1. phase' \in {"empty", "run", "refused", "parse"}
      BY <1>9, Zenon DEF RunSimple, SplitStages, ParseStage
    <3> QED BY <3>1
  <2>3. CASE ast = NoTree
    BY <1>3, <2>1, <2>2, <2>3
  <2>4. CASE ast # NoTree
    <3>1. AsPrinted
      BY <2>4, Zenon DEF PrintInv
    <3>2. AsPrinted'
      BY <1>9, <2>4, <3>1, PrintedRunSimple, PrintedSplit, PrintedParseStage
    <3> QED BY <1>1, <2>2, <3>2, Zenon DEF PrintInv
  <2> QED BY <2>3, <2>4
<1>10. CASE vars' = vars
  <2>1. /\ phase' = phase /\ rest' = rest /\ text' = text /\ ast' = ast /\ stages' = stages
        /\ cmds' = cmds /\ background' = background
    BY <1>10, Zenon DEF vars
  <2>2. Outcome' = Outcome
    BY <2>1 DEF Outcome
  <2>3. AsPrinted => AsPrinted'
    <3> SUFFICES ASSUME AsPrinted PROVE AsPrinted'
      OBVIOUS
    <3> QED BY <2>1, <2>2, Zenon DEF AsPrinted, Parsed
  <2> QED BY <1>1, <2>1, <2>3, Zenon DEF PrintInv
<1> QED BY <1>5, <1>6, <1>7, <1>8, <1>9, <1>10, Zenon DEF Next

\* The printer and the scanners agree with the grammar (printInput, then
\* execute_pipeline or parse_command): a line the BNFC parser accepts runs as its
\* tree reads, or is refused for a limit the grammar does not know.
THEOREM PrintedLinesAreUnderstood == Spec => []PrintedIsUnderstood
<1>1. Init => PrintInv
  BY DEF Init, PrintInv, LineType
<1>2. PrintInv /\ [Next]_vars => PrintInv'
  BY PrintedStep
<1>3. PrintInv => PrintedIsUnderstood
  <2> SUFFICES ASSUME PrintInv, ast # NoTree
               PROVE  LET d == Denoted(ast) IN
                      /\ phase # "empty"
                      /\ (phase = "run" /\ \A i \in DOMAIN d.cmds : Small(d.cmds[i])) => Outcome = d
                      /\ phase = "refused" => Excused(d.cmds)
    BY Zenon DEF PrintedIsUnderstood, Excused
  <2>1. AsPrinted
    BY Zenon DEF PrintInv
  <2>2. phase # "empty"
    <3>1. phase \in {"normal", "parse", "run", "refused"}
      BY <2>1, Zenon DEF AsPrinted
    <3> QED BY <3>1
  <2> QED BY <2>1, <2>2, Zenon DEF AsPrinted
<1> QED BY <1>1, <1>2, <1>3, PTL DEF Spec

=============================================================================
