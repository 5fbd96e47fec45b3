--------------------------- MODULE McpBridgeProofs ---------------------------
(***************************************************************************)
(* Theorems about the bridge, for any clients, scripts and workspaces.     *)
(***************************************************************************)
EXTENDS McpBridge, TLAPS, SequenceTheorems, FiniteSetTheorems, WellFoundedInduction

-----------------------------------------------------------------------------
(* Reading a line                                                          *)

LEMMA MinIs ==
    ASSUME NEW S, NEW m \in S, m \in Int, \A x \in S : x \in Int /\ m <= x
    PROVE  Min(S) = m
<1>1. \A n \in S : (\A x \in S : n <= x) => n = m
  OBVIOUS
<1> QED
  BY <1>1 DEF Min

LEMMA KeyPlaces ==
    ASSUME NEW t \in Seq(STRING), NEW o, NEW k, NEW i \in Keys(t, o, k)
    PROVE  o \in DOMAIN t /\ i \in DOMAIN t /\ t[i] = k /\ i + 1 \in DOMAIN t /\ t[i + 1] = ":"
<1>1. o \in DOMAIN t /\ i \in (o + 1)..(Len(t) - 1) /\ t[i] = k /\ t[i + 1] = ":"
  BY DEF Keys, ObjectAt
<1> QED
  BY <1>1

\* Where the members of the delete tool are spelled once, the text search of
\* the native server and the parser of the bridge find the same value.
LEMMA SamePlace ==
    ASSUME NEW t \in Seq(STRING), Plainly(t), NEW k \in {"path", "days", "dryRun"}
    PROVE  Raw(t, k) = BridgeGet(t, BridgeArguments(t), k)
<1> DEFINE o == BridgeArguments(t)
           found == {i \in DOMAIN t : t[i] = k}
           colons == {j \in DOMAIN t : found # {} /\ j > Min(found) /\ t[j] = ":"}
<1>1. \A i \in Keys(t, o, k) : i \in DOMAIN t /\ t[i] = k /\ i + 1 \in DOMAIN t /\ t[i + 1] = ":"
  BY KeyPlaces
<1>2. CASE found = {}
  <2>1. Keys(t, o, k) = {}
    BY <1>1, <1>2
  <2>2. colons = {}
    BY <1>2
  <2> QED
    BY <2>1, <2>2 DEF Raw, BridgeGet
<1>3. CASE found # {}
  <2>1. PICK i \in DOMAIN t : t[i] = k
    BY <1>3
  <2>2. \A j \in DOMAIN t : t[j] = k => j = i
    BY <2>1 DEF Plainly
  <2>3. i \in Keys(t, o, k)
    BY <2>1 DEF Plainly
  <2>4. found = {i} /\ Keys(t, o, k) = {i}
    BY <2>1, <2>2, <2>3, <1>1
  <2>5. i \in Nat /\ i + 1 \in DOMAIN t /\ t[i + 1] = ":"
    BY <2>1, <2>3, <1>1
  <2>6. Min({i}) = i /\ Max({i}) = i
    BY <2>5 DEF Min, Max
  <2>7. colons = {j \in DOMAIN t : j > i /\ t[j] = ":"}
    BY <2>4, <2>6
  <2> HIDE DEF colons
  <2>8. i + 1 \in colons
    BY <2>5, <2>7
  <2>9. \A j \in colons : j \in Int /\ i + 1 <= j
    <3>1. \A j \in colons : j \in 1..Len(t) /\ j > i
      BY <2>7
    <3> QED
      BY <3>1, <2>5
  <2>10. Min(colons) = i + 1
    BY <2>8, <2>9, <2>5, MinIs
  <2>11. Raw(t, k) = Min(colons) + 1
    BY <2>8 DEF Raw, colons
  <2> QED
    BY <2>4, <2>5, <2>6, <2>10, <2>11 DEF BridgeGet
<1> QED
  BY <1>2, <1>3

\* Such a line means the same to both services, whatever the workspace.
LEMMA ReadAlike ==
    ASSUME NEW t \in Seq(STRING), NEW w, Plainly(t),
           NativePlan(t, w).code = "OK", BridgePlan(t, w).code = "OK"
    PROVE  NativePlan(t, w) = BridgePlan(t, w)
<1> DEFINE path == StringAt(t, Raw(t, "path"))
           days == Raw(t, "days")
           dry == Raw(t, "dryRun")
           p == Where(path)
<1>1. /\ path = BridgeString(t, "path")
      /\ days = BridgeGet(t, BridgeArguments(t), "days")
      /\ dry = BridgeGet(t, BridgeArguments(t), "dryRun")
  BY SamePlace DEF BridgeString
<1>2. NativePlan(t, w) = OnPath(w, p, NumberOf[t[days]], BoolAt(t, dry, TRUE), Resolves(w, p))
      /\ IsNumber(t, days)
  BY DEF NativePlan, NoPlan, Plan
<1>3. BridgePlan(t, w) = OnPath(w, p, Number(t, days), Dry(t, dry), p # Outside)
  BY <1>1 DEF BridgePlan, NoPlan, Plan
<1>4. Number(t, days) = NumberOf[t[days]]
  BY <1>2 DEF Number
<1>5. BoolAt(t, dry, TRUE) = Dry(t, dry)
  BY DEF BoolAt, Dry, IsBool
<1>6. NativePlan(t, w) = Plan("OK", p, NumberOf[t[days]], BoolAt(t, dry, TRUE))
  BY <1>2 DEF OnPath, NoPlan, Plan
<1>7. BridgePlan(t, w) = Plan("OK", p, Number(t, days), Dry(t, dry))
  BY <1>3 DEF OnPath, NoPlan, Plan
<1> QED
  BY <1>4, <1>5, <1>6, <1>7

-----------------------------------------------------------------------------
(* Least and greatest places                                               *)

LEMMA Least ==
    ASSUME NEW S, S \subseteq Nat, S # {}
    PROVE  Min(S) \in S /\ \A x \in S : Min(S) <= x
<1>1. PICK m \in S : \A x \in S : <<x, m>> \notin OpToRel(<, Nat)
  BY NatLessThanWellFounded, WFMin, Zenon
<1>2. \A x \in S : ~(x < m)
  BY <1>1, Zenon DEF OpToRel
<1>3. \A x \in S : x \in Int /\ m <= x
  BY <1>2
<1>4. Min(S) = m
  BY <1>3, MinIs
<1> QED
  BY <1>3, <1>4

LEMMA Greatest ==
    ASSUME NEW n \in Nat, NEW S, S \subseteq 0..n, S # {}
    PROVE  Max(S) \in S
<1> DEFINE T == {n - x : x \in S}
<1>1. Min(T) \in T /\ \A y \in T : Min(T) <= y
  <2>1. \A x \in S : n - x \in Nat
    OBVIOUS
  <2>2. T \subseteq Nat
    BY <2>1
  <2>3. T # {}
    OBVIOUS
  <2> HIDE DEF T
  <2> QED
    BY <2>2, <2>3, Least
<1>2. PICK m \in S : Min(T) = n - m
  BY <1>1
<1>3. \A x \in S : n - m <= n - x
  BY <1>1, <1>2
<1>4. \A x \in S : m >= x
  BY <1>3
<1> QED
  BY <1>4 DEF Max

-----------------------------------------------------------------------------
(* The buffer                                                              *)

LEMMA TakenParts ==
    ASSUME NEW line, NEW rest
    PROVE  Taken(line, rest).line = line /\ Taken(line, rest).rest = rest
BY DEF Taken

\* The line NextLine takes is a whole line of the buffer, and what it leaves
\* begins where a line does.
LEMMA NextLineOfBuffer ==
    ASSUME NEW b \in Seq(STRING)
    PROVE  \E p \in 1..(Len(b) + 1) :
              /\ p = 1 \/ b[p - 1] = NewLine
              /\ NextLine(b).rest = SubSeq(b, p, Len(b))
              /\ NextLine(b).line # <<>> =>
                    \E i \in 1..Len(b), j \in 1..(Len(b) - 1) :
                        /\ i <= j /\ NextLine(b).line = SubSeq(b, i, j)
                        /\ \A k \in i..j : b[k] # NewLine
                        /\ i = 1 \/ b[i - 1] = NewLine
                        /\ b[j + 1] = NewLine
<1> DEFINE n == Len(b)
           starts == {i \in DOMAIN b : b[i] # NewLine} \cup {n + 1}
           start == Min(starts)
           ends == {j \in start..n : b[j] = NewLine} \cup {n + 1}
           end == Min(ends)
<1>1. n \in Nat /\ DOMAIN b = 1..n
  OBVIOUS
<1>2. start \in starts /\ \A x \in starts : start <= x
  <2>1. starts \subseteq Nat /\ n + 1 \in starts
    BY <1>1
  <2> HIDE DEF starts
  <2> QED
    BY <2>1, Least
<1>3. start \in 1..(n + 1) /\ (start <= n => b[start] # NewLine)
  BY <1>1, <1>2
<1>4. start = 1 \/ b[start - 1] = NewLine
  <2>1. SUFFICES ASSUME start # 1, b[start - 1] # NewLine
                 PROVE  FALSE
    OBVIOUS
  <2>2. start - 1 \in DOMAIN b
    BY <1>1, <1>3, <2>1
  <2>3. start - 1 \in starts
    BY <2>1, <2>2
  <2> HIDE DEF starts, start
  <2>4. start <= start - 1 /\ start \in Int
    BY <1>1, <1>2, <1>3, <2>3
  <2> QED
    BY <2>4
<1> HIDE DEF start
<1>5. end \in ends /\ \A x \in ends : end <= x
  <2>1. ends \subseteq Nat /\ n + 1 \in ends
    BY <1>1, <1>3
  <2> HIDE DEF ends
  <2> QED
    BY <2>1, Least
<1>6. end = Until(b, start)
  BY DEF Until
<1>7. NextLine(b) = IF end > n THEN Taken(<<>>, SubSeq(b, start, n))
                    ELSE Taken(SubSeq(b, start, end - 1), SubSeq(b, end + 1, n))
  BY <1>6 DEF NextLine, start
<1> HIDE DEF end
<1>8. CASE end > n
  <2>1. NextLine(b) = Taken(<<>>, SubSeq(b, start, n))
    BY <1>7, <1>8
  <2>2. NextLine(b).rest = SubSeq(b, start, n) /\ NextLine(b).line = <<>>
    BY <2>1, TakenParts
  <2> QED
    BY <1>3, <1>4, <2>2
<1>9. CASE ~(end > n)
  <2> DEFINE line == SubSeq(b, start, end - 1)
             rest == SubSeq(b, end + 1, n)
  <2>a. NextLine(b) = Taken(line, rest)
    BY <1>7, <1>9
  <2> HIDE DEF line, rest
  <2>b. NextLine(b).rest = rest /\ NextLine(b).line = line
    BY <2>a, TakenParts
  <2>1. /\ NextLine(b).rest = SubSeq(b, end + 1, n)
        /\ NextLine(b).line = SubSeq(b, start, end - 1)
    BY <2>b DEF line, rest
  <2>2. end \in start..n /\ b[end] = NewLine
    BY <1>1, <1>5, <1>9 DEF end
  <2>3. start < end
    BY <1>1, <1>3, <2>2
  <2>4. \A k \in start..(end - 1) : b[k] # NewLine
    <3>1. \A k \in start..(end - 1) : k \in start..n /\ ~(end <= k)
      BY <1>1, <1>3, <2>2
    <3> QED
      BY <3>1, <1>5
  <2>5. start \in 1..n /\ end - 1 \in 1..(n - 1) /\ start <= end - 1 /\ end - 1 + 1 = end
    BY <1>1, <1>3, <2>2, <2>3
  <2>6. end + 1 \in 1..(n + 1) /\ end + 1 - 1 = end
    BY <1>1, <1>3, <2>2
  <2>7. /\ start <= end - 1 /\ NextLine(b).line = SubSeq(b, start, end - 1)
        /\ \A k \in start..(end - 1) : b[k] # NewLine
        /\ start = 1 \/ b[start - 1] = NewLine
        /\ b[(end - 1) + 1] = NewLine
    BY <1>4, <2>1, <2>2, <2>4, <2>5
  <2>8. b[(end + 1) - 1] = NewLine
    BY <2>2, <2>6
  <2> QED
    BY <2>1, <2>5, <2>6, <2>7, <2>8
<1> QED
  BY <1>8, <1>9

\* What is held of a text, from the start of a line up to the n-th place, gives
\* a whole line of the text, and what stays behind starts with a line again.
LineStart(t, a) == a = 1 \/ t[a - 1] = NewLine
Held(t, n, b) == \E a \in 1..(n + 1) : LineStart(t, a) /\ b = SubSeq(t, a, n)

LEMMA TextHeld ==
    ASSUME NEW t \in Seq(STRING), NEW n \in 0..Len(t), NEW b, Held(t, n, b)
    PROVE  /\ Held(t, n, NextLine(b).rest)
           /\ NextLine(b).line # <<>> => WholeLine(t, NextLine(b).line)
<1>1. PICK a \in 1..(n + 1) : LineStart(t, a) /\ b = SubSeq(t, a, n)
  BY DEF Held
<1>2. Len(t) \in Nat /\ n \in Nat /\ a \in Nat /\ DOMAIN t = 1..Len(t)
  OBVIOUS
<1>3. /\ b \in Seq(STRING) /\ Len(b) = n - a + 1
      /\ \A i \in 1..Len(b) : b[i] = t[a + i - 1]
  <2>1. \A i \in a..n : t[i] \in STRING
    BY <1>2
  <2>2. /\ SubSeq(t, a, n) \in Seq(STRING)
        /\ Len(SubSeq(t, a, n)) = IF a <= n THEN n - a + 1 ELSE 0
        /\ \A i \in 1..(n - a + 1) : SubSeq(t, a, n)[i] = t[a + i - 1]
    BY <1>2, <2>1, SubSeqProperties
  <2>3. (IF a <= n THEN n - a + 1 ELSE 0) = n - a + 1
    BY <1>2
  <2> QED
    BY <1>1, <2>2, <2>3
<1>4. \A i \in 1..Len(b), j \in 1..Len(b) :
         SubSeq(b, i, j) = SubSeq(t, a + i - 1, a + j - 1)
  <2>1. TAKE i \in 1..Len(b), j \in 1..Len(b)
  <2>2. a \in 1..Len(t) /\ n \in 1..Len(t) /\ i \in 1..(n - a + 1) /\ j \in 1..(n - a + 1)
    BY <1>2, <1>3
  <2> QED
    BY <1>1, <2>2, SubSeqOfSubSeq
<1>5. PICK p \in 1..(Len(b) + 1) :
        /\ p = 1 \/ b[p - 1] = NewLine
        /\ NextLine(b).rest = SubSeq(b, p, Len(b))
        /\ NextLine(b).line # <<>> =>
              \E i \in 1..Len(b), j \in 1..(Len(b) - 1) :
                  /\ i <= j /\ NextLine(b).line = SubSeq(b, i, j)
                  /\ \A k \in i..j : b[k] # NewLine
                  /\ i = 1 \/ b[i - 1] = NewLine
                  /\ b[j + 1] = NewLine
  BY <1>3, NextLineOfBuffer
<1>6. \A q \in 1..(Len(b) + 1) : (q = 1 \/ b[q - 1] = NewLine) => LineStart(t, a + q - 1)
  <2>1. SUFFICES ASSUME NEW q \in 1..(Len(b) + 1), q # 1, b[q - 1] = NewLine
                 PROVE  t[a + q - 2] = NewLine
    <3>1. \A q \in 1..(Len(b) + 1) : a + q - 1 - 1 = a + q - 2 /\ (q = 1 => a + q - 1 = a)
      BY <1>2, <1>3
    <3> QED
      BY <1>1, <3>1 DEF LineStart
  <2>2. q - 1 \in 1..Len(b) /\ a + (q - 1) - 1 = a + q - 2
    BY <1>2, <1>3, <2>1
  <2> QED
    BY <1>3, <2>1, <2>2
<1>7. Held(t, n, NextLine(b).rest)
  <2>1. a + p - 1 \in 1..(n + 1) /\ LineStart(t, a + p - 1)
    BY <1>2, <1>3, <1>5, <1>6
  <2>2. SubSeq(b, p, Len(b)) = SubSeq(t, a + p - 1, n)
    <3>1. CASE p = Len(b) + 1
      <4>1. a + p - 1 = n + 1
        BY <1>2, <1>3, <3>1
      <4>2. SubSeq(b, p, Len(b)) = <<>> /\ SubSeq(t, n + 1, n) = <<>>
        BY <1>2, <1>3, <3>1, SubSeqEmpty
      <4> QED
        BY <4>1, <4>2
    <3>2. CASE p # Len(b) + 1
      <4>1. p \in 1..Len(b) /\ Len(b) \in 1..Len(b) /\ a + Len(b) - 1 = n
        BY <1>2, <1>3, <3>2
      <4> QED
        BY <1>4, <4>1
    <3> QED
      BY <3>1, <3>2
  <2> QED
    BY <1>5, <2>1, <2>2 DEF Held
<1>8. ASSUME NextLine(b).line # <<>>
      PROVE  WholeLine(t, NextLine(b).line)
  <2>1. PICK i \in 1..Len(b), j \in 1..(Len(b) - 1) :
           /\ i <= j /\ NextLine(b).line = SubSeq(b, i, j)
           /\ \A k \in i..j : b[k] # NewLine
           /\ i = 1 \/ b[i - 1] = NewLine
           /\ b[j + 1] = NewLine
    BY <1>5, <1>8
  <2> DEFINE x == a + i - 1
             y == a + j - 1
  <2>2. x \in 1..Len(t) /\ y \in 1..Len(t) /\ x <= y /\ y < Len(t)
    BY <1>2, <1>3, <2>1
  <2>3. NextLine(b).line = SubSeq(t, x, y)
    <3>1. j \in 1..Len(b)
      BY <1>3
    <3> QED
      BY <1>4, <2>1, <3>1
  <2>4. \A k \in x..y : t[k] # NewLine
    <3>1. TAKE k \in x..y
    <3>2. k - a + 1 \in i..j /\ k - a + 1 \in 1..Len(b) /\ a + (k - a + 1) - 1 = k
      BY <1>2, <1>3, <2>1
    <3> QED
      BY <1>3, <2>1, <3>2
  <2>5. LineStart(t, x)
    <3>1. i \in 1..(Len(b) + 1)
      BY <1>3
    <3> QED
      BY <1>6, <2>1, <3>1
  <2>6. t[y + 1] = NewLine
    <3>1. j + 1 \in 1..Len(b) /\ a + (j + 1) - 1 = y + 1
      BY <1>2, <1>3
    <3> QED
      BY <1>3, <2>1, <3>1
  <2> HIDE DEF x, y
  <2> QED
    BY <1>2, <2>2, <2>3, <2>4, <2>5, <2>6 DEF WholeLine, LineStart
<1> QED
  BY <1>7, <1>8

\* A chunk lengthens what is held.
LEMMA ChunkHeld ==
    ASSUME NEW t \in Seq(STRING), NEW n \in 0..Len(t), NEW b, Held(t, n, b),
           NEW k \in (n + 1)..Len(t)
    PROVE  Held(t, k, Buffered(b, SubSeq(t, n + 1, k)))
<1>1. PICK a \in 1..(n + 1) : LineStart(t, a) /\ b = SubSeq(t, a, n)
  BY DEF Held
<1>2. a \in 1..(Len(t) + 1) /\ n \in (a - 1)..Len(t) /\ k \in n..Len(t) /\ a \in 1..(k + 1)
  OBVIOUS
<1>3. SubSeq(t, a, n) \o SubSeq(t, n + 1, k) = SubSeq(t, a, k)
  BY <1>2, ConcatAdjacentSubSeq
<1> QED
  BY <1>1, <1>2, <1>3 DEF Held, Buffered

-----------------------------------------------------------------------------
(* What a delete has to go by                                              *)

\* The parser takes a member's value from behind one of the keys.
LEMMA MemberFound ==
    ASSUME NEW t \in Seq(STRING), NEW o, NEW k, BridgeGet(t, o, k) # 0
    PROVE  \E i \in Keys(t, o, k) : BridgeGet(t, o, k) = i + 2
<1> DEFINE S == Keys(t, o, k)
<1>1. S # {} /\ BridgeGet(t, o, k) = Max(S) + 2
  BY DEF BridgeGet
<1>2. S \subseteq 0..Len(t) /\ Len(t) \in Nat
  <2>1. \A i \in S : i \in DOMAIN t
    BY KeyPlaces
  <2> HIDE DEF S
  <2> QED
    BY <2>1
<1> HIDE DEF S
<1>3. Max(S) \in S
  BY <1>1, <1>2, Greatest
<1> QED
  BY <1>1, <1>3 DEF S

\* A file of a scan was asked for by the line the plan was made of.
LEMMA ScanAskedFor ==
    ASSUME NEW t \in Seq(STRING), NEW w, NEW plan, plan = BridgePlan(t, w),
           plan.code = "OK", ~plan.dry, NEW f \in Old(w, plan.root, plan.days)
    PROVE  AskedFor(t, f, w.files[f].age)
<1> DEFINE o == BridgeArguments(t)
           path == BridgeString(t, "path")
           days == BridgeGet(t, o, "days")
           dry == BridgeGet(t, o, "dryRun")
<1>1. /\ path # "" /\ Counts(t, days)
      /\ plan = OnPath(w, Where(path), Number(t, days), Dry(t, dry), Where(path) # Outside)
  BY DEF BridgePlan, NoPlan, Plan
<1>2. plan = Plan("OK", Where(path), Number(t, days), Dry(t, dry))
  <2> DEFINE n == Number(t, days)
             stays == Dry(t, dry)
             within == Where(path) # Outside
  <2>1. plan.code = "OK" /\ plan = OnPath(w, Where(path), n, stays, within)
    BY <1>1
  <2> HIDE DEF path, n, stays, within
  <2>2. plan = Plan("OK", Where(path), n, stays)
    BY <2>1 DEF OnPath, NoPlan, Plan
  <2> QED
    BY <2>2 DEF n, stays
<1>3. plan.root = Where(path) /\ plan.days = Number(t, days) /\ ~Dry(t, dry)
  BY <1>2 DEF Plan
<1>4. IsPrefix(Where(path), f) /\ w.files[f].age > Number(t, days)
  BY <1>3 DEF Old
<1>5. PICK p \in Keys(t, o, "path") : path = StringAt(t, p + 2)
  <2>1. BridgeGet(t, o, "path") # 0
    <3>1. 0 \notin DOMAIN t
      OBVIOUS
    <3>2. StringAt(t, 0) = ""
      BY <3>1 DEF StringAt, IsString
    <3> QED
      BY <1>1, <3>2 DEF BridgeString
  <2> QED
    BY <2>1, MemberFound DEF BridgeString
<1>6. PICK d \in Keys(t, o, "days") : days = d + 2
  <2>1. days # 0
    <3>1. 0 \notin DOMAIN t
      OBVIOUS
    <3> QED
      BY <1>1, <3>1 DEF Counts, IsNumber
  <2> QED
    BY <2>1, MemberFound
<1>7. PICK r \in Keys(t, o, "dryRun") : t[r + 2] = "false"
  <2>1. dry \in DOMAIN t /\ t[dry] = "false"
    BY <1>3 DEF Dry
  <2>2. dry # 0
    BY <2>1
  <2> QED
    BY <2>1, <2>2, MemberFound
<1>8. o \in DOMAIN t
  BY KeyPlaces
<1>9. TellsToDelete(t, o, f)
  BY <1>4, <1>5, <1>7 DEF TellsToDelete
<1>10. days \in Days(t, o)
  BY <1>6 DEF Days
<1>11. IsNumber(t, days) => OlderThan(t, days, w.files[f].age)
  BY <1>4 DEF OlderThan, Number
<1> QED
  BY <1>8, <1>9, <1>10, <1>11 DEF AskedFor

-----------------------------------------------------------------------------
(* The inductive invariant                                                 *)

\* What the bridge holds of a connection, until it has answered it.
Connection(c, s) ==
    /\ s = [sent |-> s.sent, buffer |-> s.buffer, lines |-> s.lines, replied |-> s.replied,
            ended |-> s.ended, answers |-> s.answers]
    /\ s.sent \in 0..Len(Text(c))
    /\ ~s.replied => Held(Text(c), s.sent, s.buffer)
Answered(c, s) ==
    /\ s.answers = <<>> \/ \E e \in log : e.conn = c /\ s.answers = <<e.answer>>
    /\ ~s.replied => s.answers = <<>> /\ \A e \in log : e.conn # c

Sockets ==
    /\ script \in Scripts /\ socket = [c \in Clients |-> socket[c]]
    /\ \A c \in Clients : Connection(c, socket[c]) /\ Answered(c, socket[c])
Logged ==
    \A e \in log : /\ e.conn \in Clients /\ WholeLine(Text(e.conn), e.line)
                   /\ \A f \in log : e.conn = f.conn => e = f
Asked == \A a \in asked : a.conn \in Clients /\ WholeLine(Text(a.conn), a.line)
Turns ==
    turn # Quiet =>
        /\ turn = [conn |-> turn.conn, line |-> turn.line, todo |-> turn.todo,
                   found |-> turn.found, gone |-> turn.gone]
        /\ turn.conn \in Clients /\ ~socket[turn.conn].replied
        /\ WholeLine(Text(turn.conn), turn.line)
        /\ \A e \in turn.found : AskedFor(turn.line, e.file, e.age)
Removed ==
    \A r \in removed :
        /\ r.conn \in Clients /\ AskedFor(r.line, r.file, r.age)
        /\ \/ turn.conn = r.conn /\ turn.line = r.line
           \/ \E e \in log : e.conn = r.conn /\ e.line = r.line
Inv == Sockets /\ Logged /\ Asked /\ Turns /\ Removed

LEMMA RecordRead ==
    ASSUME NEW s, NEW rest, NEW count, NEW r, r = [s EXCEPT !.buffer = rest, !.lines = count],
           s = [sent |-> s.sent, buffer |-> s.buffer, lines |-> s.lines, replied |-> s.replied,
                ended |-> s.ended, answers |-> s.answers]
    PROVE  r = [sent |-> s.sent, buffer |-> rest, lines |-> count, replied |-> s.replied,
                ended |-> s.ended, answers |-> s.answers]
OBVIOUS

LEMMA RecordEnded ==
    ASSUME NEW s, NEW ended, NEW r, r = [s EXCEPT !.ended = ended],
           s = [sent |-> s.sent, buffer |-> s.buffer, lines |-> s.lines, replied |-> s.replied,
                ended |-> s.ended, answers |-> s.answers]
    PROVE  r = [sent |-> s.sent, buffer |-> s.buffer, lines |-> s.lines, replied |-> s.replied,
                ended |-> ended, answers |-> s.answers]
OBVIOUS

LEMMA TextIsTokens ==
    ASSUME script \in Scripts, NEW c \in Clients
    PROVE  Text(c) \in Seq(STRING)
BY ScriptsAssumption DEF Text

\* A connection may be held differently as long as it is not answered.
LEMMA ConnectionKept ==
    ASSUME Sockets, Logged, NEW c \in Clients, NEW s, Connection(c, s),
           s.replied = socket[c].replied, s.answers = socket[c].answers,
           socket' = [socket EXCEPT ![c] = s], script' = script, log' = log
    PROVE  Sockets' /\ Logged'
<1>1. \A d \in Clients : Text(d)' = Text(d)
  BY DEF Text
<1>2. /\ socket' = [d \in Clients |-> socket'[d]] /\ script' \in Scripts
      /\ socket'[c] = s /\ \A d \in Clients \ {c} : socket'[d] = socket[d]
  BY DEF Sockets
<1>3. \A d \in Clients : Connection(d, socket[d])' /\ Answered(d, socket[d])'
  <2>1. TAKE d \in Clients
  <2>2. CASE d = c
    <3>1. socket'[d] = s
      BY <1>2, <2>2
    <3>2. Connection(d, socket[d])'
      BY <1>1, <2>2, <3>1 DEF Connection
    <3>3. Answered(c, socket[c])
      BY DEF Sockets
    <3> QED
      BY <2>2, <3>1, <3>2, <3>3 DEF Answered
  <2>3. CASE d # c
    <3>1. socket'[d] = socket[d]
      BY <1>2, <2>3
    <3>2. Connection(d, socket[d]) /\ Answered(d, socket[d])
      BY DEF Sockets
    <3> QED
      BY <1>1, <3>1, <3>2 DEF Connection, Answered
  <2> QED
    BY <2>2, <2>3
<1> QED
  BY <1>1, <1>2, <1>3 DEF Sockets, Logged

\* One answer, and it is logged.
LEMMA ReplyKept ==
    ASSUME Sockets, Logged, NEW c \in Clients, NEW s, NEW line, NEW answer, Connection(c, s),
           s.replied = socket[c].replied, s.answers = socket[c].answers,
           WholeLine(Text(c), line), Reply(c, s, line, answer), script' = script
    PROVE  /\ Sockets' /\ Logged' /\ log \subseteq log'
           /\ ~s.replied => \E e \in log' : e.conn = c /\ e.line = line
<1> DEFINE entry == [conn |-> c, line |-> line, answer |-> answer]
           r == [s EXCEPT !.replied = TRUE,
                          !.answers = IF s.ended THEN @ ELSE Append(@, answer)]
<1>1. CASE s.replied
  <2>1. log' = log /\ socket' = [socket EXCEPT ![c] = s]
    BY <1>1 DEF Reply, MayReply
  <2> QED
    BY <1>1, <2>1, ConnectionKept
<1>2. CASE ~s.replied
  <2>1. log' = log \cup {entry} /\ socket' = [socket EXCEPT ![c] = r]
    BY <1>2 DEF Reply, MayReply
  <2>2. \A d \in Clients : Text(d)' = Text(d)
    BY DEF Text
  <2>3. /\ socket' = [d \in Clients |-> socket'[d]] /\ script' \in Scripts
        /\ socket'[c] = r /\ \A d \in Clients \ {c} : socket'[d] = socket[d]
    BY <2>1 DEF Sockets
  <2>4. entry.conn = c /\ entry.line = line /\ entry.answer = answer
    OBVIOUS
  <2>5. s.answers = <<>> /\ \A e \in log : e.conn # c
    BY <1>2 DEF Sockets, Answered
  <2>6. /\ r = [sent |-> s.sent, buffer |-> s.buffer, lines |-> s.lines, replied |-> TRUE,
                ended |-> s.ended, answers |-> r.answers]
        /\ r.answers = <<>> \/ r.answers = <<answer>>
    <3> DEFINE new == IF s.ended THEN s.answers ELSE Append(s.answers, answer)
    <3>1. s.answers = <<>> /\ Append(<<>>, answer) = <<answer>>
      BY <2>5
    <3>2. new = <<>> \/ new = <<answer>>
      BY <3>1
    <3>3. r = [s EXCEPT !.replied = TRUE, !.answers = new]
      OBVIOUS
    <3> HIDE DEF new, r
    <3>4. r = [sent |-> s.sent, buffer |-> s.buffer, lines |-> s.lines, replied |-> TRUE,
               ended |-> s.ended, answers |-> new]
      BY <3>3 DEF Connection
    <3> QED
      BY <3>2, <3>4
  <2> HIDE DEF entry, r
  <2>7. \A d \in Clients : Connection(d, socket[d])' /\ Answered(d, socket[d])'
    <3>1. TAKE d \in Clients
    <3>2. CASE d = c
      <4>1. socket'[d] = r
        BY <2>3, <3>2
      <4>2. Connection(d, socket[d])'
        BY <2>2, <2>6, <3>2, <4>1 DEF Connection
      <4>3. Answered(d, socket[d])'
        BY <2>1, <2>4, <2>6, <3>2, <4>1 DEF Answered
      <4> QED
        BY <4>2, <4>3
    <3>3. CASE d # c
      <4>1. socket'[d] = socket[d]
        BY <2>3, <3>3
      <4>2. Connection(d, socket[d]) /\ Answered(d, socket[d])
        BY DEF Sockets
      <4>3. Connection(d, socket[d])'
        BY <2>2, <4>1, <4>2 DEF Connection
      <4> QED
        BY <2>1, <2>4, <3>3, <4>1, <4>2, <4>3 DEF Answered
    <3> QED
      BY <3>2, <3>3
  <2>8. Logged'
    BY <2>1, <2>2, <2>4, <2>5 DEF Logged
  <2> QED
    BY <2>1, <2>3, <2>4, <2>7, <2>8 DEF Sockets
<1> QED
  BY <1>1, <1>2

\* Between two handlers nothing but the log speaks for the files removed.
LEMMA LoggedRemoved ==
    ASSUME Removed, turn = Quiet, removed' = removed, log \subseteq log'
    PROVE  Removed'
<1>1. \A r \in removed : turn.conn # r.conn
  BY NobodyAssumption DEF Removed, Quiet
<1> QED
  BY <1>1 DEF Removed

LEMMA AskedKept ==
    ASSUME Asked, asked' \subseteq asked, script' = script
    PROVE  Asked'
BY DEF Asked, Text

LEMMA QuietKept ==
    ASSUME Inv, turn = Quiet, turn' = Quiet, removed' = removed, log \subseteq log',
           Sockets', Logged', Asked'
    PROVE  Inv'
<1>1. Removed'
  BY LoggedRemoved DEF Inv
<1>2. Turns'
  BY DEF Turns, Quiet
<1> QED
  BY <1>1, <1>2 DEF Inv

LEMMA ScanKept ==
    ASSUME Inv, turn = Quiet, NEW c \in Clients, NEW s, NEW line, Connection(c, s),
           ~s.replied, ~socket[c].replied, s.answers = socket[c].answers,
           s.replied = socket[c].replied, WholeLine(Text(c), line),
           Scan(c, s, line), script' = script, removed' = removed
    PROVE  Inv'
<1> DEFINE plan == BridgePlan(line, ws)
           found == Old(ws, plan.root, plan.days)
           files == {[file |-> f, age |-> ws.files[f].age] : f \in found}
<1>1. CASE plan.code # "OK" \/ plan.dry \/ found = {}
  <2>1. PICK answer : Reply(c, s, line, answer) /\ UNCHANGED <<up, turn, asked, corpus>>
    BY <1>1 DEF Scan
  <2>2. Sockets' /\ Logged' /\ log \subseteq log'
    BY <2>1, ReplyKept DEF Inv
  <2>3. Asked'
    BY <2>1, AskedKept DEF Inv
  <2> QED
    BY <2>1, <2>2, <2>3, QuietKept
<1>2. CASE plan.code = "OK" /\ ~plan.dry /\ found # {}
  <2>1. /\ turn' = [conn |-> c, line |-> line, todo |-> found, gone |-> 0, found |-> files]
        /\ socket' = [socket EXCEPT ![c] = s] /\ asked' = asked /\ log' = log
    BY <1>2 DEF Scan
  <2>2. line \in Seq(STRING)
    <3>1. Text(c) \in Seq(STRING)
      BY TextIsTokens DEF Inv, Sockets
    <3>2. PICK i \in DOMAIN Text(c), j \in DOMAIN Text(c) : line = SubSeq(Text(c), i, j)
      BY DEF WholeLine
    <3>3. i \in Int /\ j \in Int /\ \A k \in i..j : Text(c)[k] \in STRING
      BY <3>1, <3>2
    <3> QED
      BY <3>2, <3>3, SubSeqProperties
  <2>3. \A f \in found : AskedFor(line, f, ws.files[f].age)
    <3> HIDE DEF plan
    <3>1. plan = BridgePlan(line, ws)
      BY DEF plan
    <3> QED
      BY <1>2, <2>2, <3>1, ScanAskedFor
  <2> HIDE DEF plan, found
  <2>4. \A e \in files : AskedFor(line, e.file, e.age)
    BY <2>3
  <2> HIDE DEF files
  <2>5. Sockets' /\ Logged'
    BY <2>1, ConnectionKept DEF Inv
  <2>6. Asked'
    BY <2>1, AskedKept DEF Inv
  <2>7. Removed'
    BY <2>1, LoggedRemoved DEF Inv
  <2>8. Turns'
    <3>1. /\ turn'.conn = c /\ turn'.line = line /\ turn'.found = files
          /\ turn' = [conn |-> turn'.conn, line |-> turn'.line, todo |-> turn'.todo,
                      found |-> turn'.found, gone |-> turn'.gone]
      BY <2>1
    <3>2. socket'[c] = s /\ Text(c)' = Text(c)
      BY <2>1 DEF Inv, Sockets, Text
    <3>3. /\ turn'.conn \in Clients /\ ~socket'[turn'.conn].replied
          /\ WholeLine(Text(c)', turn'.line)
          /\ \A e \in turn'.found : AskedFor(turn'.line, e.file, e.age)
      BY <2>4, <3>1, <3>2
    <3> QED
      BY <3>1, <3>3 DEF Turns
  <2> QED
    BY <2>5, <2>6, <2>7, <2>8 DEF Inv
<1> QED
  BY <1>1, <1>2

LEMMA HandleKept ==
    ASSUME Inv, turn = Quiet, NEW c \in Clients, NEW s, NEW line, Connection(c, s),
           ~s.replied, ~socket[c].replied, s.answers = socket[c].answers,
           s.replied = socket[c].replied, WholeLine(Text(c), line),
           Handle(c, s, line), script' = script, removed' = removed
    PROVE  Inv'
<1> Sockets /\ Logged /\ Asked
  BY DEF Inv
<1>1. ASSUME Crash, socket' = [socket EXCEPT ![c] = s]
      PROVE  Inv'
  <2>1. turn' = Quiet /\ asked' = {} /\ log' = log
    BY <1>1 DEF Crash
  <2>2. Sockets' /\ Logged'
    BY <1>1, <2>1, ConnectionKept
  <2> QED
    BY <2>1, <2>2, AskedKept, QuietKept
<1>2. ASSUME NEW answer, Reply(c, s, line, answer), UNCHANGED <<turn, asked>>
      PROVE  Inv'
  <2>1. Sockets' /\ Logged' /\ log \subseteq log'
    BY <1>2, ReplyKept
  <2> QED
    BY <1>2, <2>1, AskedKept, QuietKept
<1>3. ASSUME NEW n, asked' = asked \cup {[conn |-> c, line |-> line, nth |-> n]},
             socket' = [socket EXCEPT ![c] = s], UNCHANGED <<turn, log>>
      PROVE  Inv'
  <2>1. Sockets' /\ Logged'
    BY <1>3, ConnectionKept
  <2>2. \A a \in asked' : a \in asked \/ (a.conn = c /\ a.line = line)
    BY <1>3
  <2>3. Asked'
    BY <2>2 DEF Asked, Text
  <2> QED
    BY <1>3, <2>1, <2>3, QuietKept
<1>4. CASE Call(c, s, line)
  <2> DEFINE tool == BridgeTool(line)
             asks == tool \in DocumentTools /\ BridgeAsks(line)
  <2>1. CASE Scan(c, s, line)
    BY <2>1, ScanKept
  <2>2. CASE WalkFails(c, s, line)
    BY <2>2, <1>1 DEF WalkFails
  <2>3. CASE Settles(c, s, line, asks)
    <3>1. PICK answer : Reply(c, s, line, answer) /\ UNCHANGED <<up, turn, asked>>
      BY <2>3 DEF Settles
    <3> QED
      BY <3>1, <1>2
  <2>4. CASE /\ asked' = asked \cup {[conn |-> c, line |-> line, nth |-> s.lines]}
             /\ socket' = [socket EXCEPT ![c] = s]
             /\ UNCHANGED <<up, turn, log, edits>>
    BY <2>4, <1>3
  <2> QED
    BY <1>4, <2>1, <2>2, <2>3, <2>4 DEF Call
<1>5. CASE line = <<"null">> /\ Crash /\ socket' = [socket EXCEPT ![c] = s]
  BY <1>1, <1>5
<1>6. CASE \E answer : Reply(c, s, line, answer) /\ UNCHANGED <<up, turn, asked, corpus, edits>>
  BY <1>2, <1>6
<1> QED
  BY <1>4, <1>5, <1>6 DEF Handle

LEMMA DataKept ==
    ASSUME Inv, NEW c \in Clients, Data(c)
    PROVE  Inv'
<1>1. turn = Quiet /\ script' = script /\ removed' = removed
  BY DEF Data, Free
<1> DEFINE t == Text(c)
           n == socket[c].sent
<1>2. t \in Seq(STRING) /\ Connection(c, socket[c]) /\ n \in 0..Len(t)
  <2>1. script \in Scripts /\ Connection(c, socket[c])
    BY DEF Inv, Sockets
  <2> QED
    BY <2>1, TextIsTokens DEF Connection
<1> DEFINE buffer(k) == Buffered(socket[c].buffer, SubSeq(t, n + 1, k))
           next(k) == NextLine(buffer(k))
           s(k) == [socket[c] EXCEPT !.sent = k]
           read(k) == [s(k) EXCEPT !.buffer = next(k).rest, !.lines = @ + 1]
           idle(k) == [s(k) EXCEPT !.buffer = IF Reads(s(k)) THEN next(k).rest ELSE buffer(k)]
<1>3. PICK k \in ChunkEnds(c) :
        IF Reads(s(k)) /\ next(k).line # <<>>
        THEN Handle(c, read(k), next(k).line)
        ELSE /\ socket' = [socket EXCEPT ![c] = idle(k)]
             /\ UNCHANGED <<up, turn, asked, corpus, log, edits>>
  BY DEF Data
<1>4. k \in (n + 1)..Len(t) /\ k \in 0..Len(t)
  BY <1>2 DEF ChunkEnds
<1>5. s(k) = [sent |-> k, buffer |-> socket[c].buffer, lines |-> socket[c].lines,
              replied |-> socket[c].replied, ended |-> socket[c].ended,
              answers |-> socket[c].answers]
  BY <1>2 DEF Connection
<1> HIDE DEF t, buffer, s
<1>6. Reads(s(k)) <=> ~socket[c].replied
  BY <1>5 DEF Reads
<1>7. ASSUME ~socket[c].replied
      PROVE  /\ Held(t, k, next(k).rest)
             /\ next(k).line # <<>> => WholeLine(t, next(k).line)
  <2>1. Held(t, n, socket[c].buffer)
    BY <1>2, <1>7 DEF Connection, t
  <2>2. Held(t, k, buffer(k))
    BY <1>2, <1>4, <2>1, ChunkHeld DEF buffer
  <2> QED
    BY <1>2, <1>4, <2>2, TextHeld
<1> HIDE DEF n, next
<1>8. CASE Reads(s(k)) /\ next(k).line # <<>>
  <2>1. read(k) = [sent |-> k, buffer |-> next(k).rest, lines |-> s(k).lines + 1,
                   replied |-> socket[c].replied, ended |-> socket[c].ended,
                   answers |-> socket[c].answers]
    <3> DEFINE lines == s(k).lines + 1
               rest == next(k).rest
    <3>1. read(k) = [s(k) EXCEPT !.buffer = rest, !.lines = lines]
      OBVIOUS
    <3> HIDE DEF lines, rest, read
    <3>2. read(k) = [sent |-> k, buffer |-> rest, lines |-> lines,
                     replied |-> socket[c].replied, ended |-> socket[c].ended,
                     answers |-> socket[c].answers]
      <4>1. /\ s(k).sent = k /\ s(k).replied = socket[c].replied
            /\ s(k).ended = socket[c].ended /\ s(k).answers = socket[c].answers
            /\ s(k) = [sent |-> s(k).sent, buffer |-> s(k).buffer, lines |-> s(k).lines,
                       replied |-> s(k).replied, ended |-> s(k).ended, answers |-> s(k).answers]
        BY <1>5
      <4>2. read(k) = [sent |-> s(k).sent, buffer |-> rest, lines |-> lines,
                       replied |-> s(k).replied, ended |-> s(k).ended, answers |-> s(k).answers]
        BY <3>1, <4>1, RecordRead
      <4> QED
        BY <4>1, <4>2
    <3> QED
      BY <3>2 DEF lines, rest
  <2> HIDE DEF read
  <2>2. /\ read(k).sent = k /\ read(k).buffer = next(k).rest
        /\ read(k).replied = socket[c].replied /\ read(k).answers = socket[c].answers
        /\ read(k) = [sent |-> read(k).sent, buffer |-> read(k).buffer, lines |-> read(k).lines,
                      replied |-> read(k).replied, ended |-> read(k).ended,
                      answers |-> read(k).answers]
    BY <2>1
  <2>3. Connection(c, read(k))
    BY <1>4, <1>6, <1>7, <1>8, <2>2 DEF Connection, t
  <2>4. Handle(c, read(k), next(k).line) /\ WholeLine(Text(c), next(k).line)
    BY <1>3, <1>6, <1>7, <1>8 DEF t
  <2> QED
    BY <1>1, <1>6, <1>8, <2>2, <2>3, <2>4, HandleKept
<1>9. CASE ~(Reads(s(k)) /\ next(k).line # <<>>)
  <2> DEFINE left == IF Reads(s(k)) THEN next(k).rest ELSE buffer(k)
  <2>1. idle(k) = [sent |-> k, buffer |-> left, lines |-> socket[c].lines,
                   replied |-> socket[c].replied, ended |-> socket[c].ended,
                   answers |-> socket[c].answers]
    BY <1>5
  <2>2. ~socket[c].replied => Held(t, k, left)
    BY <1>6, <1>7
  <2>3. socket' = [socket EXCEPT ![c] = idle(k)] /\ UNCHANGED <<turn, asked, log>>
    BY <1>3, <1>9
  <2> HIDE DEF idle, left
  <2>4. /\ idle(k).sent = k /\ idle(k).buffer = left
        /\ idle(k).replied = socket[c].replied /\ idle(k).answers = socket[c].answers
        /\ idle(k) = [sent |-> idle(k).sent, buffer |-> idle(k).buffer, lines |-> idle(k).lines,
                      replied |-> idle(k).replied, ended |-> idle(k).ended,
                      answers |-> idle(k).answers]
    BY <2>1
  <2>5. Connection(c, idle(k))
    BY <1>4, <2>2, <2>4 DEF Connection, t
  <2>6. Sockets' /\ Logged'
    BY <1>1, <2>3, <2>4, <2>5, ConnectionKept DEF Inv
  <2>7. Asked'
    BY <1>1, <2>3, AskedKept DEF Inv
  <2> QED
    BY <1>1, <2>3, <2>6, <2>7, QuietKept
<1> QED
  BY <1>8, <1>9

LEMMA UnlinkKept ==
    ASSUME Inv, Unlink
    PROVE  Inv'
<1>1. PICK f \in turn.todo :
        LET there == f \in DOMAIN ws.files IN
        /\ turn' = [turn EXCEPT !.todo = @ \ {f}, !.gone = @ + IF there THEN 1 ELSE 0]
        /\ removed' = IF ~there THEN removed
                      ELSE removed \cup {[conn |-> turn.conn, line |-> turn.line, file |-> f,
                                           age |-> x.age] : x \in {e \in turn.found : e.file = f}}
  BY DEF Unlink
<1>2. script' = script /\ socket' = socket /\ asked' = asked /\ log' = log
  BY DEF Unlink
<1>3. turn # Quiet
  BY DEF Unlink, Quiet
<1>4. /\ turn = [conn |-> turn.conn, line |-> turn.line, todo |-> turn.todo,
                 found |-> turn.found, gone |-> turn.gone]
      /\ turn.conn \in Clients /\ ~socket[turn.conn].replied
      /\ WholeLine(Text(turn.conn), turn.line)
      /\ \A e \in turn.found : AskedFor(turn.line, e.file, e.age)
  BY <1>3 DEF Inv, Turns
<1>5. /\ turn'.conn = turn.conn /\ turn'.line = turn.line /\ turn'.found = turn.found
      /\ turn' = [conn |-> turn'.conn, line |-> turn'.line, todo |-> turn'.todo,
                  found |-> turn'.found, gone |-> turn'.gone]
  <2> DEFINE todo == turn.todo \ {f}
             gone == turn.gone + IF f \in DOMAIN ws.files THEN 1 ELSE 0
  <2>1. turn' = [turn EXCEPT !.todo = todo, !.gone = gone]
    BY <1>1
  <2> HIDE DEF todo, gone
  <2> QED
    BY <1>4, <2>1
<1>6. Sockets' /\ Logged' /\ Asked'
  BY <1>2 DEF Inv, Sockets, Logged, Asked, Connection, Answered, Text
<1>7. Turns'
  BY <1>2, <1>4, <1>5 DEF Turns, Text
<1>8. \A r \in removed' :
        \/ r \in removed
        \/ \E x \in turn.found : /\ r.conn = turn.conn /\ r.line = turn.line
                                 /\ r.file = x.file /\ r.age = x.age
  BY <1>1
<1>9. Removed'
  <2>1. SUFFICES ASSUME NEW r \in removed'
                 PROVE  /\ r.conn \in Clients /\ AskedFor(r.line, r.file, r.age)
                        /\ \/ turn'.conn = r.conn /\ turn'.line = r.line
                           \/ \E e \in log' : e.conn = r.conn /\ e.line = r.line
    BY DEF Removed
  <2>2. CASE r \in removed
    BY <1>2, <1>5, <2>2 DEF Inv, Removed
  <2>3. CASE \E x \in turn.found : /\ r.conn = turn.conn /\ r.line = turn.line
                                   /\ r.file = x.file /\ r.age = x.age
    BY <1>4, <1>5, <2>3
  <2> QED
    BY <1>8, <2>2, <2>3
<1> QED
  BY <1>6, <1>7, <1>9 DEF Inv

LEMMA ReportKept ==
    ASSUME Inv, ReportDeleted
    PROVE  Inv'
<1> DEFINE c == turn.conn
           answer == Deleted({e.file : e \in turn.found}, turn.gone)
<1>1. /\ Reply(c, socket[c], turn.line, answer) /\ turn # Quiet /\ turn' = Quiet
      /\ script' = script /\ asked' = asked /\ removed' = removed
  BY DEF ReportDeleted
<1>2. c \in Clients /\ ~socket[c].replied /\ WholeLine(Text(c), turn.line)
  BY <1>1 DEF Inv, Turns
<1>3. Connection(c, socket[c])
  BY <1>2 DEF Inv, Sockets
<1> HIDE DEF answer
<1>4. /\ Sockets' /\ Logged' /\ log \subseteq log'
      /\ \E e \in log' : e.conn = c /\ e.line = turn.line
  BY <1>1, <1>2, <1>3, ReplyKept DEF Inv
<1>5. Asked'
  BY <1>1, AskedKept DEF Inv
<1>6. Removed'
  BY <1>1, <1>4 DEF Inv, Removed
<1>7. Turns'
  BY <1>1 DEF Turns, Quiet
<1> QED
  BY <1>4, <1>5, <1>6, <1>7 DEF Inv

LEMMA AgentKept ==
    ASSUME Inv, AgentSettles
    PROVE  Inv'
<1>1. PICK a \in asked, answer \in {Answer("OK", {"agent"}), Refuse("AGENT_PROVIDER_ERROR")} :
        /\ Reply(a.conn, socket[a.conn], a.line, answer)
        /\ asked' = asked \ {a}
  BY DEF AgentSettles
<1>2. turn = Quiet /\ turn' = turn /\ script' = script /\ removed' = removed
  BY DEF AgentSettles, Free
<1>3. a.conn \in Clients /\ WholeLine(Text(a.conn), a.line) /\ Connection(a.conn, socket[a.conn])
  BY DEF Inv, Asked, Sockets
<1>4. Sockets' /\ Logged' /\ log \subseteq log'
  BY <1>1, <1>2, <1>3, ReplyKept DEF Inv
<1>5. Asked'
  BY <1>1, <1>2, AskedKept DEF Inv
<1> QED
  BY <1>2, <1>4, <1>5, QuietKept

LEMMA EndKept ==
    ASSUME Inv, NEW c \in Clients, End(c)
    PROVE  Inv'
<1> DEFINE s == [socket[c] EXCEPT !.ended = TRUE]
<1>1. /\ turn = Quiet /\ turn' = turn /\ script' = script /\ removed' = removed
      /\ socket' = [socket EXCEPT ![c] = s] /\ asked' = asked /\ log' = log
  BY DEF End, Free
<1>2. Connection(c, socket[c])
  BY DEF Inv, Sockets
<1>3. /\ Connection(c, s) /\ s.replied = socket[c].replied /\ s.answers = socket[c].answers
  <2>1. s = [sent |-> socket[c].sent, buffer |-> socket[c].buffer, lines |-> socket[c].lines,
             replied |-> socket[c].replied, ended |-> TRUE, answers |-> socket[c].answers]
    BY <1>2, RecordEnded DEF Connection
  <2> HIDE DEF s
  <2> QED
    BY <1>2, <2>1 DEF Connection
<1> HIDE DEF s
<1>4. Sockets' /\ Logged'
  BY <1>1, <1>3, ConnectionKept DEF Inv
<1>5. Asked'
  BY <1>1, AskedKept DEF Inv
<1> QED
  BY <1>1, <1>4, <1>5, QuietKept

LEMMA RestKept ==
    ASSUME Inv, UNCHANGED <<script, socket, turn, asked, log, removed>>
    PROVE  Inv'
BY DEF Inv, Sockets, Logged, Asked, Turns, Removed, Connection, Answered, Text

-----------------------------------------------------------------------------
(* Theorems                                                                *)

LEMMA InitHolds == Init => Inv
<1> SUFFICES ASSUME Init
             PROVE  Inv
  OBVIOUS
<1> DEFINE fresh == [sent |-> 0, buffer |-> <<>>, lines |-> 0, replied |-> FALSE,
                     ended |-> FALSE, answers |-> <<>>]
<1>1. /\ script \in Scripts /\ turn = Quiet /\ asked = {} /\ log = {} /\ removed = {}
      /\ socket = [c \in Clients |-> fresh]
  BY DEF Init
<1>2. /\ fresh.sent = 0 /\ fresh.buffer = <<>> /\ ~fresh.replied /\ fresh.answers = <<>>
      /\ fresh = [sent |-> fresh.sent, buffer |-> fresh.buffer, lines |-> fresh.lines,
                  replied |-> fresh.replied, ended |-> fresh.ended, answers |-> fresh.answers]
  OBVIOUS
<1> HIDE DEF fresh
<1>3. \A c \in Clients : Connection(c, socket[c]) /\ Answered(c, socket[c])
  <2>1. TAKE c \in Clients
  <2>2. Text(c) \in Seq(STRING)
    BY <1>1, TextIsTokens
  <2>3. SubSeq(Text(c), 1, 0) = <<>>
    BY SubSeqEmpty
  <2>4. Held(Text(c), 0, <<>>) /\ 0 \in 0..Len(Text(c))
    BY <2>2, <2>3 DEF Held, LineStart
  <2>5. socket[c] = fresh
    BY <1>1
  <2>6. Connection(c, socket[c])
    BY <1>2, <2>4, <2>5 DEF Connection
  <2>7. Answered(c, socket[c])
    BY <1>1, <1>2, <2>5 DEF Answered
  <2> QED
    BY <2>6, <2>7
<1>4. socket = [c \in Clients |-> socket[c]]
  BY <1>1
<1> QED
  BY <1>1, <1>3, <1>4 DEF Inv, Sockets, Logged, Asked, Turns, Removed

LEMMA StepKept == Inv /\ [Next]_vars => Inv'
<1> SUFFICES ASSUME Inv, [Next]_vars
             PROVE  Inv'
  OBVIOUS
<1>1. ASSUME NEW c \in Clients, Data(c)
      PROVE  Inv'
  BY <1>1, DataKept
<1>2. ASSUME NEW c \in Clients, End(c)
      PROVE  Inv'
  BY <1>2, EndKept
<1>3. CASE Unlink
  BY <1>3, UnlinkKept
<1>4. CASE ReportDeleted
  BY <1>4, ReportKept
<1>5. CASE AgentSettles
  BY <1>5, AgentKept
<1>6. CASE Edit
  BY <1>6, RestKept DEF Edit
<1>7. CASE UNCHANGED vars
  BY <1>7, RestKept DEF vars
<1> QED
  BY <1>1, <1>2, <1>3, <1>4, <1>5, <1>6, <1>7 DEF Next

\* Every chunk, answer and unlink keeps the invariant.
THEOREM BridgeInvariant == Spec => []Inv
<1>1. Inv /\ [Next]_vars => Inv'
  BY StepKept
<1> QED
  BY InitHolds, <1>1, PTL DEF Spec

\* Every client is answered once at most, with an answer the log has for one
\* whole line of its own text, however the text is cut and whatever the other
\* connections do.
\* (the data handler, reply)
THEOREM EachAnsweredItsLine == Spec => []AnswersItsLine
<1>1. Inv => AnswersItsLine
  <2> SUFFICES ASSUME Inv, NEW c \in Clients
               PROVE  LET logged == {e \in log : e.conn = c} IN
                      /\ Len(socket[c].answers) <= 1 /\ Cardinality(logged) <= 1
                      /\ Range(socket[c].answers) \subseteq {e.answer : e \in logged}
                      /\ \A e \in logged : WholeLine(Text(c), e.line)
    BY DEF AnswersItsLine
  <2> DEFINE logged == {e \in log : e.conn = c}
  <2>1. Answered(c, socket[c]) /\ Logged
    BY DEF Inv, Sockets
  <2>2. Cardinality(logged) <= 1
    <3>1. \A e, f \in logged : e = f
      BY <2>1 DEF Logged
    <3>2. logged = {} \/ \E e : logged = {e}
      BY <3>1
    <3> HIDE DEF logged
    <3>3. Cardinality(logged) = 0 \/ Cardinality(logged) = 1
      BY <3>2, FS_EmptySet, FS_Singleton, Zenon
    <3> QED
      BY <3>3
  <2>3. /\ Len(socket[c].answers) <= 1
        /\ Range(socket[c].answers) \subseteq {e.answer : e \in logged}
    <3>1. CASE socket[c].answers = <<>>
      BY <3>1 DEF Range
    <3>2. CASE \E e \in log : e.conn = c /\ socket[c].answers = <<e.answer>>
      <4>1. PICK e \in logged : socket[c].answers = <<e.answer>>
        BY <3>2
      <4>2. Range(<<e.answer>>) = {e.answer}
        BY DEF Range
      <4>3. Len(<<e.answer>>) = 1
        OBVIOUS
      <4> QED
        BY <4>1, <4>2, <4>3
    <3> QED
      BY <2>1, <3>1, <3>2 DEF Answered
  <2>4. \A e \in logged : WholeLine(Text(c), e.line)
    BY <2>1 DEF Logged
  <2> QED
    BY <2>2, <2>3, <2>4
<1> QED
  BY <1>1, BridgeInvariant, PTL

\* A file goes only for a line that asked for it, and the log names that line
\* as soon as the loop is free again, though the workspace changes under the
\* scan and one connection may write several lines.
\* (deleteOlderThanDays, the test of replied in the data handler)
THEOREM DeletedAsAsked == Spec => []DeletionsAreLogged
<1>1. Inv => DeletionsAreLogged
  BY DEF Inv, Removed, DeletionsAreLogged
<1> QED
  BY <1>1, BridgeInvariant, PTL

\* The two services delete the same for a line that spells the delete tool's
\* members once, whatever the strings, numbers, paths and workspaces are.
\* (deleteOlderThanDays; build_delete_older_than_days of mcp_server.c)
THEOREM ServicesReadAlike == Spec => []SameReading
<1>1. Inv => SameReading
  <2> SUFFICES ASSUME Inv, NEW c \in Clients, NEW line \in Range(script[c]), Plainly(line),
                      NativePlan(line, ws).code = "OK", BridgePlan(line, ws).code = "OK"
               PROVE  NativePlan(line, ws) = BridgePlan(line, ws)
    BY DEF SameReading
  <2>1. script[c] \in Seq(Seq(STRING))
    BY ScriptsAssumption DEF Inv, Sockets
  <2>2. line \in Seq(STRING)
    BY <2>1 DEF Range
  <2> QED
    BY <2>2, ReadAlike
<1> QED
  BY <1>1, BridgeInvariant, PTL

=============================================================================
