--------------------------- MODULE ArgumentsProofs ---------------------------
(***************************************************************************)
(* Theorems about arg_parse, for any argv, any words, any numbers and any  *)
(* table of the commands.                                                  *)
(*                                                                         *)
(* PermuteIs: a cycle of permute_args goes around the circle of the n + o  *)
(* words in steps of o; it is back after (n + o) / gcd(n, o) steps and not *)
(* before (WayRound), so it moves just the words whose distance from the   *)
(* first has one remainder by the gcd (CycleMoves), and the cycles move    *)
(* each word once.                                                         *)
(*                                                                         *)
(* Inv: what arg_parse has stored is what Read has noted down of the words *)
(* before the one at hand, or ReadOption of the letters before the one at  *)
(* hand (Agrees); the operands passed over lie in one piece of argv, which *)
(* permute_args moves along (MovedBehind). After the scan the operands are *)
(* the end of argv (Matched). An error is registered only if no reading    *)
(* to the end can be acceptable (FaultIsLasting).                          *)
(***************************************************************************)
EXTENDS Arguments, TLAPS, Integers, FiniteSetTheorems, SequenceTheorems,
        WellFoundedInduction

-----------------------------------------------------------------------------
(* Numbers                                                                 *)

LEMMA LeastExists ==
    ASSUME NEW S, S \subseteq Nat, S # {}
    PROVE  \E m \in S : \A x \in S : m <= x
<1>1. PICK m \in S : \A x \in S : <<x, m>> \notin OpToRel(<, Nat)
  BY NatLessThanWellFounded, WFMin, Zenon
<1>2. \A x \in S : ~(x < m)
  BY <1>1, Zenon DEF OpToRel
<1> QED
  BY <1>2

-----------------------------------------------------------------------------
(* Steps that are repeated: a recursive function of LET is the sequence of *)
(* states that its steps make.                                             *)

Steps(F, s, n, at) == at[0] = s /\ \A j \in 1..n : at[j] = F[j][at[j - 1]]

LEMMA StepsExist ==
    ASSUME NEW S, NEW s \in S, NEW n \in Nat, NEW F \in [1..n -> [S -> S]]
    PROVE  \E at \in [0..n -> S] : Steps(F, s, n, at)
<1> DEFINE Far(k) == \E at \in [0..k -> S] : Steps(F, s, k, at)
           Bad == {k \in 0..n : ~Far(k)}
<1>1. Bad = {}
  <2> SUFFICES ASSUME Bad # {} PROVE FALSE
    OBVIOUS
  <2>1. PICK k \in Bad : \A x \in Bad : k <= x
    <3>1. Bad \subseteq Nat
      OBVIOUS
    <3> HIDE DEF Bad
    <3> QED BY <3>1, LeastExists
  <2>2. k \in 0..n /\ ~Far(k)
    OBVIOUS
  <2>3. k # 0
    <3> DEFINE z == [i \in 0..0 |-> s]
    <3>1. z \in [0..0 -> S] /\ z[0] = s /\ \A j \in 1..0 : FALSE
      OBVIOUS
    <3> HIDE DEF z
    <3>2. Steps(F, s, 0, z)
      BY <3>1 DEF Steps
    <3> QED BY <2>2, <3>1, <3>2
  <2>4. k - 1 \in 0..n /\ Far(k - 1)
    <3> HIDE DEF Far
    <3>1. k - 1 \in 0..n /\ ~(k <= k - 1)
      BY <2>2, <2>3
    <3> QED BY <2>1, <3>1
  <2>5. PICK at \in [0..(k - 1) -> S] : Steps(F, s, k - 1, at)
    BY <2>4
  <2> DEFINE new == [i \in 0..k |-> IF i = k THEN F[k][at[k - 1]] ELSE at[i]]
  <2>6. k \in 1..n /\ F[k] \in [S -> S] /\ at[k - 1] \in S
    BY <2>2, <2>3, <2>4
  <2>7. new \in [0..k -> S]
    BY <2>2, <2>6
  <2>8. new[0] = s
    BY <2>2, <2>3, <2>5 DEF Steps
  <2>9. ASSUME NEW j \in 1..k PROVE new[j] = F[j][new[j - 1]]
    <3>1. j - 1 \in 0..k /\ j - 1 # k /\ j \in 0..k
      BY <2>2
    <3>2. CASE j = k
      BY <3>1, <3>2
    <3>3. CASE j # k
      <4>1. j \in 1..(k - 1)
        BY <2>2, <3>3
      <4> QED BY <2>5, <3>1, <3>3, <4>1 DEF Steps
    <3> QED BY <3>2, <3>3
  <2> HIDE DEF new
  <2>10. Steps(F, s, k, new)
    BY <2>8, <2>9 DEF Steps
  <2> QED BY <2>2, <2>7, <2>10
<1>2. n \in 0..n
  OBVIOUS
<1> QED BY <1>1, <1>2

\* Where a step is only known for states of S, no other states come up, and the
\* states are the same however far one goes.
StepsIn(F, S, s, n, at) == at[0] = s /\ \A j \in 1..n : at[j - 1] \in S => at[j] = F[j][at[j - 1]]

LEMMA StepsStay ==
    ASSUME NEW S, NEW s \in S, NEW n \in Nat, NEW F \in [1..n -> [S -> S]],
           NEW f, StepsIn(F, S, s, n, f), NEW g, StepsIn(F, S, s, n, g)
    PROVE  \A j \in 0..n : f[j] \in S /\ f[j] = g[j]
<1> DEFINE Bad == {k \in 0..n : ~(f[k] \in S /\ f[k] = g[k])}
<1> SUFFICES ASSUME Bad # {} PROVE FALSE
  OBVIOUS
<1>1. PICK k \in Bad : \A x \in Bad : k <= x
  <2>1. Bad \subseteq Nat
    OBVIOUS
  <2> HIDE DEF Bad
  <2> QED BY <2>1, LeastExists
<1>2. k \in 0..n /\ k # 0
  BY DEF StepsIn
<1>3. k \in 1..n /\ k - 1 \in 0..n /\ ~(k <= k - 1)
  BY <1>2
<1>4. f[k - 1] \in S /\ f[k - 1] = g[k - 1]
  BY <1>1, <1>3
<1>5. f[k] = F[k][f[k - 1]] /\ g[k] = F[k][g[k - 1]] /\ F[k] \in [S -> S]
  BY <1>3, <1>4 DEF StepsIn
<1> QED BY <1>4, <1>5

LEMMA Counting ==
    ASSUME NEW n \in Nat, NEW S, 0 \in S, \A j \in 1..n : j - 1 \in S => j \in S
    PROVE  \A j \in 0..n : j \in S
<1> DEFINE Bad == {k \in 0..n : k \notin S}
<1> SUFFICES ASSUME Bad # {} PROVE FALSE
  OBVIOUS
<1>1. PICK k \in Bad : \A x \in Bad : k <= x
  <2>1. Bad \subseteq Nat
    OBVIOUS
  <2> HIDE DEF Bad
  <2> QED BY <2>1, LeastExists
<1>2. k \in 0..n /\ k # 0
  OBVIOUS
<1>3. k \in 1..n /\ k - 1 \in 0..n /\ ~(k <= k - 1)
  BY <1>2
<1> QED BY <1>1, <1>3

-----------------------------------------------------------------------------
(* Divisors                                                                *)

Divides(d, x) == \E q \in Nat : x = d * q

LEMMA DivMod ==
    ASSUME NEW x \in Nat, NEW d \in Nat \ {0}
    PROVE  /\ x \div d \in Nat /\ x % d \in 0..(d - 1)
           /\ x = d * (x \div d) + (x % d)
OBVIOUS

LEMMA ModIs ==
    ASSUME NEW q \in Nat, NEW d \in Nat \ {0}, NEW r \in 0..(d - 1)
    PROVE  (d * q + r) % d = r /\ (d * q + r) \div d = q
OBVIOUS

LEMMA Multiples ==
    ASSUME NEW c \in Nat \ {0}, NEW x \in Int
    PROVE  /\ c * x \in Int /\ c * (0 - x) = 0 - (c * x)
           /\ x >= 1 => c <= c * x
           /\ x < 0 => c * x < 0
OBVIOUS

LEMMA DividesIsMod ==
    ASSUME NEW x \in Nat, NEW d \in Nat \ {0}
    PROVE  x % d = 0 <=> Divides(d, x)
<1>1. ASSUME NEW q \in Nat, x = d * q PROVE x % d = 0
  BY <1>1, ModIs, 0 \in 0..(d - 1)
<1>2. x % d = 0 => x = d * (x \div d) /\ x \div d \in Nat
  BY DivMod
<1> QED BY <1>1, <1>2 DEF Divides

LEMMA GreatestExists ==
    ASSUME NEW n \in Nat, NEW S, S \subseteq 1..n, S # {}
    PROVE  Max(S) \in S /\ \A x \in S : x <= Max(S)
<1> DEFINE R == {n - x : x \in S}
<1>1. R \subseteq Nat
  OBVIOUS
<1>0. R # {}
  <2>1. PICK x \in S : TRUE
    OBVIOUS
  <2> QED BY n - x \in R
<1> HIDE DEF R
<1>2. PICK r \in R : \A x \in R : r <= x
  BY <1>0, <1>1, LeastExists
<1>3. PICK m \in S : r = n - m
  BY DEF R
<1>4. ASSUME NEW x \in S PROVE m >= x
  <2>1. n - m <= n - x
    BY <1>2, <1>3 DEF R
  <2> QED BY <2>1
<1>5. Max(S) \in S /\ \A x \in S : Max(S) >= x
  BY <1>4 DEF Max
<1> QED BY <1>5

LEMMA GcdIs ==
    ASSUME NEW n \in Nat \ {0}, NEW o \in Nat \ {0}
    PROVE  /\ Gcd(n, o) \in 1..n /\ Divides(Gcd(n, o), n) /\ Divides(Gcd(n, o), o)
           /\ \A d \in Nat \ {0} : Divides(d, n) /\ Divides(d, o) => d <= Gcd(n, o)
<1> DEFINE S == {d \in 1..n : n % d = 0 /\ o % d = 0}
<1>1. Gcd(n, o) = Max(S)
  BY DEF Gcd
<1>2. S \subseteq 1..n /\ 1 \in S
  OBVIOUS
<1>3. ASSUME NEW d \in Nat \ {0}, Divides(d, n), Divides(d, o) PROVE d \in S
  <2>1. PICK q \in Nat : n = d * q
    BY <1>3 DEF Divides
  <2>2. d <= n
    BY <2>1
  <2>3. n % d = 0 /\ o % d = 0
    BY <1>3, DividesIsMod
  <2> QED BY <2>2, <2>3
<1>4. ASSUME NEW d \in S PROVE Divides(d, n) /\ Divides(d, o)
  BY DividesIsMod
<1> HIDE DEF S
<1>5. Max(S) \in S /\ \A x \in S : x <= Max(S)
  BY <1>2, GreatestExists
<1> QED BY <1>1, <1>2, <1>3, <1>4, <1>5

\* Going n places at a time around a circle of n + o, one is back where one began
\* after the length of the circle divided by the greatest common divisor, not before.
LEMMA WayRound ==
    ASSUME NEW n \in Nat \ {0}, NEW o \in Nat \ {0}
    PROVE  LET g == Gcd(n, o)
               len == (n + o) \div g
           IN  /\ len \in Nat \ {0} /\ n + o = g * len
               /\ Divides(n + o, len * n)
               /\ \A j \in 1..(len - 1) : ~Divides(n + o, j * n)
<1> DEFINE g == Gcd(n, o)
           len == (n + o) \div g
           L == n + o
<1>1. g \in Nat \ {0} /\ L \in Nat \ {0}
  BY GcdIs
<1>2. PICK a \in Nat : n = g * a
  BY GcdIs DEF Divides
<1>3. PICK b \in Nat : o = g * b
  BY GcdIs DEF Divides
<1>4. \A d \in Nat \ {0} : Divides(d, n) /\ Divides(d, o) => d <= g
  BY GcdIs
<1> HIDE DEF g
<1>5. L = g * (a + b) + 0
  BY <1>1, <1>2, <1>3
<1>6. len = a + b
  BY <1>1, <1>5, ModIs, a + b \in Nat, 0 \in 0..(g - 1)
<1>7. len \in Nat \ {0} /\ L = g * len
  BY <1>1, <1>5, <1>6
<1> HIDE DEF len
<1>8. len * n = L * a
  <2>1. len * n = len * (g * a)
    BY <1>2
  <2>2. L * a = (g * len) * a
    BY <1>7
  <2>3. len * (g * a) = (g * len) * a
    BY <1>1, <1>7
  <2> QED BY <2>1, <2>2, <2>3
<1> DEFINE Back == {j \in Nat \ {0} : Divides(L, j * n)}
<1>9. len \in Back
  BY <1>7, <1>8 DEF Divides
<1>10. PICK D \in Back : \A x \in Back : D <= x
  <2>1. Back \subseteq Nat /\ Back # {}
    BY <1>9
  <2> HIDE DEF Back
  <2> QED BY <2>1, LeastExists
<1>11. D \in Nat \ {0}
  OBVIOUS
<1>12. PICK q \in Nat : D * n = L * q
  BY DEF Divides
<1> DEFINE e == L \div D
           r == L % D
<1>13. e \in Nat /\ r \in 0..(D - 1) /\ L = D * e + r
  BY <1>1, <1>11, DivMod
<1> HIDE DEF e, r
<1>14. r = 0
  <2> SUFFICES ASSUME r # 0 PROVE FALSE
    OBVIOUS
  <2>1. r \in Nat \ {0} /\ ~(D <= r)
    BY <1>11, <1>13
  <2>2. (D * e) * n = L * (q * e)
    <3>1. (D * e) * n = (D * n) * e
      BY <1>11, <1>13
    <3>2. (L * q) * e = L * (q * e)
      BY <1>1, <1>12, <1>13
    <3> QED BY <3>1, <3>2, <1>12
  <2>3. L * n = (D * e) * n + r * n
    BY <1>11, <1>13, <2>1
  <2>4. r * n = L * (n - q * e)
    <3>1. r * n = L * n - L * (q * e)
      BY <2>2, <2>3, <1>1, <1>13, <1>12, <2>1
    <3>2. L * (n - q * e) = L * n - L * (q * e)
      BY <1>1, <1>13, <1>12
    <3> QED BY <3>1, <3>2
  <2>5. n - q * e \in Nat
    <3> DEFINE x == n - q * e
    <3>1. x \in Int /\ r * n > 0 /\ r * n = L * x
      BY <2>1, <2>4, <1>13, <1>12
    <3> HIDE DEF x
    <3>2. ~(x < 0)
      BY <3>1, <1>1
    <3> QED BY <3>1, <3>2 DEF x
  <2>6. r \in Back
    BY <2>1, <2>4, <2>5 DEF Divides
  <2> HIDE DEF Back
  <2> QED BY <1>10, <2>1, <2>6
<1>15. L = D * e /\ e \in Nat \ {0}
  BY <1>1, <1>11, <1>13, <1>14
<1>16. n = e * q
  <2>1. D * n = D * (e * q)
    BY <1>11, <1>12, <1>15
  <2> QED BY <2>1, <1>11, <1>12, <1>15
<1>17. o = e * (D - q) /\ D - q \in Nat
  <2>1. o = e * (D - q)
    BY <1>15, <1>16, <1>11, <1>12
  <2> DEFINE x == D - q
  <2>2. x \in Int /\ o = e * x
    BY <1>11, <1>12, <2>1
  <2> HIDE DEF x
  <2>3. ~(x < 0)
    BY <2>2, <1>15
  <2> QED BY <2>1, <2>2, <2>3 DEF x
<1>18. e <= g
  BY <1>4, <1>12, <1>15, <1>16, <1>17 DEF Divides
<1>19. len <= D
  <2> SUFFICES ASSUME D < len PROVE FALSE
    BY <1>7, <1>11
  <2>1. D * e <= D * g
    BY <1>1, <1>11, <1>15, <1>18
  <2>2. D * g < g * len
    BY <1>1, <1>7, <1>11
  <2> QED BY <2>1, <2>2, <1>1, <1>7, <1>11, <1>15
<1>20. ASSUME NEW j \in 1..(len - 1) PROVE ~Divides(L, j * n)
  <2>1. j \in Nat \ {0} /\ ~(D <= j)
    BY <1>7, <1>11, <1>19
  <2>2. j \notin Back
    <3> HIDE DEF Back
    <3> QED BY <2>1, <1>10
  <2> QED BY <2>1, <2>2
<1> QED BY <1>7, <1>8, <1>20 DEF g, len, Divides

-----------------------------------------------------------------------------
(* permute_args                                                            *)

Blocks(first, mid, last, size) ==
  /\ first \in Nat \ {0} /\ mid \in Nat /\ last \in Nat /\ size \in Nat
  /\ first < mid /\ mid < last /\ last <= size + 1

LEMMA SwapIs ==
    ASSUME NEW n \in Nat, NEW X, NEW a \in [1..n -> X], NEW i \in 1..n, NEW j \in 1..n
    PROVE  /\ Swap(a, i, j) \in [1..n -> X]
           /\ Swap(a, i, j)[i] = a[j] /\ Swap(a, i, j)[j] = a[i]
           /\ \A k \in (1..n) \ {i, j} : Swap(a, i, j)[k] = a[k]
BY DEF Swap

LEMMA OnwardIs ==
    ASSUME NEW first, NEW mid, NEW last, NEW size, Blocks(first, mid, last, size),
           NEW p \in first..(last - 1)
    PROVE  /\ Onward(first, mid, last, p) \in first..(last - 1)
           /\ \E k \in {0, 1} :
                Onward(first, mid, last, p) = (p - (mid - first)) + (last - first) * k
           /\ \A q \in first..(last - 1) :
                Onward(first, mid, last, p) = Onward(first, mid, last, q) => p = q
<1>1. first \in Nat /\ mid \in Nat /\ last \in Nat /\ first < mid /\ mid < last
  BY DEF Blocks
<1>2. CASE p >= mid
  <2>1. Onward(first, mid, last, p) = (p - (mid - first)) + (last - first) * 0
    BY <1>1, <1>2 DEF Onward
  <2> QED BY <1>1, <1>2, <2>1 DEF Onward
<1>3. CASE ~(p >= mid)
  <2>1. Onward(first, mid, last, p) = (p - (mid - first)) + (last - first) * 1
    BY <1>1, <1>3 DEF Onward
  <2> QED BY <1>1, <1>3, <2>1 DEF Onward
<1> QED BY <1>2, <1>3

\* The states of one cycle.
Turns(first, mid, last, start, a, len, at) ==
  /\ at[0] = [pos |-> start, a |-> a]
  /\ \A j \in 1..len : at[j] = Move(first, mid, last, start, at[j - 1])

CycleOf(first, mid, last, size, X, start, a, len) ==
  \E at \in [0..len -> [pos : first..(last - 1), a : [1..size -> X]]] :
    /\ Turns(first, mid, last, start, a, len, at)
    /\ Cycle(first, mid, last, start, a) = at[len].a

LEMMA CycleIs ==
    ASSUME NEW first, NEW mid, NEW last, NEW size, Blocks(first, mid, last, size),
           NEW X, NEW a \in [1..size -> X], NEW start \in first..(last - 1),
           NEW len \in Nat, len = (last - first) \div Gcd(mid - first, last - mid)
    PROVE  CycleOf(first, mid, last, size, X, start, a, len)
<1> DEFINE S == [pos : first..(last - 1), a : [1..size -> X]]
           s == [pos |-> start, a |-> a]
           M(st) == Move(first, mid, last, start, st)
           F == [j \in 1..len |-> [st \in S |-> M(st)]]
<1>1. first \in Nat /\ last \in Nat /\ first..(last - 1) \subseteq 1..size
  BY DEF Blocks
<1>2. s \in S
  OBVIOUS
<1>3. ASSUME NEW st \in S PROVE M(st) \in S
  <2> DEFINE to == Onward(first, mid, last, st.pos)
  <2>1. st.pos \in first..(last - 1) /\ st.a \in [1..size -> X]
    OBVIOUS
  <2>2. to \in first..(last - 1)
    BY <2>1, OnwardIs
  <2> HIDE DEF to
  <2>3. Swap(st.a, to, start) \in [1..size -> X]
    BY <1>1, <2>1, <2>2, SwapIs DEF Blocks
  <2> QED BY <2>2, <2>3 DEF Move, to
<1> HIDE DEF S, s, M
<1>4. F \in [1..len -> [S -> S]]
  BY <1>3
<1>5. PICK at \in [0..len -> S] : Steps(F, s, len, at)
  <2> HIDE DEF F
  <2> QED BY <1>2, <1>4, StepsExist
<1>6. \A j \in 1..len : at[j] = M(at[j - 1])
  <2> TAKE j \in 1..len
  <2>1. j - 1 \in 0..len
    OBVIOUS
  <2>2. at[j - 1] \in S /\ at[j] = F[j][at[j - 1]]
    BY <1>5, <2>1 DEF Steps
  <2> QED BY <2>2
<1> DEFINE Is(f) == f = [j \in 0..len |-> IF j = 0 THEN s ELSE M(f[j - 1])]
<1>7. at[0] = s
  BY <1>5 DEF Steps
<1>8. Is(at)
  BY <1>5, <1>6, <1>7
<1>9. PICK f : Is(f) /\ Cycle(first, mid, last, start, a) = f[len].a
  <2> DEFINE g == CHOOSE h : Is(h)
  <2>1. Is(g)
    BY <1>8
  <2>2. Cycle(first, mid, last, start, a) = g[len].a
    BY DEF Cycle, M, s
  <2> QED BY <2>1, <2>2
<1>10. Cycle(first, mid, last, start, a) = f[len].a
  BY <1>9
<1>11. f[0] = s /\ \A j \in 1..len : f[j] = M(f[j - 1])
  BY <1>9
<1>12. \A j \in 0..len : f[j] \in S /\ f[j] = at[j]
  <2>1. StepsIn(F, S, s, len, f)
    BY <1>11 DEF StepsIn
  <2>2. StepsIn(F, S, s, len, at)
    BY <1>6, <1>7 DEF StepsIn
  <2> HIDE DEF F
  <2> QED BY <1>2, <1>4, <2>1, <2>2, StepsStay
<1>13. Cycle(first, mid, last, start, a) = at[len].a
  BY <1>10, <1>12
<1> QED BY <1>5, <1>6, <1>7, <1>13 DEF CycleOf, Turns, M, S, s
GoesOn(first, mid, last, start, len, p) ==
  p[0] = start /\ \A j \in 1..len : p[j] = Onward(first, mid, last, p[j - 1])

Round(first, last, start, len, g, p) ==
  /\ p[len] = start
  /\ \A i, j \in 0..(len - 1) : p[i] = p[j] => i = j
  /\ \A j \in 0..len : (p[j] - first) % g = (start - first) % g
  /\ \A q \in first..(last - 1) :
       (q - first) % g = (start - first) % g => \E j \in 0..(len - 1) : p[j] = q

\* The places of a cycle: those with the same remainder as its start, each once.
LEMMA CyclePlaces ==
    ASSUME NEW first, NEW mid, NEW last, NEW size, Blocks(first, mid, last, size),
           NEW g, g = Gcd(mid - first, last - mid), NEW len, len = (last - first) \div g,
           NEW start \in first..(last - 1),
           NEW p \in [0..len -> first..(last - 1)], GoesOn(first, mid, last, start, len, p)
    PROVE  Round(first, last, start, len, g, p)
<1> DEFINE n == mid - first
           o == last - mid
           L == last - first
<1>1. /\ first \in Nat \ {0} /\ mid \in Nat /\ last \in Nat
      /\ n \in Nat \ {0} /\ o \in Nat \ {0} /\ L \in Nat \ {0} /\ L = n + o
  BY DEF Blocks
<1>2. \A x \in first..(last - 1) : \E k \in {0, 1} : Onward(first, mid, last, x) = (x - n) + L * k
  BY OnwardIs
<1>3. g = Gcd(n, o) /\ len = (n + o) \div g
  BY <1>1
<1>4. \A x, y \in first..(last - 1) : x - y < L /\ y - x < L /\ x \in Nat
  BY <1>1
<1> HIDE DEF n, o, L
<1>5. g \in Nat \ {0} /\ Divides(g, n)
  <2>1. Gcd(n, o) \in 1..n /\ Divides(Gcd(n, o), n)
    BY <1>1, GcdIs
  <2> QED BY <1>1, <1>3, <2>1
<1>6. /\ len \in Nat \ {0} /\ L = g * len
      /\ Divides(L, len * n) /\ \A j \in 1..(len - 1) : ~Divides(L, j * n)
  BY <1>1, <1>3, WayRound
<1>7. \A j \in 0..len : p[j] \in first..(last - 1) /\ p[j] \in Nat
  BY <1>1
<1>8. \A j \in 0..len : \E k \in Nat : p[j] = (start - j * n) + L * k
  <2> DEFINE S == {j \in 0..len : \E k \in Nat : p[j] = (start - j * n) + L * k}
  <2>1. 0 \in S
    <3>1. p[0] = (start - 0 * n) + L * 0
      BY <1>1 DEF GoesOn
    <3> QED BY <1>6, <3>1
  <2>2. ASSUME NEW j \in 1..len, j - 1 \in S PROVE j \in S
    <3>1. PICK k \in Nat : p[j - 1] = (start - (j - 1) * n) + L * k
      BY <2>2
    <3>2. p[j - 1] \in first..(last - 1) /\ p[j] = Onward(first, mid, last, p[j - 1])
      BY <1>6, <1>7 DEF GoesOn
    <3>3. PICK c \in {0, 1} : p[j] = (p[j - 1] - n) + L * c
      BY <1>2, <3>2
    <3> DEFINE A == j * n
               B == L * k
               C == L * c
    <3>4. (j - 1) * n = A - n /\ L * (k + c) = B + C /\ A \in Int /\ B \in Int /\ C \in Int
      BY <1>1, <1>6
    <3>7. start \in Int /\ p[j - 1] = (start - (A - n)) + B /\ p[j] = (p[j - 1] - n) + C
      BY <1>1, <3>1, <3>3, <3>4
    <3> HIDE DEF A, B, C
    <3>8. p[j] = (start - A) + (B + C)
      BY <1>1, <3>4, <3>7
    <3>5. p[j] = (start - j * n) + L * (k + c)
      BY <3>4, <3>8 DEF A
    <3>6. k + c \in Nat
      OBVIOUS
    <3> QED BY <3>5, <3>6
  <2> HIDE DEF S
  <2>3. \A j \in 0..len : j \in S
    BY <1>6, <2>1, <2>2, Counting
  <2> QED BY <2>3 DEF S
<1>9. p[len] = start
  <2>1. PICK q \in Nat : len * n = L * q
    BY <1>6 DEF Divides
  <2>2. PICK k \in Nat : p[len] = (start - len * n) + L * k
    BY <1>6, <1>8
  <2>3. p[len] - start = L * (k - q)
    <3> DEFINE B == L * k
               C == L * q
    <3>1. B \in Int /\ C \in Int /\ L * (k - q) = B - C /\ start \in Int
      BY <1>1
    <3>2. p[len] = (start - C) + B
      BY <2>1, <2>2
    <3> HIDE DEF B, C
    <3> QED BY <3>1, <3>2
  <2>4. p[len] - start < L /\ start - p[len] < L
    BY <1>4, <1>6, <1>7
  <2> DEFINE x == k - q
  <2>5. x \in Int /\ L * x < L /\ 0 - (L * x) < L
    BY <1>1, <1>6, <1>7, <2>3, <2>4
  <2> HIDE DEF x
  <2>6. x = 0
    <3>1. ~(x >= 1)
      <4> SUFFICES ASSUME x >= 1 PROVE FALSE
        OBVIOUS
      <4>1. L <= L * x /\ L * x \in Int
        BY <1>1, <2>5, Multiples
      <4> DEFINE z == L * x
      <4>2. z \in Int /\ L <= z /\ z < L
        BY <2>5, <4>1
      <4> HIDE DEF z
      <4> QED BY <1>1, <4>2
    <3>2. ~(x <= -1)
      <4> SUFFICES ASSUME x <= -1 PROVE FALSE
        OBVIOUS
      <4> DEFINE y == 0 - x
      <4>1. y \in Nat \ {0} /\ L * y = 0 - (L * x)
        BY <1>1, <2>5, Multiples
      <4> HIDE DEF y
      <4>0. y \in Int /\ y >= 1
        BY <4>1
      <4>2. L <= L * y /\ L * y \in Int
        BY <1>1, <4>0, Multiples
      <4> DEFINE z == L * y
      <4>3. z \in Int /\ L <= z /\ z < L
        BY <2>5, <4>1, <4>2
      <4> HIDE DEF z
      <4> QED BY <1>1, <4>3
    <3> QED BY <2>5, <3>1, <3>2
  <2> QED BY <1>1, <1>6, <1>7, <2>3, <2>6 DEF x
<1>10. ASSUME NEW i \in 0..(len - 1), NEW j \in 0..(len - 1), i < j PROVE p[i] # p[j]
  <2> SUFFICES ASSUME p[i] = p[j] PROVE FALSE
    OBVIOUS
  <2>1. i \in 0..len /\ j \in 0..len
    BY <1>6
  <2>2. PICK k \in Nat : p[i] = (start - i * n) + L * k
    BY <1>8, <2>1
  <2>3. PICK m \in Nat : p[j] = (start - j * n) + L * m
    BY <1>8, <2>1
  <2> DEFINE d == j - i
             x == m - k
  <2>4. d \in 1..(len - 1) /\ d * n = j * n - i * n
    BY <1>1, <1>6, <1>10
  <2>5. x \in Int /\ L * x = L * m - L * k
    BY <1>1
  <2>6. d * n = L * x
    <3> DEFINE A == i * n
               B == j * n
               C == L * k
               E == L * m
    <3>1. A \in Int /\ B \in Int /\ C \in Int /\ E \in Int /\ start \in Int
      BY <1>1
    <3>2. p[i] = (start - A) + C /\ p[j] = (start - B) + E
      BY <2>2, <2>3
    <3>3. d * n = B - A /\ L * x = E - C
      BY <2>4, <2>5
    <3> DEFINE u == d * n
               v == L * x
    <3>4. u = B - A /\ v = E - C
      BY <3>3
    <3> HIDE DEF A, B, C, E, u, v
    <3>6. (start - A) + C = (start - B) + E
      BY <3>2
    <3>7. start \in Int /\ A \in Int /\ B \in Int /\ C \in Int /\ E \in Int
      BY <3>1
    <3>5. u = v
      BY <3>4, <3>6, <3>7
    <3> QED BY <3>5 DEF u, v
  <2> HIDE DEF d, x
  <2>7. d \in Nat \ {0} /\ d * n > 0
    BY <1>1, <1>6, <2>4
  <2>8. ~(x < 0)
    <3> SUFFICES ASSUME x < 0 PROVE FALSE
      OBVIOUS
    <3>1. x \in Int
      BY <2>5
    <3>2. L * x < 0
      BY <1>1, <3>1, Multiples
    <3> QED BY <1>1, <2>6, <2>7, <3>1, <3>2
  <2>9. Divides(L, d * n)
    BY <2>5, <2>6, <2>8 DEF Divides
  <2> QED BY <1>6, <2>4, <2>9
<1>11. ASSUME NEW i \in 0..(len - 1), NEW j \in 0..(len - 1), p[i] = p[j] PROVE i = j
  <2>1. ~(i < j) /\ ~(j < i)
    BY <1>10, <1>11
  <2> QED BY <1>6, <2>1
<1>12. PICK a \in Nat : n = g * a
  BY <1>5 DEF Divides
<1> DEFINE r == (start - first) % g
<1>13. start - first \in Nat /\ r \in 0..(g - 1)
  <2>1. start - first \in Nat
    BY <1>1
  <2> QED BY <1>5, <2>1, DivMod
<1>14. ASSUME NEW j \in 0..len PROVE (p[j] - first) % g = r /\ p[j] - first \in Nat
  <2>1. PICK k \in Nat : p[j] = (start - j * n) + L * k
    BY <1>8
  <2> DEFINE s == (start - first) \div g
  <2>2. s \in Nat /\ start - first = g * s + r
    BY <1>5, <1>13, DivMod
  <2> HIDE DEF r, s
  <2>3. j * n = g * (j * a) /\ L * k = g * (len * k)
    BY <1>5, <1>6, <1>12
  <2> DEFINE q == (s - j * a) + len * k
  <2>4. q \in Int /\ j * a \in Nat /\ len * k \in Nat
    BY <1>6, <1>12, <2>2
  <2>5. g * q = (g * s - g * (j * a)) + g * (len * k)
    BY <1>5, <2>2, <2>4
  <2>6. p[j] - first = g * q + r /\ p[j] - first \in Nat
    <3> DEFINE A == g * (j * a)
               B == g * (len * k)
               C == g * s
               E == g * q
    <3>5. A \in Int /\ B \in Int /\ C \in Int
      BY <1>5, <2>2, <2>4, Multiples
    <3>6. E \in Int
      <4> HIDE DEF q
      <4> QED BY <1>5, <2>4, Multiples
    <3>1. A \in Int /\ B \in Int /\ C \in Int /\ E \in Int /\ start \in Int /\ r \in Int /\ first \in Int
      BY <1>1, <1>5, <1>13, <3>5, <3>6
    <3>2. p[j] = (start - A) + B /\ start - first = C + r /\ E = (C - A) + B
      BY <2>1, <2>2, <2>3, <2>5
    <3>3. p[j] \in Int /\ p[j] >= first
      BY <1>1, <1>7
    <3> HIDE DEF A, B, C, E
    <3>4. p[j] - first = E + r /\ p[j] - first \in Nat
      BY <3>1, <3>2, <3>3
    <3> QED BY <3>4 DEF E
  <2> HIDE DEF q
  <2>7. ~(q < 0)
    <3> SUFFICES ASSUME q < 0 PROVE FALSE
      OBVIOUS
    <3> DEFINE z == 0 - q
    <3>1. z \in Nat \ {0} /\ g * z = 0 - (g * q)
      BY <1>5, <2>4
    <3> HIDE DEF z
    <3>2. g * z >= g
      BY <1>5, <3>1
    <3> QED BY <1>5, <1>13, <2>4, <2>6, <3>1, <3>2
  <2>8. q \in Nat
    BY <2>4, <2>7
  <2>9. (g * q + r) % g = r
    BY <1>5, <1>13, <2>8, ModIs
  <2> QED BY <2>6, <2>9
<1>15. ASSUME NEW q \in first..(last - 1), (q - first) % g = r PROVE \E j \in 0..(len - 1) : p[j] = q
  <2> DEFINE D == 0..(len - 1)
             f == [j \in D |-> (p[j] - first) \div g]
  <2>1. ASSUME NEW x \in first..(last - 1), (x - first) % g = r
        PROVE  (x - first) \div g \in D /\ x = first + g * ((x - first) \div g) + r
    <3> DEFINE y == (x - first) \div g
    <3>1. x - first \in Nat /\ x - first < L
      BY <1>1 DEF L
    <3>2. y \in Nat /\ x - first = g * y + r
      BY <1>5, <2>1, <3>1, DivMod
    <3> HIDE DEF y, r
    <3>3. y < len
      <4> SUFFICES ASSUME y >= len PROVE FALSE
        BY <1>6, <3>2
      <4>1. g * y >= g * len
        BY <1>5, <1>6, <3>2
      <4> DEFINE A == g * y
      <4>3. A \in Int
        BY <1>5, <3>2, Multiples
      <4>4. A >= L
        BY <1>6, <4>1
      <4>2. A \in Int /\ A >= L /\ x - first = A + r /\ r \in Nat /\ L \in Nat
        BY <1>1, <1>5, <1>13, <3>2, <4>3, <4>4
      <4> HIDE DEF A
      <4> QED BY <1>1, <3>1, <4>2
    <3> DEFINE A == g * y
    <3>5. A \in Int /\ x - first = A + r /\ r \in Nat
      BY <1>5, <1>13, <3>2
    <3> HIDE DEF A
    <3>6. x = first + A + r
      BY <1>1, <3>1, <3>5
    <3>4. y \in D /\ x = first + g * y + r
      BY <1>6, <3>2, <3>3, <3>6 DEF A
    <3> QED BY <3>4 DEF y
  <2>2. \A j \in D : j \in 0..len
    BY <1>6
  <2>3. \A j \in D : p[j] \in first..(last - 1) /\ (p[j] - first) % g = r
    BY <1>7, <1>14, <2>2
  <2>4. f \in [D -> D]
    BY <2>1, <2>3
  <2>5. \A j \in D : p[j] = first + g * f[j] + r
    BY <2>1, <2>3
  <2>6. \A i, j \in D : f[i] = f[j] => i = j
    <3> HIDE DEF f, r
    <3> TAKE i, j \in D
    <3> HAVE f[i] = f[j]
    <3>1. p[i] = p[j]
      BY <2>5
    <3> QED BY <1>11, <3>1
  <2>7. IsFiniteSet(D)
    BY <1>6, FS_Interval, len - 1 \in Int, 0 \in Int
  <2> DEFINE y == (q - first) \div g
  <2>8. y \in D /\ q = first + g * y + r
    BY <1>15, <2>1
  <2> HIDE DEF f, D, y, r
  <2>9. f \in Injection(D, D)
    BY <2>4, <2>6 DEF Injection, IsInjective
  <2>10. f \in Surjection(D, D)
    BY <2>7, <2>9, FS_Injection
  <2>11. PICK j \in D : f[j] = y
    BY <2>8, <2>10 DEF Surjection
  <2>12. p[j] = q
    BY <2>5, <2>8, <2>11
  <2> QED BY <2>12 DEF D
<1> QED BY <1>9, <1>11, <1>14, <1>15 DEF Round
Shifted(first, mid, last, size, X, g, start, a, b) ==
  /\ b \in [1..size -> X]
  /\ \A q \in first..(last - 1) :
       (q - first) % g = (start - first) % g => b[Onward(first, mid, last, q)] = a[q]
  /\ \A q \in 1..size :
       ~(q \in first..(last - 1) /\ (q - first) % g = (start - first) % g) => b[q] = a[q]

\* A cycle takes each word of its places one place onward.
LEMMA CycleMoves ==
    ASSUME NEW first, NEW mid, NEW last, NEW size, Blocks(first, mid, last, size),
           NEW g, g = Gcd(mid - first, last - mid),
           NEW X, NEW a \in [1..size -> X], NEW start \in first..(last - 1),
           NEW b, b = Cycle(first, mid, last, start, a)
    PROVE  Shifted(first, mid, last, size, X, g, start, a, b)
<1> DEFINE len == (last - first) \div g
           Same(q) == (q - first) % g = (start - first) % g
           On(q) == Onward(first, mid, last, q)
<1>1. /\ first \in Nat \ {0} /\ mid \in Nat /\ last \in Nat /\ size \in Nat
      /\ mid - first \in Nat \ {0} /\ last - mid \in Nat \ {0}
      /\ last - first = (mid - first) + (last - mid)
      /\ first..(last - 1) \subseteq 1..size
  BY DEF Blocks
<1>2. len \in Nat \ {0}
  BY <1>1, WayRound
<1>3. len = (last - first) \div Gcd(mid - first, last - mid) /\ len = (last - first) \div g
  OBVIOUS
<1> HIDE DEF len
<1> DEFINE S == [pos : first..(last - 1), a : [1..size -> X]]
<1>4. PICK at \in [0..len -> S] : Turns(first, mid, last, start, a, len, at) /\ b = at[len].a
  <2>1. len \in Nat /\ len = (last - first) \div Gcd(mid - first, last - mid)
    BY <1>2, <1>3
  <2>2. CycleOf(first, mid, last, size, X, start, a, len)
    BY <2>1, CycleIs
  <2> QED BY <2>2 DEF CycleOf
<1> DEFINE p == [j \in 0..len |-> at[j].pos]
<1>5. \A j \in 0..len : at[j].pos \in first..(last - 1) /\ at[j].a \in [1..size -> X]
  BY <1>4
<1>6. p \in [0..len -> first..(last - 1)]
  BY <1>5
<1>7. ASSUME NEW j \in 1..len
      PROVE  /\ j - 1 \in 0..len /\ j \in 0..len
             /\ p[j] = On(p[j - 1]) /\ at[j].a = Swap(at[j - 1].a, p[j], start)
  <2>1. j - 1 \in 0..len /\ j \in 0..len /\ at[j] = Move(first, mid, last, start, at[j - 1])
    BY <1>2, <1>4 DEF Turns
  <2> QED BY <2>1 DEF Move
<1>8. p[0] = start /\ at[0].a = a
  BY <1>2, <1>4 DEF Turns
<1> HIDE DEF p
<1>9. /\ p[len] = start
      /\ \A i, j \in 0..(len - 1) : p[i] = p[j] => i = j
      /\ \A j \in 0..len : Same(p[j])
      /\ \A q \in first..(last - 1) : Same(q) => \E j \in 0..(len - 1) : p[j] = q
  <2>1. GoesOn(first, mid, last, start, len, p)
    BY <1>7, <1>8 DEF GoesOn
  <2>2. Round(first, last, start, len, g, p)
    BY <1>3, <1>6, <2>1, CyclePlaces
  <2> QED BY <2>2 DEF Round
<1> HIDE DEF Same, On
<1> DEFINE Moved(j) ==
             /\ \A i \in 1..j : at[j].a[p[i]] = a[p[i - 1]]
             /\ j < len => at[j].a[start] = a[p[j]]
             /\ \A q \in 1..size : (\A i \in 0..j : p[i] # q) => at[j].a[q] = a[q]
<1>10. Moved(0)
  BY <1>8
<1>11. ASSUME NEW j \in 1..len, Moved(j - 1) PROVE Moved(j)
  <2> DEFINE old == at[j - 1].a
             new == at[j].a
             to == p[j]
  <2>1. /\ old \in [1..size -> X] /\ to \in 1..size /\ start \in 1..size
        /\ new = Swap(old, to, start)
    BY <1>1, <1>5, <1>6, <1>7
  <2>2. /\ new[to] = old[start] /\ new[start] = old[to]
        /\ \A k \in (1..size) \ {to, start} : new[k] = old[k]
    <3> HIDE DEF old, new, to
    <3>1. /\ Swap(old, to, start)[to] = old[start] /\ Swap(old, to, start)[start] = old[to]
          /\ \A k \in (1..size) \ {to, start} : Swap(old, to, start)[k] = old[k]
      <4>1. size \in Nat
        BY <1>1
      <4>2. old \in [1..size -> X] /\ to \in 1..size /\ start \in 1..size
        BY <2>1
      <4> QED BY <4>2 DEF Swap
    <3> QED BY <2>1, <3>1
  <2>3. j \in Nat /\ j - 1 \in 0..(len - 1) /\ old[start] = a[p[j - 1]]
    BY <1>2, <1>11
  <2>4. ASSUME NEW i \in 1..(j - 1) PROVE p[i] # start /\ p[i] # to /\ p[i] \in 1..size
    <3>1. i \in 0..(len - 1) /\ i # 0 /\ 0 \in 0..(len - 1) /\ i \in 0..len /\ i # j
      BY <1>2, <2>3
    <3>2. p[i] # start /\ p[i] \in 1..size
      BY <1>1, <1>6, <1>8, <1>9, <3>1
    <3>3. CASE j = len
      BY <1>9, <3>2, <3>3
    <3>4. CASE j # len
      <4>1. j \in 0..(len - 1)
        BY <1>2, <3>4
      <4> QED BY <1>9, <3>1, <3>2, <4>1
    <3> QED BY <3>3, <3>4
  <2>5. ASSUME NEW i \in 1..j PROVE new[p[i]] = a[p[i - 1]]
    <3>1. CASE i = j
      BY <2>2, <2>3, <3>1
    <3>2. CASE i # j
      <4>1. i \in 1..(j - 1)
        BY <2>3, <3>2
      <4>2. new[p[i]] = old[p[i]]
        BY <2>2, <2>4, <4>1
      <4> QED BY <1>11, <4>1, <4>2
    <3> QED BY <3>1, <3>2
  <2>6. ASSUME NEW q \in 1..size, \A i \in 0..j : p[i] # q PROVE new[q] = a[q]
    <3>1. 0 \in 0..j /\ j \in 0..j /\ \A i \in 0..(j - 1) : i \in 0..j
      BY <2>3
    <3>2. q # start /\ q # to /\ \A i \in 0..(j - 1) : p[i] # q
      BY <1>8, <2>6, <3>1
    <3>3. new[q] = old[q]
      BY <2>2, <3>2
    <3> QED BY <1>11, <3>2, <3>3
  <2>7. ASSUME j < len PROVE new[start] = a[p[j]]
    <3>1. ASSUME NEW i \in 0..(j - 1) PROVE p[i] # to
      <4>1. i \in 0..(len - 1) /\ j \in 0..(len - 1) /\ i # j
        BY <1>2, <2>3, <2>7
      <4> QED BY <1>9, <4>1
    <3>2. old[to] = a[to]
      BY <1>11, <2>1, <3>1
    <3> QED BY <2>2, <3>2
  <2> QED BY <2>5, <2>6, <2>7
<1>12. Moved(len)
  <2> DEFINE M == {j \in 0..len : Moved(j)}
  <2>1. 0 \in M
    BY <1>2, <1>10
  <2>2. ASSUME NEW j \in 1..len, j - 1 \in M PROVE j \in M
    <3>1. Moved(j - 1) /\ j \in 0..len
      BY <1>2, <2>2
    <3> HIDE DEF Moved
    <3> QED BY <1>11, <3>1
  <2> HIDE DEF M
  <2>3. \A j \in 0..len : j \in M
    BY <1>2, <2>1, <2>2, Counting
  <2>4. len \in M
    BY <1>2, <2>3
  <2> HIDE DEF Moved
  <2> QED BY <2>4 DEF M
<1>13. \A i \in 1..len : b[p[i]] = a[p[i - 1]]
  BY <1>4, <1>12
<1>14. \A q \in 1..size : (\A i \in 0..len : p[i] # q) => b[q] = a[q]
  BY <1>4, <1>12
<1>15. b \in [1..size -> X]
  BY <1>2, <1>4, <1>5
<1>16. ASSUME NEW q \in first..(last - 1), Same(q) PROVE b[On(q)] = a[q]
  <2>1. PICK j \in 0..(len - 1) : p[j] = q
    BY <1>9, <1>16
  <2>2. j + 1 \in 1..len /\ (j + 1) - 1 = j
    BY <1>2
  <2>3. p[j + 1] = On(q)
    BY <1>7, <2>1, <2>2
  <2> QED BY <1>13, <2>1, <2>2, <2>3
<1>17. ASSUME NEW q \in 1..size, ~(q \in first..(last - 1) /\ Same(q)) PROVE b[q] = a[q]
  <2>1. \A i \in 0..len : p[i] # q
    BY <1>6, <1>9, <1>17
  <2> QED BY <1>14, <2>1
<1> QED BY <1>15, <1>16, <1>17 DEF Shifted, Same, On

LEMMA SameRest ==
    ASSUME NEW g \in Nat \ {0}, NEW x \in Nat, NEW y \in Nat, NEW c \in Nat, x = y + g * c
    PROVE  x % g = y % g
<1> DEFINE q == y \div g
           r == y % g
<1>1. q \in Nat /\ r \in 0..(g - 1) /\ y = g * q + r
  BY DivMod
<1> HIDE DEF q, r
<1>2. x = g * (q + c) + r /\ q + c \in Nat
  <2> DEFINE A == g * q
             B == g * c
  <2>1. A \in Int /\ B \in Int /\ g * (q + c) = A + B /\ x = y + B /\ y = A + r /\ r \in Int
    BY <1>1
  <2> HIDE DEF A, B
  <2>2. x = (A + B) + r
    BY <2>1
  <2> QED BY <1>1, <2>1, <2>2
<1>3. (g * (q + c) + r) % g = r /\ (g * q + r) % g = r
  BY <1>1, <1>2, ModIs
<1> QED BY <1>1, <1>2, <1>3 DEF r

Exchanged(first, mid, last, size, X, a, b) ==
  /\ b \in [1..size -> X]
  /\ \A q \in first..(last - 1) : b[Onward(first, mid, last, q)] = a[q]
  /\ \A q \in 1..size : q \notin first..(last - 1) => b[q] = a[q]

\* permute_args, whatever the lengths of the two blocks: all cycles together move each
\* word of first..last-1 to where it belongs when the blocks change places, once, and
\* touch no other word.
THEOREM PermuteIs ==
    ASSUME NEW first, NEW mid, NEW last, NEW size, Blocks(first, mid, last, size),
           NEW X, NEW a \in [1..size -> X], NEW b, b = PermuteArgs(first, mid, last, a)
    PROVE  Exchanged(first, mid, last, size, X, a, b)
<1> DEFINE n == mid - first
           o == last - mid
           g == Gcd(n, o)
           On(q) == Onward(first, mid, last, q)
           Rest(q) == (q - first) % g
           S == [1..size -> X]
           C(c, i) == Cycle(first, mid, last, mid + i - 1, c)
           F == [i \in 1..g |-> [c \in S |-> C(c, i)]]
<1>1. /\ first \in Nat \ {0} /\ mid \in Nat /\ last \in Nat /\ size \in Nat
      /\ n \in Nat \ {0} /\ o \in Nat \ {0} /\ first..(last - 1) \subseteq 1..size
      /\ mid = first + n /\ last = mid + o
  BY DEF Blocks
<1>2. g \in 1..n /\ Divides(g, n) /\ Divides(g, o) /\ g <= o
  <2> HIDE DEF n, o
  <2>1. g \in 1..n /\ Divides(g, n) /\ Divides(g, o)
    BY <1>1, GcdIs
  <2>2. PICK k \in Nat : o = g * k
    BY <2>1 DEF Divides
  <2> HIDE DEF g
  <2>3. g \in Nat \ {0} /\ k # 0
    BY <1>1, <2>1, <2>2
  <2>4. g <= g * k
    BY <2>3, Multiples
  <2> QED BY <2>1, <2>2, <2>4
<1>3. g = Gcd(mid - first, last - mid)
  OBVIOUS
<1> HIDE DEF n, o, g
<1>4. g \in Nat \ {0}
  BY <1>1, <1>2
<1>5. ASSUME NEW i \in 1..g
      PROVE  /\ mid + i - 1 \in first..(last - 1) /\ ((mid + i - 1) - first) % g = i - 1
  <2>1. mid + i - 1 \in first..(last - 1)
    BY <1>1, <1>2, <1>4
  <2>2. PICK k \in Nat : n = g * k
    BY <1>2 DEF Divides
  <2>3. (mid + i - 1) - first = n + (i - 1) /\ i - 1 \in 0..(g - 1)
    BY <1>1, <1>4
  <2>4. (g * k + (i - 1)) % g = i - 1
    BY <1>4, <2>2, <2>3, ModIs
  <2> QED BY <2>1, <2>2, <2>3, <2>4
<1>6. ASSUME NEW i \in 1..g, NEW c \in S
      PROVE  /\ C(c, i) \in S
             /\ \A q \in first..(last - 1) : Rest(q) = i - 1 => C(c, i)[On(q)] = c[q]
             /\ \A q \in 1..size : ~(q \in first..(last - 1) /\ Rest(q) = i - 1) => C(c, i)[q] = c[q]
  <2> DEFINE start == mid + i - 1
             d == C(c, i)
  <2>1. start \in first..(last - 1) /\ (start - first) % g = i - 1
    BY <1>5
  <2>2. d = Cycle(first, mid, last, start, c)
    OBVIOUS
  <2> HIDE DEF start, d
  <2>3. Shifted(first, mid, last, size, X, g, start, c, d)
    BY <1>3, <2>1, <2>2, CycleMoves
  <2> QED BY <2>1, <2>3 DEF d, Shifted
<1>7. ASSUME NEW q \in first..(last - 1)
      PROVE  /\ On(q) \in first..(last - 1) /\ Rest(On(q)) = Rest(q) /\ Rest(q) \in 0..(g - 1)
  <2>1. On(q) \in first..(last - 1)
    BY OnwardIs
  <2>2. q - first \in Nat /\ On(q) - first \in Nat
    BY <1>1, <2>1
  <2>3. CASE q >= mid
    <3>1. PICK k \in Nat : n = g * k
      BY <1>2 DEF Divides
    <3>2. q - first = (On(q) - first) + g * k
      BY <1>1, <2>1, <2>3, <3>1 DEF Onward, n
    <3>3. Rest(q) = Rest(On(q))
      <4> DEFINE x == q - first
                 y == On(q) - first
      <4>1. x \in Nat /\ y \in Nat /\ x = y + g * k
        BY <2>2, <3>2
      <4> HIDE DEF x, y
      <4>2. x % g = y % g
        BY <1>4, <4>1, SameRest
      <4> QED BY <4>2 DEF x, y
    <3> QED BY <1>4, <2>1, <2>2, <3>3, DivMod
  <2>4. CASE ~(q >= mid)
    <3>1. PICK k \in Nat : o = g * k
      BY <1>2 DEF Divides
    <3>2. On(q) - first = (q - first) + g * k
      BY <1>1, <2>1, <2>4, <3>1 DEF Onward, o
    <3>3. Rest(q) = Rest(On(q))
      <4> DEFINE x == q - first
                 y == On(q) - first
      <4>1. x \in Nat /\ y \in Nat /\ y = x + g * k
        BY <2>2, <3>2
      <4> HIDE DEF x, y
      <4>2. x % g = y % g
        BY <1>4, <4>1, SameRest
      <4> QED BY <4>2 DEF x, y
    <3> QED BY <1>4, <2>1, <2>2, <3>3, DivMod
  <2> QED BY <2>3, <2>4
<1> HIDE DEF On, Rest, S, C
<1>8. F \in [1..g -> [S -> S]]
  BY <1>6
<1>9. a \in S
  BY DEF S
<1>10. PICK at \in [0..g -> S] : Steps(F, a, g, at)
  <2> HIDE DEF F
  <2> QED BY <1>4, <1>8, <1>9, StepsExist
<1>11. at[0] = a /\ \A i \in 1..g : at[i - 1] \in S /\ at[i] = C(at[i - 1], i)
  <2>1. ASSUME NEW i \in 1..g PROVE at[i - 1] \in S /\ at[i] = C(at[i - 1], i)
    <3>1. i - 1 \in 0..g
      BY <1>4
    <3>2. at[i - 1] \in S /\ at[i] = F[i][at[i - 1]]
      BY <1>10, <3>1 DEF Steps
    <3> QED BY <3>2
  <2>2. at[0] = a
    BY <1>10 DEF Steps
  <2> QED BY <2>1, <2>2
<1>12. b = at[g]
  <2> DEFINE Is(f) == f = [i \in 0..g |-> IF i = 0 THEN a ELSE C(f[i - 1], i)]
  <2>1. Is(at)
    BY <1>4, <1>10, <1>11
  <2>2. PICK f : Is(f) /\ b = f[g]
    <3> DEFINE h == CHOOSE f : Is(f)
    <3>1. Is(h)
      BY <2>1
    <3>2. b = h[g]
      BY DEF PermuteArgs, C, g, n, o
    <3> QED BY <3>1, <3>2
  <2>3. f[0] = a /\ \A i \in 1..g : f[i] = C(f[i - 1], i)
    BY <1>4, <2>2
  <2>4. StepsIn(F, S, a, g, f)
    BY <2>3 DEF StepsIn
  <2>5. StepsIn(F, S, a, g, at)
    BY <1>11 DEF StepsIn
  <2> HIDE DEF F, Is
  <2>6. \A i \in 0..g : f[i] \in S /\ f[i] = at[i]
    BY <1>4, <1>8, <1>9, <2>4, <2>5, StepsStay
  <2> QED BY <1>4, <2>2, <2>6
<1> HIDE DEF F
<1> DEFINE Part(i) ==
             /\ \A q \in first..(last - 1) : Rest(q) < i => at[i][On(q)] = a[q]
             /\ \A q \in 1..size : ~(q \in first..(last - 1) /\ Rest(q) < i) => at[i][q] = a[q]
<1>13. Part(0)
  BY <1>7, <1>11
<1>14. ASSUME NEW i \in 1..g, Part(i - 1) PROVE Part(i)
  <2> DEFINE c == at[i - 1]
             d == at[i]
  <2>1. /\ \A q \in first..(last - 1) : Rest(q) = i - 1 => d[On(q)] = c[q]
        /\ \A q \in 1..size : ~(q \in first..(last - 1) /\ Rest(q) = i - 1) => d[q] = c[q]
    BY <1>6, <1>11
  <2>2. /\ \A q \in first..(last - 1) : Rest(q) < i - 1 => c[On(q)] = a[q]
        /\ \A q \in 1..size : ~(q \in first..(last - 1) /\ Rest(q) < i - 1) => c[q] = a[q]
    BY <1>14
  <2> HIDE DEF c, d
  <2>3. i \in Nat
    BY <1>4
  <2>4. ASSUME NEW q \in first..(last - 1), Rest(q) < i PROVE d[On(q)] = a[q]
    <3>1. q \in 1..size /\ On(q) \in 1..size /\ Rest(q) \in Nat
      <4>1. On(q) \in first..(last - 1) /\ Rest(q) \in 0..(g - 1)
        BY <1>7
      <4>2. first..(last - 1) \subseteq 1..size
        BY <1>1
      <4>3. \A x \in 0..(g - 1) : x \in Nat
        BY <1>4
      <4> QED BY <4>1, <4>2, <4>3
    <3>2. CASE Rest(q) = i - 1
      <4>1. ~(Rest(q) < i - 1)
        BY <2>3, <3>1, <3>2
      <4> QED BY <2>1, <2>2, <3>1, <3>2, <4>1
    <3>3. CASE Rest(q) # i - 1
      <4>1. Rest(q) < i - 1
        BY <2>3, <2>4, <3>1, <3>3
      <4>2. Rest(On(q)) # i - 1
        BY <1>7, <3>3
      <4> QED BY <2>1, <2>2, <3>1, <4>1, <4>2
    <3> QED BY <3>2, <3>3
  <2>5. ASSUME NEW q \in 1..size, ~(q \in first..(last - 1) /\ Rest(q) < i) PROVE d[q] = a[q]
    <3>1. CASE q \in first..(last - 1)
      <4>1. Rest(q) \in Nat /\ ~(Rest(q) < i)
        BY <1>4, <1>7, <2>5, <3>1
      <4>2. Rest(q) # i - 1 /\ ~(Rest(q) < i - 1)
        BY <2>3, <4>1
      <4> QED BY <2>1, <2>2, <4>2
    <3>2. CASE q \notin first..(last - 1)
      BY <2>1, <2>2, <3>2
    <3> QED BY <3>1, <3>2
  <2> QED BY <2>4, <2>5 DEF d
<1>15. Part(g)
  <2> DEFINE M == {i \in 0..g : Part(i)}
  <2>1. 0 \in M
    BY <1>4, <1>13
  <2>2. ASSUME NEW i \in 1..g, i - 1 \in M PROVE i \in M
    <3>1. Part(i - 1) /\ i \in 0..g
      BY <1>4, <2>2
    <3> HIDE DEF Part
    <3> QED BY <1>14, <3>1
  <2> HIDE DEF M
  <2>3. \A i \in 0..g : i \in M
    BY <1>4, <2>1, <2>2, Counting
  <2>4. g \in M
    BY <1>4, <2>3
  <2> HIDE DEF Part
  <2> QED BY <2>4 DEF M
<1>16. \A q \in first..(last - 1) : Rest(q) < g
  BY <1>4, <1>7
<1>17. b \in S
  BY <1>4, <1>10, <1>12
<1> QED BY <1>12, <1>15, <1>16, <1>17 DEF Exchanged, S, On

\* What the scan relies on: the operands end up right before last, in their order,
\* and what is outside stays where it is.
MovedBack(first, mid, last, X, a, b) ==
  /\ b \in Seq(X) /\ Len(b) = Len(a)
  /\ SubSeq(b, last - (mid - first), last - 1) = SubSeq(a, first, mid - 1)
  /\ \A q \in last..Len(a) : b[q] = a[q]

LEMMA Permuted ==
    ASSUME NEW X, NEW a \in Seq(X), NEW first, NEW mid, NEW last, Blocks(first, mid, last, Len(a)),
           NEW b, b = PermuteArgs(first, mid, last, a)
    PROVE  MovedBack(first, mid, last, X, a, b)
<1> DEFINE N == Len(a)
           n == mid - first
<1>1. a \in [1..N -> X] /\ N \in Nat /\ Blocks(first, mid, last, N)
  OBVIOUS
<1>2. /\ first \in Nat \ {0} /\ mid \in Nat /\ last \in Nat /\ first < mid /\ mid < last /\ last <= N + 1
      /\ n \in Nat \ {0} /\ mid = first + n
  BY <1>1 DEF Blocks
<1> HIDE DEF N, n
<1>3. /\ b \in [1..N -> X]
      /\ \A q \in first..(last - 1) : b[Onward(first, mid, last, q)] = a[q]
      /\ \A q \in 1..N : q \notin first..(last - 1) => b[q] = a[q]
  <2>1. Exchanged(first, mid, last, N, X, a, b)
    BY <1>1, PermuteIs
  <2> QED BY <2>1 DEF Exchanged
<1>4. b \in Seq(X) /\ Len(b) = N
  BY <1>1, <1>3
<1>5. \A q \in last..N : b[q] = a[q]
  BY <1>2, <1>3
<1>6. \A j \in 1..n : b[((last - n) + j) - 1] = a[(first + j) - 1]
  <2> TAKE j \in 1..n
  <2> DEFINE q == (first + j) - 1
  <2>1. q \in first..(last - 1) /\ ~(q >= mid) /\ q + (last - mid) = ((last - n) + j) - 1
    BY <1>2
  <2>2. Onward(first, mid, last, q) = ((last - n) + j) - 1
    BY <2>1 DEF Onward
  <2> QED BY <1>3, <2>1, <2>2
<1> DEFINE s == SubSeq(b, last - n, last - 1)
           t == SubSeq(a, first, mid - 1)
<1>7. last - n \in 1..(N + 1) /\ last - 1 \in 0..N /\ (last - n) - 1 \in 0..(last - 1)
      /\ first \in 1..(N + 1) /\ mid - 1 \in 0..N
  BY <1>2, <1>1
<1>8. s \in Seq(X) /\ Len(s) = n /\ \A j \in 1..n : s[j] = b[((last - n) + j) - 1]
  <2> DEFINE m == last - n
             e == last - 1
  <2>1. \A i \in m..e : b[i] \in X
    BY <1>1, <1>2, <1>3, <1>7
  <2>2. m \in Int /\ e \in Int /\ m <= e /\ e - m + 1 = n /\ s = SubSeq(b, m, e)
    BY <1>2
  <2> HIDE DEF m, e, s
  <2>3. s \in Seq(X) /\ Len(s) = e - m + 1 /\ \A j \in 1..(e - m + 1) : s[j] = b[m + j - 1]
    BY <2>1, <2>2, SubSeqProperties
  <2> QED BY <2>2, <2>3 DEF m
<1>9. t \in Seq(X) /\ Len(t) = n /\ \A j \in 1..n : t[j] = a[(first + j) - 1]
  <2> DEFINE e == mid - 1
  <2>1. \A i \in first..e : a[i] \in X
    BY <1>1, <1>2, <1>7
  <2>2. first \in Int /\ e \in Int /\ first <= e /\ e - first + 1 = n /\ t = SubSeq(a, first, e)
    BY <1>2
  <2> HIDE DEF e, t
  <2>3. t \in Seq(X) /\ Len(t) = e - first + 1 /\ \A j \in 1..(e - first + 1) : t[j] = a[first + j - 1]
    BY <2>1, <2>2, SubSeqProperties
  <2> QED BY <2>2, <2>3
<1> HIDE DEF s, t
<1>10. \A j \in 1..Len(s) : s[j] = t[j]
  BY <1>6, <1>8, <1>9
<1>11. s = t
  BY <1>8, <1>9, <1>10, SeqEqual
<1> QED BY <1>4, <1>5, <1>11 DEF MovedBack, s, t, n, N

-----------------------------------------------------------------------------
(* Reading.                                                                *)

Texts == Seq(Chars)

Readings(t) == [vals : [1..Len(t) -> Seq(Texts)], words : Seq(Texts), wants : {0} \cup Tagged(t),
                inside : BOOLEAN, only : BOOLEAN, bad : BOOLEAN]

\* The values given so far may still be followed by others.
FitsSoFar(e, vs) ==
  /\ Len(vs) <= e.max
  /\ e.kind = "int" => Range(vs) \subseteq Numbers
  /\ e.kind = "rex" => Range(vs) \subseteq KillTargets

\* Whatever follows, it will not become acceptable.
Faulty(t, m) == m.bad \/ \E k \in Tagged(t) : ~FitsSoFar(t[k], m.vals[k])

LEMMA TaggedAre ==
    ASSUME NEW t, Len(t) \in Nat
    PROVE  \A k \in Tagged(t) : k \in 1..Len(t) /\ k # 0
<1>1. \A k \in Tagged(t) : k \in 1..Len(t)
  BY DEF Tagged
<1> DEFINE n == Len(t)
<1>2. n \in Nat
  OBVIOUS
<1> HIDE DEF n
<1>3. \A k \in 1..n : k # 0
  BY <1>2
<1> QED BY <1>1, <1>3 DEF n

\* One more value fits if there is room for it and it is of its kind.
LEMMA FitsWith ==
    ASSUME NEW e, e.max \in Nat, NEW vs \in Seq(Texts), NEW val \in Texts
    PROVE  FitsSoFar(e, Append(vs, val)) <=>
             /\ FitsSoFar(e, vs) /\ Len(vs) # e.max
             /\ e.kind = "int" => val \in Numbers
             /\ e.kind = "rex" => val \in KillTargets
<1>1. Range(Append(vs, val)) = Range(vs) \cup {val}
  <2>1. Len(vs) \in Nat /\ DOMAIN vs = 1..Len(vs)
    OBVIOUS
  <2>2. DOMAIN Append(vs, val) = 1..(Len(vs) + 1)
    OBVIOUS
  <2>3. Append(vs, val)[Len(vs) + 1] = val /\ \A i \in 1..Len(vs) : Append(vs, val)[i] = vs[i]
    OBVIOUS
  <2>4. 1..(Len(vs) + 1) = (1..Len(vs)) \cup {Len(vs) + 1}
    BY <2>1
  <2> QED BY <2>1, <2>2, <2>3, <2>4 DEF Range
<1>2. Len(Append(vs, val)) = Len(vs) + 1 /\ Len(vs) \in Nat
  OBVIOUS
<1> QED BY <1>1, <1>2 DEF FitsSoFar

LEMMA ReadingIs ==
    ASSUME NEW t, NEW m \in Readings(t)
    PROVE  /\ m.vals \in [1..Len(t) -> Seq(Texts)] /\ m.words \in Seq(Texts)
           /\ m.wants \in {0} \cup Tagged(t) /\ m.inside \in BOOLEAN /\ m.only \in BOOLEAN
           /\ m.bad \in BOOLEAN
BY DEF Readings

LEMMA GivesIs ==
    ASSUME NEW t, Len(t) \in Nat, NEW m \in Readings(t), NEW k \in Tagged(t), NEW val \in Texts
    PROVE  /\ Gives(m, k, val) \in Readings(t)
           /\ Gives(m, k, val).vals = [m.vals EXCEPT ![k] = Append(m.vals[k], val)]
           /\ Gives(m, k, val).words = m.words /\ Gives(m, k, val).wants = m.wants
           /\ Gives(m, k, val).inside = m.inside /\ Gives(m, k, val).only = m.only
           /\ Gives(m, k, val).bad = m.bad
<1> DEFINE g == Gives(m, k, val)
           v == [m.vals EXCEPT ![k] = Append(m.vals[k], val)]
<1>1. k \in 1..Len(t)
  BY TaggedAre
<1>2. m.vals \in [1..Len(t) -> Seq(Texts)] /\ Append(m.vals[k], val) \in Seq(Texts)
  BY <1>1, ReadingIs
<1>3. v \in [1..Len(t) -> Seq(Texts)]
  BY <1>1, <1>2
<1>4. g = [m EXCEPT !.vals = v]
  BY DEF Gives
<1> HIDE DEF v, g
<1> QED BY <1>3, <1>4 DEF Readings, g, v

LEMMA OthersAre ==
    ASSUME NEW t, Len(t) \in Nat, NEW m \in Readings(t), NEW k \in {0} \cup Tagged(t)
    PROVE  /\ Awaits(m, k) \in Readings(t) /\ Unclear(m) \in Readings(t) /\ Left(m) \in Readings(t)
           /\ Awaits(m, k).vals = m.vals /\ Awaits(m, k).words = m.words /\ Awaits(m, k).wants = k
           /\ Awaits(m, k).inside = m.inside /\ Awaits(m, k).only = m.only /\ Awaits(m, k).bad = m.bad
           /\ Unclear(m).bad
           /\ Left(m).vals = m.vals /\ Left(m).words = m.words /\ Left(m).wants = m.wants
           /\ ~Left(m).inside /\ Left(m).only = m.only /\ Left(m).bad = m.bad
BY DEF Readings, Awaits, Unclear, Left

\* A value more does not mend what does not fit.
LEMMA StaysFaulty ==
    ASSUME NEW t, Len(t) \in Nat, \A i \in 1..Len(t) : t[i].max \in Nat,
           NEW m \in Readings(t), NEW k \in Tagged(t), NEW val \in Texts
    PROVE  /\ Faulty(t, m) => Faulty(t, Gives(m, k, val))
           /\ ~FitsSoFar(t[k], Append(m.vals[k], val)) => Faulty(t, Gives(m, k, val))
<1> DEFINE g == Gives(m, k, val)
<1>1. /\ g.vals = [m.vals EXCEPT ![k] = Append(m.vals[k], val)] /\ g.bad = m.bad
      /\ m.vals \in [1..Len(t) -> Seq(Texts)]
  <2>1. m.vals \in [1..Len(t) -> Seq(Texts)]
    BY ReadingIs
  <2>2. Gives(m, k, val).vals = [m.vals EXCEPT ![k] = Append(m.vals[k], val)] /\ Gives(m, k, val).bad = m.bad
    BY GivesIs
  <2> QED BY <2>1, <2>2
<1>2. k \in 1..Len(t) /\ t[k].max \in Nat /\ m.vals[k] \in Seq(Texts)
  BY <1>1, TaggedAre
<1> HIDE DEF g
<1>3. g.vals[k] = Append(m.vals[k], val) /\ \A i \in Tagged(t) : i # k => g.vals[i] = m.vals[i]
  BY <1>1, <1>2, TaggedAre
<1>4. ~FitsSoFar(t[k], Append(m.vals[k], val)) => Faulty(t, g)
  BY <1>3 DEF Faulty
<1>5. ASSUME Faulty(t, m) PROVE Faulty(t, g)
  <2>1. CASE m.bad
    BY <1>1, <2>1 DEF Faulty
  <2>2. CASE ~m.bad
    <3>1. PICK i \in Tagged(t) : ~FitsSoFar(t[i], m.vals[i])
      BY <1>5, <2>2 DEF Faulty
    <3>2. CASE i = k
      <4>1. ~FitsSoFar(t[k], Append(m.vals[k], val))
        BY <1>2, <3>1, <3>2, FitsWith
      <4> QED BY <1>4, <4>1
    <3>3. CASE i # k
      BY <1>3, <3>1, <3>3 DEF Faulty
    <3> QED BY <3>2, <3>3
  <2> QED BY <2>1, <2>2
<1> QED BY <1>4, <1>5 DEF g

\* What reading a part of a word leads to.
Onwards(t, m, n) == n \in Readings(t) /\ (Faulty(t, m) => Faulty(t, n))

LEMMA Ends ==
    ASSUME NEW t, Len(t) \in Nat, NEW m, NEW n \in Readings(t), Onwards(t, m, n), NEW k \in {0} \cup Tagged(t)
    PROVE  /\ Onwards(t, m, Left(n)) /\ Onwards(t, m, Awaits(n, k)) /\ Onwards(t, m, Unclear(n))
           /\ Onwards(t, m, Left(Awaits(n, k)))
<1>1. /\ Left(n) \in Readings(t) /\ Awaits(n, k) \in Readings(t) /\ Unclear(n) \in Readings(t)
      /\ Left(n).vals = n.vals /\ Left(n).bad = n.bad
      /\ Awaits(n, k).vals = n.vals /\ Awaits(n, k).bad = n.bad /\ Unclear(n).bad
  BY OthersAre
<1>2. Left(Awaits(n, k)) \in Readings(t) /\ Left(Awaits(n, k)).vals = n.vals /\ Left(Awaits(n, k)).bad = n.bad
  <2> DEFINE x == Awaits(n, k)
  <2>1. x \in Readings(t)
    BY <1>1
  <2> HIDE DEF x
  <2>2. Left(x) \in Readings(t) /\ Left(x).vals = x.vals /\ Left(x).bad = x.bad
    BY <2>1, OthersAre
  <2> QED BY <1>1, <2>2 DEF x
<1> QED BY <1>1, <1>2 DEF Onwards, Faulty

LEMMA LetterIs ==
    ASSUME NEW t, Len(t) \in Nat, \A i \in 1..Len(t) : t[i].max \in Nat,
           NEW m \in Readings(t), NEW c, NEW rest \in Texts
    PROVE  Onwards(t, m, ReadLetter(t, m, c, rest))
<1> DEFINE found == ShortEntry(t, c)
           k == CHOOSE i \in found : TRUE
<1>1. CASE found = {}
  <2>1. Onwards(t, m, m)
    BY DEF Onwards
  <2>2. Onwards(t, m, Unclear(m))
    BY <2>1, Ends
  <2> QED BY <1>1, <2>2 DEF ReadLetter
<1>2. CASE found # {}
  <2>1. k \in Tagged(t)
    BY <1>2 DEF ShortEntry
  <2> DEFINE r == ReadLetter(t, m, c, rest)
  <2>2. r = IF t[k].kind = "lit" THEN Gives(m, k, <<>>)
            ELSE IF rest # <<>> THEN Left(Gives(m, k, rest)) ELSE Left(Awaits(m, k))
    BY <1>2 DEF ReadLetter
  <2>3. \A val \in Texts : Onwards(t, m, Gives(m, k, val))
    <3> HIDE DEF k
    <3> QED BY <2>1, GivesIs, StaysFaulty DEF Onwards
  <2>4. <<>> \in Texts
    BY DEF Texts
  <2> HIDE DEF k, r, found
  <2>5. Onwards(t, m, Gives(m, k, <<>>)) /\ Onwards(t, m, Gives(m, k, rest))
    BY <2>3, <2>4
  <2>6. Onwards(t, m, Left(Gives(m, k, rest)))
    <3> DEFINE x == Gives(m, k, rest)
    <3>1. Onwards(t, m, x) /\ x \in Readings(t)
      BY <2>5 DEF Onwards
    <3> HIDE DEF x
    <3>2. Onwards(t, m, Left(x))
      BY <3>1, Ends
    <3> QED BY <3>2 DEF x
  <2>7. Onwards(t, m, Left(Awaits(m, k)))
    <3>1. Onwards(t, m, m) /\ k \in {0} \cup Tagged(t)
      BY <2>1 DEF Onwards
    <3> QED BY <3>1, Ends
  <2> QED BY <2>2, <2>5, <2>6, <2>7 DEF r
<1> QED BY <1>1, <1>2

LEMMA NameIs ==
    ASSUME NEW t, Len(t) \in Nat, \A i \in 1..Len(t) : t[i].max \in Nat,
           NEW m \in Readings(t), NEW name \in Texts
    PROVE  Onwards(t, m, ReadName(t, m, name))
<1> DEFINE found == IF ExactEntry(t, name[1]) # {} THEN ExactEntry(t, name[1]) ELSE LongEntries(t, name[1])
           k == CHOOSE i \in found : TRUE
           given == SubSeq(name, 3, Len(name))
           r == ReadName(t, m, name)
<1>1. Onwards(t, m, m) /\ Onwards(t, m, Unclear(m))
  <2>1. Onwards(t, m, m)
    BY DEF Onwards
  <2> QED BY <2>1, Ends
<1>2. CASE name = <<>> \/ Cardinality(found) # 1
  BY <1>1, <1>2 DEF ReadName
<1>3. CASE ~(name = <<>> \/ Cardinality(found) # 1)
  <2>1. k \in Tagged(t)
    <3>1. found # {}
      <4>1. Cardinality({}) = 0
        BY FS_EmptySet
      <4>2. Cardinality(found) = 1
        BY <1>3
      <4> HIDE DEF found
      <4>3. found = {} => FALSE
        BY <4>1, <4>2
      <4> QED BY <4>3
    <3>2. found \subseteq Tagged(t)
      BY DEF ExactEntry, LongEntries
    <3> QED BY <3>1, <3>2
  <2>2. \/ r = Unclear(m) \/ r = Gives(m, k, <<>>) \/ r = Awaits(m, k) \/ r = Gives(m, k, given)
    BY <1>3 DEF ReadName
  <2>3. <<>> \in Texts /\ given \in Texts
    BY DEF Texts
  <2> HIDE DEF k, r, found, given
  <2>4. \A val \in Texts : Onwards(t, m, Gives(m, k, val))
    BY <2>1, GivesIs, StaysFaulty DEF Onwards
  <2>5. Onwards(t, m, Awaits(m, k))
    <3>1. k \in {0} \cup Tagged(t)
      BY <2>1
    <3> QED BY <1>1, <3>1, Ends
  <2> QED BY <1>1, <2>2, <2>3, <2>4, <2>5 DEF r
<1> QED BY <1>2, <1>3

LEMMA AtIs ==
    ASSUME NEW t, Len(t) \in Nat, \A i \in 1..Len(t) : t[i].max \in Nat,
           NEW m \in Readings(t), NEW w \in Texts, NEW j \in Nat
    PROVE  Onwards(t, m, ReadAt(t, m, w, j))
<1> DEFINE rest == SubSeq(w, j + 1, Len(w))
<1>1. rest \in Texts
  BY DEF Texts
<1>2. ReadAt(t, m, w, j) = IF ~m.inside THEN m
                           ELSE IF w[j] = "-" THEN Left(ReadName(t, m, rest)) ELSE ReadLetter(t, m, w[j], rest)
  BY DEF ReadAt
<1> HIDE DEF rest
<1>3. Onwards(t, m, m)
  BY DEF Onwards
<1>4. Onwards(t, m, Left(ReadName(t, m, rest)))
  <2> DEFINE x == ReadName(t, m, rest)
  <2>1. Onwards(t, m, x) /\ x \in Readings(t)
    BY <1>1, NameIs DEF Onwards
  <2> HIDE DEF x
  <2>2. Onwards(t, m, Left(x))
    BY <2>1, Ends
  <2> QED BY <2>2 DEF x
<1>5. Onwards(t, m, ReadLetter(t, m, w[j], rest))
  BY <1>1, LetterIs
<1> QED BY <1>2, <1>3, <1>4, <1>5

\* The reading of a word, character by character.
LEMMA OptionIs ==
    ASSUME NEW t, Len(t) \in Nat, \A i \in 1..Len(t) : t[i].max \in Nat,
           NEW m \in Readings(t), NEW w \in Texts, NEW n \in Nat, n \in 1..Len(w)
    PROVE  /\ ReadOption(t, m, w, 1) = [m EXCEPT !.inside = TRUE]
           /\ Onwards(t, m, ReadOption(t, m, w, n))
           /\ n > 1 => ReadOption(t, m, w, n) = ReadAt(t, ReadOption(t, m, w, n - 1), w, n)
<1> DEFINE S == Readings(t)
           s == [m EXCEPT !.inside = TRUE]
           N == Len(w)
           F == [j \in 1..(N - 1) |-> [x \in S |-> ReadAt(t, x, w, j + 1)]]
<1>1. s \in S /\ Onwards(t, m, s)
  BY DEF Readings, Onwards, Faulty
<1>2. N \in Nat /\ N - 1 \in Nat /\ n \in 1..N
  BY DEF Texts
<1> HIDE DEF S, s, N
<1>3. F \in [1..(N - 1) -> [S -> S]]
  <2>1. ASSUME NEW j \in 1..(N - 1), NEW x \in S PROVE ReadAt(t, x, w, j + 1) \in S
    <3>1. j + 1 \in Nat
      BY <1>2
    <3> DEFINE q == j + 1
    <3> HIDE DEF q
    <3>2. q \in Nat => Onwards(t, x, ReadAt(t, x, w, q))
      BY AtIs DEF S
    <3> QED BY <3>1, <3>2 DEF Onwards, S, q
  <2> QED BY <2>1
<1>4. PICK at \in [0..(N - 1) -> S] : Steps(F, s, N - 1, at)
  <2> HIDE DEF F
  <2> QED BY <1>1, <1>2, <1>3, StepsExist
<1>5. at[0] = s /\ \A j \in 1..(N - 1) : at[j - 1] \in S /\ at[j] = ReadAt(t, at[j - 1], w, j + 1)
  <2>1. ASSUME NEW j \in 1..(N - 1) PROVE at[j - 1] \in S /\ at[j] = ReadAt(t, at[j - 1], w, j + 1)
    <3>1. j - 1 \in 0..(N - 1)
      BY <1>2
    <3>2. at[j - 1] \in S /\ at[j] = F[j][at[j - 1]]
      BY <1>4, <3>1 DEF Steps
    <3> QED BY <3>2
  <2> QED BY <1>4, <2>1 DEF Steps

\* Characters are counted from 1, steps from 0.
<1>6. ASSUME NEW k \in 1..N PROVE ReadOption(t, m, w, k) = at[k - 1]
  <2> DEFINE Is(f) == f = [i \in 1..k |-> IF i = 1 THEN s ELSE ReadAt(t, f[i - 1], w, i)]
             h == [i \in 1..k |-> at[i - 1]]
  <2>1. Is(h)
    <3>1. ASSUME NEW i \in 1..k PROVE h[i] = IF i = 1 THEN s ELSE ReadAt(t, h[i - 1], w, i)
      <4>1. CASE i = 1
        BY <1>5, <4>1
      <4>2. CASE i # 1
        <5>1. i - 1 \in 1..(N - 1) /\ i - 1 \in 1..k /\ (i - 1) + 1 = i
          BY <1>2, <4>2
        <5>2. at[i - 1] = ReadAt(t, at[(i - 1) - 1], w, i)
          BY <1>5, <5>1
        <5> QED BY <4>2, <5>1, <5>2
      <4> QED BY <4>1, <4>2
    <3> QED BY <3>1
  <2>2. PICK f : Is(f) /\ ReadOption(t, m, w, k) = f[k]
    <3> DEFINE g == CHOOSE f : Is(f)
    <3>1. Is(g)
      BY <2>1
    <3>2. ReadOption(t, m, w, k) = g[k]
      BY DEF ReadOption, s
    <3> QED BY <3>1, <3>2
  <2> DEFINE M == {j \in 0..(k - 1) : f[j + 1] = at[j]}
  <2>3. 0 \in M /\ k - 1 \in Nat
    <3>1. f[1] = s
      BY <1>2, <2>2
    <3> QED BY <1>2, <1>5, <3>1
  <2>4. ASSUME NEW j \in 1..(k - 1), j - 1 \in M PROVE j \in M
    <3>1. f[j] = at[j - 1] /\ j \in 0..(k - 1) /\ j \in 1..(N - 1) /\ j + 1 \in 1..k /\ j + 1 # 1
          /\ (j + 1) - 1 = j
      BY <1>2, <2>4
    <3>2. f[j + 1] = ReadAt(t, f[j], w, j + 1)
      BY <2>2, <3>1
    <3>3. at[j] = ReadAt(t, at[j - 1], w, j + 1)
      BY <1>5, <3>1
    <3> QED BY <3>1, <3>2, <3>3
  <2> HIDE DEF M
  <2>5. k - 1 \in M
    <3>1. \A j \in 0..(k - 1) : j \in M
      BY <2>3, <2>4, Counting
    <3> QED BY <2>3, <3>1
  <2> QED BY <2>2, <2>5 DEF M
<1>7. \A j \in 0..(N - 1) : Onwards(t, m, at[j])
  <2> DEFINE M == {j \in 0..(N - 1) : Onwards(t, m, at[j])}
  <2>1. 0 \in M
    BY <1>1, <1>2, <1>5
  <2>2. ASSUME NEW j \in 1..(N - 1), j - 1 \in M PROVE j \in M
    <3>1. Onwards(t, m, at[j - 1]) /\ at[j - 1] \in Readings(t) /\ at[j] = ReadAt(t, at[j - 1], w, j + 1)
      BY <1>5, <2>2 DEF S
    <3> DEFINE x == at[j - 1]
               q == j + 1
               y == ReadAt(t, x, w, q)
    <3>2. x \in Readings(t) /\ q \in Nat
      BY <1>2, <3>1
    <3> HIDE DEF x, q
    <3>3. Onwards(t, x, y)
      BY <3>2, AtIs
    <3>4. Onwards(t, m, y)
      BY <3>1, <3>3 DEF Onwards, x
    <3>5. j \in 0..(N - 1)
      BY <1>2
    <3> QED BY <3>1, <3>4, <3>5 DEF x, q
  <2> HIDE DEF M
  <2>3. \A j \in 0..(N - 1) : j \in M
    BY <1>2, <2>1, <2>2, Counting
  <2> QED BY <2>3 DEF M
<1>8. ReadOption(t, m, w, 1) = s
  <2>1. 1 \in 1..N /\ 1 - 1 = 0
    BY <1>2
  <2>2. ReadOption(t, m, w, 1) = at[1 - 1]
    BY <1>6, <2>1
  <2> QED BY <1>5, <2>1, <2>2
<1>9. ReadOption(t, m, w, n) = at[n - 1] /\ Onwards(t, m, at[n - 1])
  <2>1. n - 1 \in 0..(N - 1)
    BY <1>2
  <2> QED BY <1>2, <1>6, <1>7, <2>1
<1>10. ASSUME n > 1 PROVE ReadOption(t, m, w, n) = ReadAt(t, ReadOption(t, m, w, n - 1), w, n)
  <2>1. n - 1 \in 1..N /\ n - 1 \in 1..(N - 1) /\ (n - 1) + 1 = n
    BY <1>2, <1>10
  <2>2. ReadOption(t, m, w, n - 1) = at[(n - 1) - 1]
    BY <1>6, <2>1
  <2>3. at[n - 1] = ReadAt(t, at[(n - 1) - 1], w, n)
    BY <1>5, <2>1
  <2> QED BY <1>9, <2>2, <2>3
<1> QED BY <1>8, <1>9, <1>10 DEF s

\* Once its value is found, the rest of a word says nothing.
LEMMA RestIsSilent ==
    ASSUME NEW t, Len(t) \in Nat, \A i \in 1..Len(t) : t[i].max \in Nat,
           NEW m \in Readings(t), NEW w \in Texts, NEW j \in 1..Len(w), ~ReadOption(t, m, w, j).inside
    PROVE  ReadOption(t, m, w, Len(w)) = ReadOption(t, m, w, j)
<1> DEFINE N == Len(w)
           M == {d \in 0..(N - j) : ReadOption(t, m, w, j + d) = ReadOption(t, m, w, j)}
<1>1. N \in Nat /\ j \in 1..N /\ N - j \in Nat /\ j \in Nat
  BY DEF Texts
<1> HIDE DEF N
<1>2. 0 \in M
  BY <1>1
<1>3. ASSUME NEW d \in 1..(N - j), d - 1 \in M PROVE d \in M
  <2>1. ReadOption(t, m, w, j + (d - 1)) = ReadOption(t, m, w, j)
    BY <1>3
  <2> DEFINE n == j + d
  <2>2. n \in Nat /\ n \in 1..N /\ n > 1 /\ n - 1 = j + (d - 1) /\ d \in 0..(N - j)
    BY <1>1
  <2> HIDE DEF n
  <2>3. ReadOption(t, m, w, n) = ReadAt(t, ReadOption(t, m, w, n - 1), w, n)
    BY <2>2, OptionIs DEF N
  <2>4. ReadOption(t, m, w, n) = ReadOption(t, m, w, j)
    BY <2>1, <2>2, <2>3 DEF ReadAt
  <2> QED BY <2>2, <2>4 DEF n
<1> HIDE DEF M
<1>4. N - j \in M
  <2>1. \A d \in 0..(N - j) : d \in M
    BY <1>1, <1>2, <1>3, Counting
  <2> QED BY <1>1, <2>1
<1>5. j + (N - j) = N
  BY <1>1
<1> QED BY <1>4, <1>5 DEF M, N

LEMMA WordIs ==
    ASSUME NEW t, Len(t) \in Nat, \A i \in 1..Len(t) : t[i].max \in Nat,
           NEW m \in Readings(t), NEW w \in Texts
    PROVE  Onwards(t, m, ReadWord(t, m, w))
<1> DEFINE r == ReadWord(t, m, w)
<1>1. CASE m.wants # 0
  <2> DEFINE k == m.wants
             g == Gives(m, k, w)
  <2>1. k \in Tagged(t)
    BY <1>1, ReadingIs
  <2>2. r = [g EXCEPT !.wants = 0]
    BY <1>1 DEF ReadWord
  <2> HIDE DEF k, r
  <2>3. Onwards(t, m, g)
    BY <2>1, GivesIs, StaysFaulty DEF Onwards
  <2> HIDE DEF g
  <2>4. r \in Readings(t) /\ r.vals = g.vals /\ r.bad = g.bad
    BY <2>2, <2>3 DEF Readings, Onwards
  <2> QED BY <2>3, <2>4 DEF Onwards, Faulty, r
<1>2. CASE m.wants = 0 /\ (m.only \/ ~IsOption(w))
  <2> DEFINE x == Append(m.words, w)
  <2>1. r = [m EXCEPT !.words = x]
    BY <1>2 DEF ReadWord
  <2>2. x \in Seq(Texts)
    BY ReadingIs
  <2> HIDE DEF x, r
  <2>3. r \in Readings(t) /\ r.vals = m.vals /\ r.bad = m.bad
    BY <2>1, <2>2 DEF Readings
  <2> QED BY <2>3 DEF Onwards, Faulty, r
<1>3. CASE m.wants = 0 /\ ~(m.only \/ ~IsOption(w)) /\ w = <<"-", "-">>
  <2>1. r = [m EXCEPT !.only = TRUE]
    BY <1>3 DEF ReadWord
  <2> HIDE DEF r
  <2>2. r \in Readings(t) /\ r.vals = m.vals /\ r.bad = m.bad
    BY <2>1 DEF Readings
  <2> QED BY <2>2 DEF Onwards, Faulty, r
<1>4. CASE m.wants = 0 /\ ~(m.only \/ ~IsOption(w)) /\ w # <<"-", "-">>
  <2> DEFINE n == Len(w)
  <2>1. r = ReadOption(t, m, w, n)
    BY <1>4 DEF ReadWord
  <2>2. n \in Nat /\ n \in 1..Len(w)
    <3>1. Len(w) \in Nat /\ Len(w) > 1
      BY <1>4 DEF IsOption, Texts
    <3> QED BY <3>1
  <2> HIDE DEF n, r
  <2>3. Onwards(t, m, ReadOption(t, m, w, n))
    BY <2>2, OptionIs
  <2> QED BY <2>1, <2>3 DEF r
<1> QED BY <1>1, <1>2, <1>3, <1>4

LEMMA UnreadIs ==
    ASSUME NEW t, Len(t) \in Nat
    PROVE  Unread(t) \in Readings(t)
BY DEF Unread, Readings, Texts

\* The reading of the words, one after the other.
LEMMA ReadIs ==
    ASSUME NEW t, Len(t) \in Nat, \A i \in 1..Len(t) : t[i].max \in Nat,
           NEW ws \in Seq(Texts), NEW n \in Nat, n \in 0..Len(ws)
    PROVE  /\ Read(t, ws, 0) = Unread(t)
           /\ Read(t, ws, n) \in Readings(t)
           /\ n > 0 => Read(t, ws, n) = ReadWord(t, Read(t, ws, n - 1), ws[n])
<1> DEFINE S == Readings(t)
           s == Unread(t)
           N == Len(ws)
           F == [j \in 1..N |-> [x \in S |-> ReadWord(t, x, ws[j])]]
<1>1. s \in S
  BY UnreadIs
<1>2. N \in Nat /\ n \in 0..N
  OBVIOUS
<1>3. F \in [1..N -> [S -> S]]
  <2>1. ASSUME NEW j \in 1..N, NEW x \in S PROVE ReadWord(t, x, ws[j]) \in S
    <3>1. ws[j] \in Texts
      OBVIOUS
    <3> QED BY <3>1, WordIs DEF Onwards
  <2> QED BY <2>1
<1> HIDE DEF S, s, N
<1>4. PICK at \in [0..N -> S] : Steps(F, s, N, at)
  <2> HIDE DEF F
  <2> QED BY <1>1, <1>2, <1>3, StepsExist
<1>5. at[0] = s /\ \A j \in 1..N : at[j - 1] \in S /\ at[j] = ReadWord(t, at[j - 1], ws[j])
  <2>1. ASSUME NEW j \in 1..N PROVE at[j - 1] \in S /\ at[j] = ReadWord(t, at[j - 1], ws[j])
    <3>1. j - 1 \in 0..N
      BY <1>2
    <3>2. at[j - 1] \in S /\ at[j] = F[j][at[j - 1]]
      BY <1>4, <3>1 DEF Steps
    <3> QED BY <3>2
  <2> QED BY <1>4, <2>1 DEF Steps
<1>6. ASSUME NEW k \in 0..N PROVE Read(t, ws, k) = at[k]
  <2> DEFINE Is(f) == f = [i \in 0..k |-> IF i = 0 THEN s ELSE ReadWord(t, f[i - 1], ws[i])]
             h == [i \in 0..k |-> at[i]]
  <2>1. Is(h)
    <3>1. ASSUME NEW i \in 0..k PROVE h[i] = IF i = 0 THEN s ELSE ReadWord(t, h[i - 1], ws[i])
      <4>1. CASE i = 0
        BY <1>5, <4>1
      <4>2. CASE i # 0
        <5>1. i - 1 \in 0..k /\ i \in 1..N
          BY <1>2, <4>2
        <5>2. at[i] = ReadWord(t, at[i - 1], ws[i])
          BY <1>5, <5>1
        <5> QED BY <4>2, <5>1, <5>2
      <4> QED BY <4>1, <4>2
    <3> QED BY <3>1
  <2>2. PICK f : Is(f) /\ Read(t, ws, k) = f[k]
    <3> DEFINE g == CHOOSE f : Is(f)
    <3>1. Is(g)
      BY <2>1
    <3>2. Read(t, ws, k) = g[k]
      BY DEF Read, s
    <3> QED BY <3>1, <3>2
  <2> DEFINE M == {j \in 0..k : f[j] = at[j]}
  <2>3. 0 \in M /\ k \in Nat
    <3>1. f[0] = s
      BY <1>2, <2>2
    <3> QED BY <1>2, <1>5, <3>1
  <2>4. ASSUME NEW j \in 1..k, j - 1 \in M PROVE j \in M
    <3>1. f[j - 1] = at[j - 1] /\ j \in 0..k /\ j \in 1..N /\ j # 0
      BY <1>2, <2>4
    <3>2. f[j] = ReadWord(t, f[j - 1], ws[j])
      BY <2>2, <3>1
    <3>3. at[j] = ReadWord(t, at[j - 1], ws[j])
      BY <1>5, <3>1
    <3> QED BY <3>1, <3>2, <3>3
  <2> HIDE DEF M
  <2>5. k \in M
    <3>1. \A j \in 0..k : j \in M
      BY <2>3, <2>4, Counting
    <3> QED BY <2>3, <3>1
  <2> QED BY <2>2, <2>5 DEF M
<1>7. Read(t, ws, 0) = s
  BY <1>2, <1>5, <1>6
<1>8. Read(t, ws, n) \in Readings(t)
  BY <1>2, <1>4, <1>6 DEF S
<1>9. ASSUME n > 0 PROVE Read(t, ws, n) = ReadWord(t, Read(t, ws, n - 1), ws[n])
  <2>1. n - 1 \in 0..N /\ n \in 1..N
    BY <1>2, <1>9
  <2> QED BY <1>2, <1>5, <1>6, <2>1
<1> QED BY <1>7, <1>8, <1>9 DEF s

LEMMA OneMore ==
    ASSUME NEW X, NEW a \in Seq(X), NEW f \in Nat, NEW e \in Nat, f \in 1..(e + 1), e + 1 \in 1..Len(a)
    PROVE  SubSeq(a, f, e + 1) = Append(SubSeq(a, f, e), a[e + 1])
<1> DEFINE n == e + 1
<1>1. f \in 1..Len(a) /\ n \in f..Len(a) /\ n - 1 = e
  OBVIOUS
<1> HIDE DEF n
<1>2. SubSeq(a, f, n) = SubSeq(a, f, n - 1) \o <<a[n]>>
  BY <1>1, SubSeqRecursiveSecond
<1>3. SubSeq(a, f, e) \in Seq(X) /\ a[n] \in X
  <2>1. \A i \in f..e : a[i] \in X
    BY DEF n
  <2>2. SubSeq(a, f, e) \in Seq(X)
    BY <2>1, SubSeqProperties
  <2>3. n \in 1..Len(a)
    BY <1>1
  <2> QED BY <2>2, <2>3
<1>4. SubSeq(a, f, e) \o <<a[n]>> = Append(SubSeq(a, f, e), a[n])
  BY <1>3, AppendIsConcat
<1> QED BY <1>1, <1>2, <1>4 DEF n

\* What is once wrong stays so.
LEMMA FaultIsLasting ==
    ASSUME NEW t, Len(t) \in Nat, \A i \in 1..Len(t) : t[i].max \in Nat,
           NEW ws \in Seq(Texts), NEW i \in 0..Len(ws), Faulty(t, Read(t, ws, i))
    PROVE  Faulty(t, Meant(t, ws)) /\ ~Acceptable(t, Meant(t, ws))
<1> DEFINE N == Len(ws)
           M == {d \in 0..(N - i) : Faulty(t, Read(t, ws, i + d))}
<1>1. N \in Nat /\ i \in Nat /\ N - i \in Nat
  OBVIOUS
<1> HIDE DEF N
<1>2. 0 \in M
  BY <1>1
<1>3. ASSUME NEW d \in 1..(N - i), d - 1 \in M PROVE d \in M
  <2> DEFINE n == i + d
             x == Read(t, ws, n - 1)
  <2>1. n \in Nat /\ n \in 0..N /\ n > 0 /\ n - 1 \in Nat /\ n - 1 \in 0..N /\ n \in 1..N
        /\ n - 1 = i + (d - 1) /\ d \in 0..(N - i)
    BY <1>1
  <2>2. Faulty(t, x)
    <3>1. Faulty(t, Read(t, ws, i + (d - 1)))
      BY <1>3
    <3> QED BY <2>1, <3>1
  <2> HIDE DEF n
  <2>3. x \in Readings(t) /\ ws[n] \in Texts
    BY <2>1, ReadIs DEF N
  <2>4. Read(t, ws, n) = ReadWord(t, x, ws[n])
    BY <2>1, ReadIs DEF N
  <2> HIDE DEF x
  <2>5. Faulty(t, Read(t, ws, n))
    BY <2>2, <2>3, <2>4, WordIs DEF Onwards
  <2> QED BY <2>1, <2>5 DEF n
<1> HIDE DEF M
<1>4. N - i \in M
  <2>1. \A d \in 0..(N - i) : d \in M
    BY <1>1, <1>2, <1>3, Counting
  <2> QED BY <1>1, <2>1
<1>5. i + (N - i) = N
  BY <1>1
<1>6. Faulty(t, Meant(t, ws))
  BY <1>4, <1>5 DEF M, Meant, N
<1> DEFINE m == Meant(t, ws)
<1>7. m \in Readings(t)
  <2>1. N \in 0..Len(ws)
    BY <1>1 DEF N
  <2> QED BY <1>1, <2>1, ReadIs DEF Meant, N
<1> HIDE DEF m
<1>8. ~Acceptable(t, m)
  <2>1. CASE m.bad
    BY <2>1 DEF Acceptable
  <2>2. CASE ~m.bad
    <3>1. PICK k \in Tagged(t) : ~FitsSoFar(t[k], m.vals[k])
      BY <1>6, <2>2 DEF Faulty, m
    <3>2. k \in 1..Len(t) /\ Values(t, m, k) = m.vals[k] /\ m.vals[k] \in Seq(Texts)
      BY <1>7, <3>1, ReadingIs DEF Tagged, Values
    <3>3. ~Fits(t[k], m.vals[k])
      BY <3>1, <3>2 DEF Fits, FitsSoFar
    <3> QED BY <3>2, <3>3 DEF Acceptable
  <2> QED BY <2>1, <2>2
<1> QED BY <1>6, <1>8 DEF m

\* After "--" the words are operands, whatever they look like.
ThenOperands(t, ws, i, r, a, f) ==
  /\ Len(t) \in Nat /\ \A k \in 1..Len(t) : t[k].max \in Nat
  /\ ws \in Seq(Texts) /\ i \in 0..Len(ws) /\ r = Read(t, ws, i) /\ r.only /\ r.wants = 0
  /\ a \in Seq(Texts) /\ Len(a) = Len(ws) /\ \A q \in (i + 1)..Len(ws) : a[q] = ws[q]
  /\ f \in 1..(i + 1) /\ r.words = SubSeq(a, f, i)

LEMMA OperandsFollow ==
    ASSUME NEW t, NEW ws, NEW i, NEW r, NEW a, NEW f, ThenOperands(t, ws, i, r, a, f)
    PROVE  /\ Meant(t, ws).words = SubSeq(a, f, Len(a)) /\ Meant(t, ws).vals = r.vals
           /\ Meant(t, ws).wants = 0 /\ Meant(t, ws).bad = r.bad
<1> SUFFICES
      ASSUME Len(t) \in Nat, \A k \in 1..Len(t) : t[k].max \in Nat,
             ws \in Seq(Texts), i \in 0..Len(ws), r = Read(t, ws, i), r.only, r.wants = 0,
             a \in Seq(Texts), Len(a) = Len(ws), \A q \in (i + 1)..Len(ws) : a[q] = ws[q],
             f \in 1..(i + 1), r.words = SubSeq(a, f, i)
      PROVE  /\ Meant(t, ws).words = SubSeq(a, f, Len(a)) /\ Meant(t, ws).vals = r.vals
             /\ Meant(t, ws).wants = 0 /\ Meant(t, ws).bad = r.bad
  BY DEF ThenOperands
<1> DEFINE N == Len(ws)
           Same(n) == LET x == Read(t, ws, n) IN
                      /\ x.words = SubSeq(a, f, n) /\ x.vals = r.vals
                      /\ x.wants = 0 /\ x.bad = r.bad /\ x.only
           M == {d \in 0..(N - i) : Same(i + d)}
<1>1. N \in Nat /\ i \in Nat /\ N - i \in Nat /\ f \in Nat
  OBVIOUS
<1>2. \A q \in (i + 1)..N : a[q] = ws[q]
  OBVIOUS
<1>3. Len(a) = N
  OBVIOUS
<1> HIDE DEF N
<1>4. 0 \in M
  BY <1>1
<1>5. ASSUME NEW d \in 1..(N - i), d - 1 \in M PROVE d \in M
  <2> DEFINE e == i + (d - 1)
             x == Read(t, ws, e)
             w == ws[e + 1]
             y == Read(t, ws, e + 1)
  <2>1. e \in Nat /\ e \in 0..N /\ e + 1 \in 1..N /\ e + 1 \in (i + 1)..N /\ f \in 1..(e + 1)
        /\ e + 1 = i + d /\ d \in 0..(N - i) /\ e + 1 \in Nat /\ e + 1 \in 0..N /\ e + 1 > 0 /\ (e + 1) - 1 = e
    BY <1>1
  <2>2. Same(e)
    BY <1>5
  <2>3. e + 1 = i + d
    BY <2>1
  <2> HIDE DEF e
  <2>4. x \in Readings(t)
    BY <2>1, ReadIs DEF N
  <2>5. y = ReadWord(t, x, w)
    <3> DEFINE n == e + 1
    <3>1. n \in Nat /\ n \in 0..N /\ n > 0 /\ n - 1 = e
      BY <2>1
    <3> HIDE DEF n
    <3>2. Read(t, ws, n) = ReadWord(t, Read(t, ws, n - 1), ws[n])
      BY <3>1, ReadIs DEF N
    <3> QED BY <3>1, <3>2 DEF n
  <2>6. /\ x.words = SubSeq(a, f, e) /\ x.vals = r.vals
        /\ x.wants = 0 /\ x.bad = r.bad /\ x.only
    BY <2>2
  <2>7. SubSeq(a, f, e + 1) = Append(SubSeq(a, f, e), w)
    <3>1. a[e + 1] = w
      BY <1>2, <2>1
    <3>2. SubSeq(a, f, e + 1) = Append(SubSeq(a, f, e), a[e + 1])
      BY <1>1, <1>3, <2>1, OneMore
    <3> QED BY <3>1, <3>2
  <2> HIDE DEF x, y, w
  <2> DEFINE v == Append(x.words, w)
  <2>8. y = [x EXCEPT !.words = v]
    BY <2>5, <2>6 DEF ReadWord
  <2>9. v = SubSeq(a, f, e + 1)
    BY <2>6, <2>7
  <2> HIDE DEF v
  <2>10. y.words = v /\ y.vals = x.vals /\ y.wants = x.wants /\ y.bad = x.bad /\ y.only = x.only
    BY <2>4, <2>8 DEF Readings
  <2>11. Same(e + 1)
    BY <2>6, <2>9, <2>10 DEF y
  <2> QED BY <2>1, <2>3, <2>11
<1> HIDE DEF M, Same
<1>6. N - i \in M
  <2>1. \A d \in 0..(N - i) : d \in M
    BY <1>1, <1>4, <1>5, Counting
  <2> QED BY <1>1, <2>1
<1>7. i + (N - i) = N
  BY <1>1
<1>8. Same(N)
  BY <1>6, <1>7 DEF M
<1> QED BY <1>3, <1>8 DEF Same, Meant, N

-----------------------------------------------------------------------------
(* The tables: an option need not be there, and at most one entry takes the *)
(* operands.                                                               *)

Option(e) == e.l # "" /\ e.min = 0 /\ e.max \in Nat
Untagged(e) == e.l = "" /\ e.min \in Nat /\ e.max \in Nat
OnlyOptions(t) == (\E E : t \in Seq(E)) /\ \A k \in 1..Len(t) : Option(t[k])
IsTable(t) ==
  /\ \E E : t \in Seq(E)
  /\ \A k \in 1..Len(t) : Option(t[k]) \/ Untagged(t[k])
  /\ \A j, k \in 1..Len(t) : t[j].l = "" /\ t[k].l = "" => j = k

LEMMA Joins ==
    ASSUME NEW t, NEW u,
           (OnlyOptions(t) /\ IsTable(u)) \/ (IsTable(t) /\ OnlyOptions(u))
    PROVE  IsTable(t \o u)
<1> DEFINE m == Len(t)
           n == Len(u)
           v == t \o u
<1>1. PICK E, F : t \in Seq(E) /\ u \in Seq(F)
  BY DEF OnlyOptions, IsTable
<1> DEFINE G == E \cup F
<1>2. t \in Seq(G) /\ u \in Seq(G)
  BY <1>1
<1>3. /\ v \in Seq(G) /\ Len(v) = m + n /\ m \in Nat /\ n \in Nat
      /\ \A k \in 1..m : v[k] = t[k]
      /\ \A k \in (m + 1)..(m + n) : v[k] = u[k - m]
  <2> HIDE DEF G
  <2>1. \A k \in 1..(m + n) : v[k] = IF k <= m THEN t[k] ELSE u[k - m]
    BY <1>2, ConcatProperties
  <2>2. v \in Seq(G) /\ Len(v) = m + n /\ m \in Nat /\ n \in Nat
    BY <1>2, ConcatProperties
  <2> HIDE DEF m, n, v
  <2> QED BY <2>1, <2>2
<1> HIDE DEF m, n, v, G
<1>4. ASSUME NEW k \in 1..Len(v)
      PROVE  \/ k \in 1..m /\ v[k] = t[k]
             \/ k \notin 1..m /\ k - m \in 1..n /\ v[k] = u[k - m]
  <2>1. k \in 1..m \/ (k \notin 1..m /\ k \in (m + 1)..(m + n) /\ k - m \in 1..n)
    BY <1>3
  <2> QED BY <1>3, <2>1
<1>5. /\ \A k \in 1..m : Option(t[k]) \/ Untagged(t[k])
      /\ \A k \in 1..n : Option(u[k]) \/ Untagged(u[k])
  BY DEF OnlyOptions, IsTable, m, n
<1>6. ASSUME NEW k \in 1..Len(v) PROVE Option(v[k]) \/ Untagged(v[k])
  BY <1>4, <1>5
<1>7. ASSUME NEW j \in 1..Len(v), NEW k \in 1..Len(v), v[j].l = "", v[k].l = "" PROVE j = k
  <2>1. j \in Int /\ k \in Int
    BY <1>3
  <2>2. CASE OnlyOptions(t) /\ IsTable(u)
    <3>1. /\ \A i \in 1..m : t[i].l # ""
          /\ \A i, l \in 1..n : u[i].l = "" /\ u[l].l = "" => i = l
      BY <2>2 DEF OnlyOptions, IsTable, m, n, Option
    <3>2. j - m = k - m
      BY <1>4, <1>7, <3>1
    <3> QED BY <1>3, <2>1, <3>2
  <2>3. CASE IsTable(t) /\ OnlyOptions(u)
    <3>1. /\ \A i \in 1..n : u[i].l # ""
          /\ \A i, l \in 1..m : t[i].l = "" /\ t[l].l = "" => i = l
      BY <2>3 DEF OnlyOptions, IsTable, m, n, Option
    <3> QED BY <1>4, <1>7, <3>1
  <2> QED BY <2>2, <2>3
<1> QED BY <1>3, <1>6, <1>7 DEF IsTable, v

LEMMA OptionsFirst ==
    ASSUME NEW t, OnlyOptions(t), NEW u, IsTable(u)
    PROVE  IsTable(t \o u)
BY Joins

LEMMA OptionsLast ==
    ASSUME NEW t, IsTable(t), NEW u, OnlyOptions(u)
    PROVE  IsTable(t \o u)
BY Joins

LEMMA OneOption ==
    ASSUME NEW a, Option(a)
    PROVE  OnlyOptions(<<a>>)
<1>1. <<a>> \in Seq({a})
  OBVIOUS
<1>2. \A k \in 1..Len(<<a>>) : Option(<<a>>[k])
  OBVIOUS
<1> QED BY <1>1, <1>2, Zenon DEF OnlyOptions

LEMMA OneMoreOption ==
    ASSUME NEW t, OnlyOptions(t), NEW a, Option(a)
    PROVE  OnlyOptions(Append(t, a))
<1>1. PICK E : t \in Seq(E)
  BY DEF OnlyOptions
<1>2. t \in Seq(E \cup {a})
  BY <1>1
<1> DEFINE G == E \cup {a}
           v == Append(t, a)
           m == Len(t)
<1>3. v \in Seq(G) /\ Len(v) = m + 1 /\ m \in Nat /\ v[m + 1] = a /\ \A k \in 1..m : v[k] = t[k]
  BY <1>2
<1>4. \A k \in 1..m : Option(t[k])
  BY DEF OnlyOptions
<1> HIDE DEF v, m, G
<1>5. ASSUME NEW k \in 1..Len(v) PROVE Option(v[k])
  <2>1. k \in 1..m \/ k = m + 1
    BY <1>3
  <2> QED BY <1>3, <1>4, <2>1
<1> QED BY <1>3, <1>5 DEF OnlyOptions, v

LEMMA LastEntry ==
    ASSUME NEW t, OnlyOptions(t), NEW e, Option(e) \/ Untagged(e)
    PROVE  IsTable(Append(t, e))
<1>1. PICK E : t \in Seq(E)
  BY DEF OnlyOptions
<1>2. t \in Seq(E \cup {e})
  BY <1>1
<1> DEFINE G == E \cup {e}
           v == Append(t, e)
           m == Len(t)
<1>3. v \in Seq(G) /\ Len(v) = m + 1 /\ m \in Nat /\ v[m + 1] = e /\ \A k \in 1..m : v[k] = t[k]
  BY <1>2
<1>4. \A k \in 1..m : Option(t[k])
  BY DEF OnlyOptions
<1> HIDE DEF v, m, G
<1>5. \A k \in 1..Len(v) : k \in 1..m \/ k = m + 1
  BY <1>3
<1>6. \A k \in 1..Len(v) : Option(v[k]) \/ Untagged(v[k])
  BY <1>3, <1>4, <1>5
<1>7. \A k \in 1..Len(v) : v[k].l = "" => k = m + 1
  BY <1>3, <1>4, <1>5 DEF Option
<1> QED BY <1>3, <1>6, <1>7 DEF IsTable, v

LEMMA OptionsJoin ==
    ASSUME NEW t, OnlyOptions(t), NEW u, OnlyOptions(u)
    PROVE  OnlyOptions(t \o u)
<1>1. IsTable(t) /\ \A k \in 1..Len(t) : t[k].l # ""
  BY DEF OnlyOptions, IsTable, Option
<1> DEFINE m == Len(t)
           n == Len(u)
           v == t \o u
<1>2. PICK E, F : t \in Seq(E) /\ u \in Seq(F)
  BY DEF OnlyOptions
<1> DEFINE G == E \cup F
<1>3. t \in Seq(G) /\ u \in Seq(G)
  BY <1>2
<1>4. \A k \in 1..m : Option(t[k])
  BY DEF OnlyOptions
<1>5. \A k \in 1..n : Option(u[k])
  BY DEF OnlyOptions
<1>6. /\ v \in Seq(G) /\ Len(v) = m + n /\ m \in Nat /\ n \in Nat
      /\ \A k \in 1..(m + n) : v[k] = IF k <= m THEN t[k] ELSE u[k - m]
  <2> HIDE DEF G
  <2> QED BY <1>3, ConcatProperties
<1> HIDE DEF m, n, v, G
<1>7. ASSUME NEW k \in 1..Len(v) PROVE Option(v[k])
  <2>1. k \in 1..(m + n) /\ (k \in 1..m \/ (~(k <= m) /\ k - m \in 1..n))
    BY <1>6
  <2>2. CASE k \in 1..m
    <3>1. k <= m
      BY <1>6, <2>2
    <3> QED BY <1>4, <1>6, <2>1, <2>2, <3>1
  <2>3. CASE ~(k <= m) /\ k - m \in 1..n
    BY <1>5, <1>6, <2>1, <2>3
  <2> QED BY <2>1, <2>2, <2>3
<1> QED BY <1>6, <1>7 DEF OnlyOptions, v

LEMMA HelpJsonIs == OnlyOptions(Help) /\ OnlyOptions(HelpJson)
<1> DEFINE a == Lit("h", "help")
           b == Lit("", "help-json")
           c == Lit("", "json")
<1>1. Option(a) /\ Option(b) /\ Option(c)
  BY DEF Option, Lit, Entry
<1>2. Help = <<a, b>> /\ HelpJson = Help \o <<c>>
  BY DEF Help, HelpJson
<1> HIDE DEF a, b, c
<1>3. OnlyOptions(<<a>>) /\ OnlyOptions(<<c>>)
  BY <1>1, OneOption
<1>4. OnlyOptions(<<a, b>>)
  <2>1. <<a, b>> = Append(<<a>>, b)
    OBVIOUS
  <2> QED BY <1>1, <1>3, <2>1, OneMoreOption
<1> QED BY <1>2, <1>3, <1>4, OptionsJoin

LEMMA OneEntry ==
    ASSUME NEW e, Option(e) \/ Untagged(e)
    PROVE  IsTable(<<e>>)
<1> DEFINE v == <<e>>
<1>1. v \in Seq({e}) /\ Len(v) = 1 /\ v[1] = e
  OBVIOUS
<1>2. \A k \in 1..1 : k = 1
  OBVIOUS
<1> HIDE DEF v
<1>3. /\ \A k \in 1..Len(v) : Option(v[k]) \/ Untagged(v[k])
      /\ \A j, k \in 1..Len(v) : v[j].l = "" /\ v[k].l = "" => j = k
  BY <1>1, <1>2
<1> QED BY <1>1, <1>3 DEF IsTable, v

\* Lists of up to five entries, and what is put before them.
LEMMA ListIs ==
    ASSUME NEW a, Option(a), NEW b, Option(b), NEW c, Option(c), NEW d, Option(d),
           NEW e, Option(e) \/ Untagged(e)
    PROVE  /\ IsTable(<<e>>) /\ IsTable(<<a, e>>) /\ IsTable(<<a, b, e>>) /\ IsTable(<<a, b, c, e>>)
           /\ IsTable(<<a, b, c, d, e>>)
<1>1. OnlyOptions(<<a>>)
  BY OneOption
<1>2. <<a, b>> = Append(<<a>>, b) /\ OnlyOptions(<<a, b>>)
  <2>1. <<a, b>> = Append(<<a>>, b)
    OBVIOUS
  <2> QED BY <1>1, <2>1, OneMoreOption
<1>3. OnlyOptions(<<a, b, c>>)
  <2>1. <<a, b, c>> = Append(<<a, b>>, c)
    OBVIOUS
  <2> QED BY <1>2, <2>1, OneMoreOption
<1>4. OnlyOptions(<<a, b, c, d>>)
  <2>1. <<a, b, c, d>> = Append(<<a, b, c>>, d)
    OBVIOUS
  <2> QED BY <1>3, <2>1, OneMoreOption
<1>5. IsTable(<<a, e>>)
  <2>1. <<a, e>> = Append(<<a>>, e)
    OBVIOUS
  <2> QED BY <1>1, <2>1, LastEntry
<1>6. IsTable(<<a, b, e>>)
  <2>1. <<a, b, e>> = Append(<<a, b>>, e)
    OBVIOUS
  <2> QED BY <1>2, <2>1, LastEntry
<1>7. IsTable(<<a, b, c, e>>)
  <2>1. <<a, b, c, e>> = Append(<<a, b, c>>, e)
    OBVIOUS
  <2> QED BY <1>3, <2>1, LastEntry
<1>8. IsTable(<<a, b, c, d, e>>)
  <2>1. <<a, b, c, d, e>> = Append(<<a, b, c, d>>, e)
    OBVIOUS
  <2> QED BY <1>4, <2>1, LastEntry
<1>9. IsTable(<<e>>)
  BY OneEntry
<1> QED BY <1>5, <1>6, <1>7, <1>8, <1>9

\* Every command's table is one.
LEMMA TableIsTable ==
    ASSUME NEW c \in Commands
    PROVE  IsTable(Table(c))
<1>1. Many \in Nat /\ 0 \in Nat /\ 1 \in Nat /\ 2 \in Nat
  BY ArgumentsAssumption
<1>2. OnlyOptions(Help) /\ OnlyOptions(HelpJson)
  BY HelpJsonIs
<1>3. IsTable(Help) /\ IsTable(HelpJson)
  BY <1>2 DEF OnlyOptions, IsTable, Option
<1>4. IsTable(CatTable)
  <2> DEFINE y == Lit("n", "number")
             z == Words("file", 0, Many)
  <2>1. Option(y) /\ Untagged(z)
    BY <1>1 DEF Option, Untagged, Lit, Num, Txt, Words, Entry
  <2>2. CatTable = HelpJson \o <<y, z>>
    BY DEF CatTable
  <2> HIDE DEF y, z
  <2>3. IsTable(<<y, z>>)
    BY <2>1, ListIs
  <2> QED BY <1>2, <2>2, <2>3, OptionsFirst
<1>5. IsTable(CdTable)
  <2> DEFINE z == Words("file", 0, 1)
  <2>1. Untagged(z)
    BY <1>1 DEF Option, Untagged, Lit, Num, Txt, Words, Entry
  <2>2. CdTable = HelpJson \o <<z>>
    BY DEF CdTable
  <2> HIDE DEF z
  <2>3. IsTable(<<z>>)
    BY <2>1, OneEntry
  <2> QED BY <1>2, <2>2, <2>3, OptionsFirst
<1>6. IsTable(CpTable)
  <2> DEFINE x == Lit("r", "recursive")
             y == Lit("v", "verbose")
             z == Words("file", 2, 2)
  <2>1. Option(x) /\ Option(y) /\ Untagged(z)
    BY <1>1 DEF Option, Untagged, Lit, Num, Txt, Words, Entry
  <2>2. CpTable = HelpJson \o <<x, y, z>>
    BY DEF CpTable
  <2> HIDE DEF x, y, z
  <2>3. IsTable(<<x, y, z>>)
    BY <2>1, ListIs
  <2> QED BY <1>2, <2>2, <2>3, OptionsFirst
<1>7. IsTable(EchoTable)
  <2> DEFINE x == Lit("n", "no-newline")
             y == Lit("e", "escape")
             z == Words("str", 0, Many)
  <2>1. Option(x) /\ Option(y) /\ Untagged(z)
    BY <1>1 DEF Option, Untagged, Lit, Num, Txt, Words, Entry
  <2>2. EchoTable = HelpJson \o <<x, y, z>>
    BY DEF EchoTable
  <2> HIDE DEF x, y, z
  <2>3. IsTable(<<x, y, z>>)
    BY <2>1, ListIs
  <2> QED BY <1>2, <2>2, <2>3, OptionsFirst
<1>8. IsTable(HeadTable)
  <2> DEFINE y == Num("n", "lines")
             z == Words("file", 1, 1)
  <2>1. Option(y) /\ Untagged(z)
    BY <1>1 DEF Option, Untagged, Lit, Num, Txt, Words, Entry
  <2>2. HeadTable = HelpJson \o <<y, z>>
    BY DEF HeadTable
  <2> HIDE DEF y, z
  <2>3. IsTable(<<y, z>>)
    BY <2>1, ListIs
  <2> QED BY <1>2, <2>2, <2>3, OptionsFirst
<1>9. IsTable(KillTable)
  <2> DEFINE y == Txt("s", "signal")
             z == Words("rex", 1, Many)
  <2>1. Option(y) /\ Untagged(z)
    BY <1>1 DEF Option, Untagged, Lit, Num, Txt, Words, Entry
  <2>2. KillTable = Help \o <<y, z>>
    BY DEF KillTable
  <2> HIDE DEF y, z
  <2>3. IsTable(<<y, z>>)
    BY <2>1, ListIs
  <2> QED BY <1>2, <2>2, <2>3, OptionsFirst
<1>10. IsTable(LsTable)
  <2> DEFINE x == Lit("a", "all")
             y == Lit("l", "long")
             z == Words("file", 0, 1)
  <2>1. Option(x) /\ Option(y) /\ Untagged(z)
    BY <1>1 DEF Option, Untagged, Lit, Num, Txt, Words, Entry
  <2>2. LsTable = HelpJson \o <<x, y, z>>
    BY DEF LsTable
  <2> HIDE DEF x, y, z
  <2>3. IsTable(<<x, y, z>>)
    BY <2>1, ListIs
  <2> QED BY <1>2, <2>2, <2>3, OptionsFirst
<1>11. IsTable(MkDirTable)
  <2> DEFINE x == Lit("p", "parents")
             y == Lit("v", "verbose")
             z == Words("file", 1, Many)
  <2>1. Option(x) /\ Option(y) /\ Untagged(z)
    BY <1>1 DEF Option, Untagged, Lit, Num, Txt, Words, Entry
  <2>2. MkDirTable = HelpJson \o <<x, y, z>>
    BY DEF MkDirTable
  <2> HIDE DEF x, y, z
  <2>3. IsTable(<<x, y, z>>)
    BY <2>1, ListIs
  <2> QED BY <1>2, <2>2, <2>3, OptionsFirst
<1>12. IsTable(MvTable)
  <2> DEFINE y == Lit("v", "verbose")
             z == Words("file", 2, 2)
  <2>1. Option(y) /\ Untagged(z)
    BY <1>1 DEF Option, Untagged, Lit, Num, Txt, Words, Entry
  <2>2. MvTable = HelpJson \o <<y, z>>
    BY DEF MvTable
  <2> HIDE DEF y, z
  <2>3. IsTable(<<y, z>>)
    BY <2>1, ListIs
  <2> QED BY <1>2, <2>2, <2>3, OptionsFirst
<1>13. IsTable(PwdTable)
  <2> DEFINE y == Lit("L", "logical")
             z == Lit("P", "physical")
  <2>1. Option(y) /\ Option(z)
    BY <1>1 DEF Option, Untagged, Lit, Num, Txt, Words, Entry
  <2>2. PwdTable = HelpJson \o <<y, z>>
    BY DEF PwdTable
  <2> HIDE DEF y, z
  <2>3. IsTable(<<y, z>>)
    BY <2>1, ListIs
  <2> QED BY <1>2, <2>2, <2>3, OptionsFirst
<1>14. IsTable(RmTable)
  <2> DEFINE w == Lit("r", "recursive")
             x == Lit("f", "force")
             y == Lit("v", "verbose")
             z == Words("file", 1, Many)
  <2>1. Option(w) /\ Option(x) /\ Option(y) /\ Untagged(z)
    BY <1>1 DEF Option, Untagged, Lit, Num, Txt, Words, Entry
  <2>2. RmTable = HelpJson \o <<w, x, y, z>>
    BY DEF RmTable
  <2> HIDE DEF w, x, y, z
  <2>3. IsTable(<<w, x, y, z>>)
    BY <2>1, ListIs
  <2> QED BY <1>2, <2>2, <2>3, OptionsFirst
<1>15. IsTable(RmDirTable)
  <2> DEFINE y == Lit("p", "parents")
             z == Words("file", 1, Many)
  <2>1. Option(y) /\ Untagged(z)
    BY <1>1 DEF Option, Untagged, Lit, Num, Txt, Words, Entry
  <2>2. RmDirTable = HelpJson \o <<y, z>>
    BY DEF RmDirTable
  <2> HIDE DEF y, z
  <2>3. IsTable(<<y, z>>)
    BY <2>1, ListIs
  <2> QED BY <1>2, <2>2, <2>3, OptionsFirst
<1>16. IsTable(RpcTable)
  <2> DEFINE v == Txt("H", "host")
             w == Num("p", "port")
             x == Num("t", "timeout")
             y == Num("r", "retries")
             z == Words("str", 1, 1)
  <2>1. Option(v) /\ Option(w) /\ Option(x) /\ Option(y) /\ Untagged(z)
    BY <1>1 DEF Option, Untagged, Lit, Num, Txt, Words, Entry
  <2>2. RpcTable = HelpJson \o <<v, w, x, y, z>>
    BY DEF RpcTable
  <2> HIDE DEF v, w, x, y, z
  <2>3. IsTable(<<v, w, x, y, z>>)
    BY <2>1, ListIs
  <2> QED BY <1>2, <2>2, <2>3, OptionsFirst
<1>17. IsTable(StatTable)
  <2> DEFINE z == Words("file", 1, Many)
  <2>1. Untagged(z)
    BY <1>1 DEF Option, Untagged, Lit, Num, Txt, Words, Entry
  <2>2. StatTable = HelpJson \o <<z>>
    BY DEF StatTable
  <2> HIDE DEF z
  <2>3. IsTable(<<z>>)
    BY <2>1, OneEntry
  <2> QED BY <1>2, <2>2, <2>3, OptionsFirst
<1>18. IsTable(TailTable)
  <2> DEFINE y == Num("n", "lines")
             z == Words("file", 1, 1)
  <2>1. Option(y) /\ Untagged(z)
    BY <1>1 DEF Option, Untagged, Lit, Num, Txt, Words, Entry
  <2>2. TailTable = HelpJson \o <<y, z>>
    BY DEF TailTable
  <2> HIDE DEF y, z
  <2>3. IsTable(<<y, z>>)
    BY <2>1, ListIs
  <2> QED BY <1>2, <2>2, <2>3, OptionsFirst
<1>19. IsTable(TouchTable)
  <2> DEFINE y == Lit("c", "no-create")
             z == Words("file", 1, Many)
  <2>1. Option(y) /\ Untagged(z)
    BY <1>1 DEF Option, Untagged, Lit, Num, Txt, Words, Entry
  <2>2. TouchTable = HelpJson \o <<y, z>>
    BY DEF TouchTable
  <2> HIDE DEF y, z
  <2>3. IsTable(<<y, z>>)
    BY <2>1, ListIs
  <2> QED BY <1>2, <2>2, <2>3, OptionsFirst
<1>20. IsTable(HelpTable)
  <2> DEFINE z == Words("str", 0, 1)
  <2>1. Untagged(z)
    BY <1>1 DEF Option, Untagged, Lit, Num, Txt, Words, Entry
  <2>2. HelpTable = <<z>> \o HelpJson
    BY DEF HelpTable
  <2> HIDE DEF z
  <2>3. IsTable(<<z>>)
    BY <2>1, OneEntry
  <2> QED BY <1>2, <2>2, <2>3, OptionsLast
<1>21. IsTable(ExitTable) /\ IsTable(JobsTable)
  BY <1>3 DEF ExitTable, JobsTable
<1> QED BY <1>4, <1>5, <1>6, <1>7, <1>8, <1>9, <1>10, <1>11, <1>12, <1>13, <1>14, <1>15, <1>16, <1>17, <1>18, <1>19, <1>20, <1>21 DEF Table, Commands

-----------------------------------------------------------------------------
(* What arg_parse keeps to.                                                *)

Errs == {"EMAXCOUNT", "EBADINT", "EREGNOMATCH", "EUNKNOWN", "EMISSARG", "ELONGOPT", "ENOMATCH",
         "EMINCOUNT", "ELIMIT"}

AtOption == optind <= Len(argv) /\ IsOption(argv[optind]) /\ argv[optind] # <<"-", "-">>

Scanned ==
  /\ nonoptStart \in 0..(optind - 1) /\ nonoptEnd \in 0..optind
  /\ nonoptEnd # 0 => nonoptStart \in 1..(nonoptEnd - 1)
  /\ place # <<>> /\ nonoptEnd = 0 => nonoptStart = 0
  /\ place # <<>> \/ nonoptEnd = optind => AtOption
  /\ \A i \in optind..Len(argv) : argv[i] = input.argv[i]
  /\ \A k \in (1..Len(T)) \ Tagged(T) : vals[k] = <<>>

Stored == vals \in [1..Len(T) -> Seq(Texts)] /\ \A k \in 1..Len(T) : FitsSoFar(T[k], vals[k])
Remembered == errors \in Seq(Errs) /\ Len(errors) <= ArgEnd

Shapes ==
  /\ input \in Inputs
  /\ pc \in {"tagged", "untagged", "check", "done"}
  /\ argv \in Seq(Texts) /\ Len(argv) = Len(input.argv)
  /\ optind \in 1..(Len(argv) + 1)
  /\ place \in Texts
  /\ tab \in 1..(Len(T) + 1)
  /\ Stored /\ Remembered
  /\ pc = "tagged" => Scanned
  /\ pc # "tagged" => nonoptStart = 0 /\ nonoptEnd = 0 /\ place = <<>>

Operands == IF nonoptStart = 0 THEN <<>>
            ELSE SubSeq(argv, nonoptStart, (IF nonoptEnd = 0 THEN optind ELSE nonoptEnd) - 1)

Word == argv[optind]
AsRead(m) ==
  /\ \A k \in Tagged(T) : vals[k] = m.vals[k]
  /\ m.words = Operands /\ ~m.bad /\ ~m.only /\ m.wants = 0
Before == Read(T, input.argv, optind - 1)
Place == Len(Word) - Len(place)
Agrees ==
  IF place = <<>> THEN AsRead(Before)
  ELSE /\ ~Before.only /\ Before.wants = 0
       /\ Place \in 1..(Len(Word) - 1)
       /\ AsRead(ReadOption(T, Before, Word, Place))
       /\ ReadOption(T, Before, Word, Place).inside
       /\ place = SubSeq(Word, Place + 1, Len(Word))

Whole == Meant(T, input.argv)
First == (Len(argv) + 1) - Len(Whole.words)
Matched ==
  /\ ~Whole.bad /\ Whole.wants = 0
  /\ First \in 1..optind /\ Whole.words = SubSeq(argv, First, Len(argv))
  /\ \A k \in Tagged(T) : vals[k] = Whole.vals[k]
  /\ \A k \in (1..Len(T)) \ Tagged(T) : vals[k] = SubSeq(argv, First, optind - 1) /\ tab <= k
  /\ 1..Len(T) \subseteq Tagged(T) => optind = First

Inv ==
  /\ Shapes
  /\ errors # <<>> => ~Acceptable(T, Whole)
  /\ errors = <<>> /\ pc = "tagged" => Agrees
  /\ errors = <<>> /\ pc # "tagged" => Matched
  /\ errors = <<>> /\ pc \in {"check", "done"} => optind = Len(argv) + 1
  /\ errors = <<>> /\ pc = "done" => TooFew = {}

-----------------------------------------------------------------------------
(* What the lemmas about the actions share                                 *)
\* The table of the command at hand, and its argv.
LEMMA TheTable ==
    ASSUME input \in Inputs
    PROVE  /\ Len(T) \in Nat
           /\ \A k \in 1..Len(T) : T[k].max \in Nat /\ T[k].min \in Nat
           /\ \A k \in Tagged(T) : k \in 1..Len(T) /\ T[k].min = 0
           /\ \A j, k \in (1..Len(T)) \ Tagged(T) : j = k
           /\ input.argv \in Seq(Texts)
<1>1. input.cmd \in Commands /\ input.argv \in Seq(Texts)
  BY InputsAreArgvs DEF Texts
<1>2. IsTable(T)
  BY <1>1, TableIsTable DEF T
<1> DEFINE t == T
<1>3. IsTable(t)
  BY <1>2
<1> HIDE DEF t
<1>4. PICK E : t \in Seq(E)
  BY <1>3 DEF IsTable
<1>5. Len(t) \in Nat
  BY <1>4
<1>6. \A k \in 1..Len(t) : t[k].max \in Nat /\ t[k].min \in Nat /\ (t[k].l # "" => t[k].min = 0)
  <2>1. \A k \in 1..Len(t) : Option(t[k]) \/ Untagged(t[k])
    BY <1>3 DEF IsTable
  <2>2. ASSUME NEW e, Option(e) \/ Untagged(e)
        PROVE  e.max \in Nat /\ e.min \in Nat /\ (e.l # "" => e.min = 0)
    <3>1. ASSUME Option(e) PROVE e.max \in Nat /\ e.min = 0
      BY <3>1 DEF Option
    <3>2. ASSUME Untagged(e) PROVE e.max \in Nat /\ e.min \in Nat /\ e.l = ""
      BY <3>2 DEF Untagged
    <3>3. \A n : n = 0 => n \in Nat
      OBVIOUS
    <3>4. CASE Option(e)
      BY <3>1, <3>3, <3>4
    <3>5. CASE Untagged(e)
      BY <3>2, <3>5
    <3> QED BY <2>2, <3>4, <3>5
  <2> HIDE DEF IsTable
  <2> QED BY <2>1, <2>2
<1>7. \A k \in Tagged(t) : k \in 1..Len(t) /\ t[k].l # ""
  BY DEF Tagged
<1>8. \A j, k \in (1..Len(t)) \ Tagged(t) : j = k
  BY <1>3 DEF IsTable, Tagged
<1>9. \A k \in Tagged(t) : k \in 1..Len(t) /\ t[k].min = 0
  BY <1>6, <1>7
<1>10. \A k \in 1..Len(t) : t[k].max \in Nat /\ t[k].min \in Nat
  BY <1>6
<1> QED BY <1>1, <1>5, <1>8, <1>9, <1>10, Zenon DEF t

LEMMA RegisterIs ==
    ASSUME NEW errs \in Seq(Errs), Len(errs) <= ArgEnd, NEW e \in Errs
    PROVE  Register(errs, e) \in Seq(Errs) /\ Len(Register(errs, e)) <= ArgEnd /\ Register(errs, e) # <<>>
<1>1. ArgEnd \in Nat /\ ArgEnd > 0 /\ Len(errs) \in Nat /\ "ELIMIT" \in Errs
  BY ArgumentsAssumption DEF Errs
<1>2. CASE Len(errs) < ArgEnd
  <2>1. Append(errs, e) \in Seq(Errs) /\ Len(Append(errs, e)) = Len(errs) + 1 /\ Append(errs, e) # <<>>
    OBVIOUS
  <2> QED BY <1>1, <1>2, <2>1 DEF Register
<1>3. CASE ~(Len(errs) < ArgEnd)
  <2> DEFINE x == [errs EXCEPT ![ArgEnd] = "ELIMIT"]
  <2>1. Len(errs) = ArgEnd /\ ArgEnd \in 1..Len(errs)
    BY <1>1, <1>3
  <2>2. x \in Seq(Errs) /\ Len(x) = Len(errs)
    BY <1>1, <2>1
  <2>3. x # <<>>
    BY <1>1, <2>1, <2>2
  <2> QED BY <1>3, <2>1, <2>2, <2>3 DEF Register
<1> QED BY <1>2, <1>3

LEMMA WrongIs ==
    ASSUME Remembered, NEW e \in Errs, Wrong(e)
    PROVE  errors' \in Seq(Errs) /\ Len(errors') <= ArgEnd /\ errors' # <<>> /\ vals' = vals
BY RegisterIs DEF Remembered, Wrong

\* scanfn: a value that fits is stored, of another there is an error.
Outcomes(k, val, errs) ==
  /\ \/ /\ FitsSoFar(T[k], Append(vals[k], val)) /\ errors' = errs
        /\ vals' = [vals EXCEPT ![k] = Append(vals[k], val)]
     \/ ~FitsSoFar(T[k], Append(vals[k], val)) /\ errors' # <<>> /\ vals' = vals
  /\ vals' \in [1..Len(T) -> Seq(Texts)] /\ \A i \in 1..Len(T) : FitsSoFar(T[i], vals'[i])
  /\ errors' \in Seq(Errs) /\ Len(errors') <= ArgEnd /\ (errs # <<>> => errors' # <<>>)

LEMMA ScanIs ==
    ASSUME input \in Inputs, Stored, NEW k \in 1..Len(T), NEW val \in Texts,
           NEW errs \in Seq(Errs), Len(errs) <= ArgEnd, Scan(k, val, errs)
    PROVE  /\ Outcomes(k, val, errs)
           /\ ScanError(k, val) = {} <=> FitsSoFar(T[k], Append(vals[k], val))
<1>1. /\ vals \in [1..Len(T) -> Seq(Texts)] /\ vals[k] \in Seq(Texts) /\ FitsSoFar(T[k], vals[k])
      /\ \A i \in 1..Len(T) : FitsSoFar(T[i], vals[i])
  BY DEF Stored
<1>2. T[k].max \in Nat
  BY TheTable
<1>3. ScanError(k, val) \subseteq Errs
  BY DEF ScanError, Errs
<1>4. ScanError(k, val) = {} <=> FitsSoFar(T[k], Append(vals[k], val))
  <2> DEFINE e == T[k]
             vs == vals[k]
  <2>1. FitsSoFar(e, Append(vs, val)) <=>
             /\ FitsSoFar(e, vs) /\ Len(vs) # e.max
             /\ e.kind = "int" => val \in Numbers
             /\ e.kind = "rex" => val \in KillTargets
    <3>1. e.max \in Nat /\ vs \in Seq(Texts)
      BY <1>1, <1>2
    <3> HIDE DEF e, vs
    <3> QED BY <3>1, FitsWith
  <2>2. ScanError(k, val) = {} <=>
             /\ Len(vs) # e.max
             /\ e.kind = "int" => val \in Numbers
             /\ e.kind = "rex" => val \in KillTargets
    BY DEF ScanError
  <2> QED BY <1>1, <2>1, <2>2
<1>5. CASE ScanError(k, val) = {}
  <2> DEFINE v == Append(vals[k], val)
  <2>1. vals' = [vals EXCEPT ![k] = v] /\ errors' = errs
    BY <1>5 DEF Scan
  <2>2. v \in Seq(Texts)
    BY <1>1
  <2>3. FitsSoFar(T[k], v)
    BY <1>4, <1>5
  <2> HIDE DEF v
  <2>4. /\ vals' \in [1..Len(T) -> Seq(Texts)]
        /\ \A i \in 1..Len(T) : FitsSoFar(T[i], vals'[i])
    BY <1>1, <2>1, <2>2, <2>3
  <2> QED BY <1>4, <2>1, <2>3, <2>4 DEF v, Outcomes
<1>6. CASE ScanError(k, val) # {}
  <2> DEFINE e == CHOOSE x \in ScanError(k, val) : TRUE
  <2>1. vals' = vals /\ errors' = Register(errs, e)
    BY <1>6 DEF Scan
  <2>2. e \in Errs
    BY <1>3, <1>6
  <2> HIDE DEF e
  <2>3. errors' \in Seq(Errs) /\ Len(errors') <= ArgEnd /\ errors' # <<>>
    BY <2>1, <2>2, RegisterIs
  <2> QED BY <1>1, <1>4, <1>6, <2>1, <2>3 DEF Outcomes
<1> QED BY <1>4, <1>5, <1>6

-----------------------------------------------------------------------------
(* Each action keeps to Shapes                                             *)
\* What stays as it is when the command and its argv do.
LEMMA SameTable ==
    ASSUME input' = input
    PROVE  T' = T /\ Whole' = Whole
BY DEF T, Whole

LEMMA ShapesAtFirst ==
    ASSUME Init
    PROVE  Shapes /\ Operands = <<>> /\ errors = <<>> /\ pc = "tagged"
<1>1. input \in Inputs /\ pc = "tagged" /\ argv = input.argv /\ optind = 1 /\ place = <<>>
      /\ nonoptStart = 0 /\ nonoptEnd = 0 /\ tab = 1 /\ vals = [k \in 1..Len(T) |-> <<>>] /\ errors = <<>>
  BY DEF Init
<1>2. Len(T) \in Nat /\ input.argv \in Seq(Texts) /\ \A k \in 1..Len(T) : T[k].max \in Nat
  BY <1>1, TheTable
<1>3. ArgEnd \in Nat
  BY ArgumentsAssumption
<1>4. Stored
  <2>1. <<>> \in Seq(Texts) /\ Len(<<>>) = 0
    BY DEF Texts
  <2>2. DOMAIN <<>> = {}
    OBVIOUS
  <2>3. ASSUME NEW k \in 1..Len(T) PROVE FitsSoFar(T[k], <<>>)
    <3>1. T[k].max \in Nat
      BY <1>2
    <3>2. Range(<<>>) = {}
      BY <2>2 DEF Range
    <3> QED BY <2>1, <3>1, <3>2 DEF FitsSoFar
  <2> QED BY <1>1, <2>1, <2>3 DEF Stored
<1>5. Remembered
  BY <1>1, <1>3 DEF Remembered
<1>6. place \in Texts
  BY <1>1 DEF Texts
<1>7. optind \in 1..(Len(argv) + 1) /\ tab \in 1..(Len(T) + 1) /\ argv \in Seq(Texts)
  <2>1. Len(argv) \in Nat
    BY <1>1, <1>2
  <2> QED BY <1>1, <1>2, <2>1
<1>8. Scanned
  BY <1>1 DEF Scanned
<1> QED BY <1>1, <1>4, <1>5, <1>6, <1>7, <1>8 DEF Shapes, Operands

\* The operands that were passed over, moved right before the word at last.
LEMMA MovedBehind ==
    ASSUME Shapes, pc = "tagged", NEW mid \in Nat, NEW last \in Nat, nonoptStart # 0,
           nonoptStart < mid, mid < last, last <= Len(argv) + 1, last >= optind,
           NEW b, b = PermuteArgs(nonoptStart, mid, last, argv)
    PROVE  /\ b \in Seq(Texts) /\ Len(b) = Len(argv)
           /\ last - (mid - nonoptStart) \in 1..(last - 1)
           /\ SubSeq(b, last - (mid - nonoptStart), last - 1) = SubSeq(argv, nonoptStart, mid - 1)
           /\ \A q \in last..Len(b) : b[q] = input.argv[q]
<1>1. /\ argv \in Seq(Texts) /\ nonoptStart \in 0..(optind - 1) /\ optind \in 1..(Len(argv) + 1)
      /\ \A i \in optind..Len(argv) : argv[i] = input.argv[i]
  BY DEF Shapes, Scanned
<1> DEFINE N == Len(argv)
<1>2. optind \in 1..(N + 1) /\ N \in Nat
  BY <1>1
<1> HIDE DEF N
<1>3. /\ nonoptStart \in Nat \ {0} /\ mid \in Nat /\ last \in Nat /\ optind \in Nat
  BY <1>1, <1>2
<1>4. last <= N + 1
  BY DEF N
<1>5. Blocks(nonoptStart, mid, last, Len(argv))
  BY <1>2, <1>3, <1>4 DEF Blocks, N
<1>6. /\ b \in Seq(Texts) /\ Len(b) = Len(argv)
      /\ SubSeq(b, last - (mid - nonoptStart), last - 1) = SubSeq(argv, nonoptStart, mid - 1)
      /\ \A q \in last..Len(argv) : b[q] = argv[q]
  <2> DEFINE X == Texts
             a == argv
             f == nonoptStart
  <2>1. a \in Seq(X) /\ Blocks(f, mid, last, Len(a)) /\ b = PermuteArgs(f, mid, last, a)
    BY <1>1, <1>5
  <2> HIDE DEF X, a, f
  <2>2. MovedBack(f, mid, last, X, a, b)
    BY <2>1, Permuted
  <2> QED BY <2>2 DEF MovedBack, X, a, f
<1>7. last - (mid - nonoptStart) \in 1..(last - 1)
  BY <1>3
<1>8. \A q \in last..N : q \in optind..N
  BY <1>2, <1>3
<1> QED BY <1>1, <1>6, <1>7, <1>8 DEF N

\* Every action leaves the command alone; what else it keeps to, action by action.
LEMMA ShapesAtNoMoreWords ==
    ASSUME Shapes, NoMoreWords
    PROVE  Shapes'
<1>1. /\ pc = "tagged" /\ place = <<>> /\ ~(optind <= Len(argv)) /\ pc' = "untagged" /\ tab' = 1
      /\ nonoptStart' = 0 /\ nonoptEnd' = 0 /\ place' = <<>>
      /\ input' = input /\ vals' = vals /\ errors' = errors
      /\ argv' = (IF nonoptEnd # 0 THEN PermuteArgs(nonoptStart, nonoptEnd, optind, argv) ELSE argv)
      /\ optind' = (IF nonoptEnd # 0 THEN optind - (nonoptEnd - nonoptStart)
                    ELSE IF nonoptStart # 0 THEN nonoptStart ELSE optind)
  BY DEF NoMoreWords, EndScan, Scanning, More
<1>2. /\ argv \in Seq(Texts) /\ Len(argv) = Len(input.argv) /\ nonoptStart \in 0..(optind - 1)
      /\ nonoptEnd \in 0..optind /\ (nonoptEnd # 0 => nonoptStart \in 1..(nonoptEnd - 1))
      /\ (nonoptEnd = optind => AtOption) /\ optind \in 1..(Len(argv) + 1) /\ input \in Inputs
  BY <1>1 DEF Shapes, Scanned
<1>3. Len(T) \in Nat /\ T' = T
  BY <1>1, <1>2, TheTable, SameTable
<1>4. Len(argv) \in Nat
  BY <1>2
<1>5. nonoptEnd # optind
  BY <1>1, <1>2 DEF AtOption
<1>6. argv' \in Seq(Texts) /\ Len(argv') = Len(argv) /\ optind' \in 1..(Len(argv) + 1)
  <2>1. CASE nonoptEnd # 0
    <3>1. /\ nonoptStart # 0 /\ nonoptEnd \in Nat /\ optind \in Nat /\ nonoptStart < nonoptEnd /\ nonoptEnd < optind
          /\ optind <= Len(argv) + 1 /\ optind >= optind
      BY <1>2, <1>4, <1>5, <2>1
    <3>2. /\ argv' \in Seq(Texts) /\ Len(argv') = Len(argv)
          /\ optind - (nonoptEnd - nonoptStart) \in 1..(optind - 1)
      BY <1>1, <2>1, <3>1, MovedBehind
    <3> QED BY <1>1, <1>2, <1>4, <2>1, <3>2
  <2>2. CASE nonoptEnd = 0
    BY <1>1, <1>2, <1>4, <2>2
  <2> QED BY <2>1, <2>2
<1>7. Stored' /\ Remembered'
  <2>1. Stored /\ Remembered
    BY DEF Shapes
  <2> QED BY <1>1, <1>3, <2>1 DEF Stored, Remembered
<1>8. tab' \in 1..(Len(T) + 1) /\ place' \in Texts
  BY <1>1, <1>3 DEF Texts
<1> QED BY <1>1, <1>2, <1>3, <1>6, <1>7, <1>8 DEF Shapes

LEMMA ShapesAtPassOperand ==
    ASSUME Shapes, PassOperand
    PROVE  Shapes'
<1>1. /\ pc = "tagged" /\ place = <<>> /\ optind <= Len(argv) /\ ~IsOption(argv[optind])
      /\ optind' = optind + 1 /\ pc' = pc /\ tab' = tab /\ place' = place
      /\ input' = input /\ vals' = vals /\ errors' = errors
  BY DEF PassOperand, Scanning, More
<1>2. /\ argv \in Seq(Texts) /\ Len(argv) = Len(input.argv) /\ nonoptStart \in 0..(optind - 1)
      /\ nonoptEnd \in 0..optind /\ (nonoptEnd # 0 => nonoptStart \in 1..(nonoptEnd - 1))
      /\ (nonoptEnd = optind => AtOption) /\ optind \in 1..(Len(argv) + 1) /\ input \in Inputs
      /\ \A i \in optind..Len(argv) : argv[i] = input.argv[i]
  BY <1>1 DEF Shapes, Scanned
<1>3. Len(T) \in Nat /\ T' = T
  BY <1>1, <1>2, TheTable, SameTable
<1>4. Len(argv) \in Nat
  BY <1>2
<1>5. nonoptEnd # optind
  BY <1>1, <1>2 DEF AtOption
<1>6. Stored' /\ Remembered'
  <2>1. Stored /\ Remembered
    BY DEF Shapes
  <2> QED BY <1>1, <1>3, <2>1 DEF Stored, Remembered
<1>7. /\ argv' \in Seq(Texts) /\ Len(argv') = Len(argv) /\ nonoptStart' \in 0..optind
      /\ nonoptEnd' = 0
      /\ \A i \in optind..Len(argv) : argv'[i] = input.argv[i]
  <2>1. CASE nonoptStart = 0
    <3>1. nonoptStart' = optind /\ nonoptEnd' = nonoptEnd /\ argv' = argv
      BY <2>1 DEF PassOperand
    <3> QED BY <1>2, <1>4, <2>1, <3>1
  <2>2. CASE nonoptStart # 0 /\ nonoptEnd # 0
    <3>1. /\ argv' = PermuteArgs(nonoptStart, nonoptEnd, optind, argv) /\ nonoptEnd' = 0
          /\ nonoptStart' = optind - (nonoptEnd - nonoptStart)
      BY <2>2 DEF PassOperand
    <3>2. /\ nonoptStart # 0 /\ nonoptEnd \in Nat /\ optind \in Nat /\ nonoptStart < nonoptEnd /\ nonoptEnd < optind
          /\ optind <= Len(argv) + 1 /\ optind >= optind
      BY <1>2, <1>4, <1>5, <2>2
    <3>3. /\ argv' \in Seq(Texts) /\ Len(argv') = Len(argv)
          /\ optind - (nonoptEnd - nonoptStart) \in 1..(optind - 1)
          /\ \A q \in optind..Len(argv') : argv'[q] = input.argv[q]
      BY <1>1, <3>1, <3>2, MovedBehind
    <3> QED BY <1>2, <1>4, <3>1, <3>3
  <2>3. CASE nonoptStart # 0 /\ nonoptEnd = 0
    <3>1. nonoptStart' = nonoptStart /\ nonoptEnd' = nonoptEnd /\ argv' = argv
      BY <2>3 DEF PassOperand
    <3> QED BY <1>2, <1>4, <2>3, <3>1
  <2> QED BY <2>1, <2>2, <2>3
<1>8. Scanned'
  <2>1. \A k \in (1..Len(T')) \ Tagged(T') : vals'[k] = <<>>
    BY <1>1, <1>3 DEF Shapes, Scanned
  <2>2. optind' - 1 = optind /\ \A i \in optind'..Len(argv') : i \in optind..Len(argv)
    BY <1>1, <1>2, <1>4, <1>7
  <2>3. nonoptEnd' # optind'
    BY <1>1, <1>2, <1>4, <1>7
  <2> QED BY <1>1, <1>2, <1>4, <1>7, <2>1, <2>2, <2>3 DEF Scanned
<1>9. optind' \in 1..(Len(argv') + 1)
  BY <1>1, <1>2, <1>4, <1>7
<1>10. pc' = "tagged" /\ tab' \in 1..(Len(T') + 1) /\ place' \in Texts
  BY <1>1, <1>3 DEF Shapes
<1> QED BY <1>1, <1>2, <1>6, <1>7, <1>8, <1>9, <1>10 DEF Shapes

LEMMA ShapesAtDashDash ==
    ASSUME Shapes, DashDash
    PROVE  Shapes'
<1> DEFINE end == RunEnds
<1>1. /\ pc = "tagged" /\ place = <<>> /\ optind <= Len(argv) /\ pc' = "untagged" /\ tab' = 1
      /\ nonoptStart' = 0 /\ nonoptEnd' = 0 /\ place' = <<>>
      /\ input' = input /\ vals' = vals /\ errors' = errors
      /\ argv' = (IF end # 0 THEN PermuteArgs(nonoptStart, end, optind + 1, argv) ELSE argv)
      /\ optind' = (IF end # 0 THEN optind + 1 - (end - nonoptStart) ELSE optind + 1)
  BY DEF DashDash, Scanning, More
<1>2. /\ argv \in Seq(Texts) /\ Len(argv) = Len(input.argv) /\ nonoptStart \in 0..(optind - 1)
      /\ nonoptEnd \in 0..optind /\ (nonoptEnd # 0 => nonoptStart \in 1..(nonoptEnd - 1))
      /\ optind \in 1..(Len(argv) + 1) /\ input \in Inputs
  BY <1>1 DEF Shapes, Scanned
<1>3. Len(T) \in Nat /\ T' = T
  BY <1>1, <1>2, TheTable, SameTable
<1>4. Len(argv) \in Nat
  BY <1>2
<1>5. argv' \in Seq(Texts) /\ Len(argv') = Len(argv) /\ optind' \in 1..(Len(argv) + 1)
  <2>1. CASE end # 0
    <3>1. nonoptStart # 0 /\ nonoptStart < end /\ end \in 2..optind
      BY <1>2, <1>4, <2>1 DEF RunEnds
    <3> DEFINE last == optind + 1
    <3>2. end \in Nat /\ end < last /\ last <= Len(argv) + 1 /\ last >= optind
      BY <1>1, <1>2, <1>4, <3>1
    <3>3. argv' = PermuteArgs(nonoptStart, end, last, argv) /\ optind' = last - (end - nonoptStart)
      <4>1. argv' = PermuteArgs(nonoptStart, end, last, argv) /\ optind' = optind + 1 - (end - nonoptStart)
        BY <1>1, <2>1
      <4>2. optind \in Nat /\ end \in Nat /\ nonoptStart \in Nat
        BY <1>2, <1>4, <3>2
      <4> HIDE DEF end
      <4>3. optind + 1 - (end - nonoptStart) = (optind + 1) - (end - nonoptStart)
        BY <4>2
      <4> QED BY <4>1, <4>3
    <3>4. last \in Nat
      BY <1>2, <1>4
    <3> HIDE DEF end, last
    <3>5. /\ argv' \in Seq(Texts) /\ Len(argv') = Len(argv) /\ last - (end - nonoptStart) \in 1..(last - 1)
      BY <1>1, <3>1, <3>2, <3>3, <3>4, MovedBehind
    <3> QED BY <1>4, <3>2, <3>3, <3>4, <3>5
  <2>2. CASE end = 0
    BY <1>1, <1>2, <1>4, <2>2
  <2> QED BY <2>1, <2>2
<1>6. Stored' /\ Remembered'
  <2>1. Stored /\ Remembered
    BY DEF Shapes
  <2> QED BY <1>1, <1>3, <2>1 DEF Stored, Remembered
<1>7. tab' \in 1..(Len(T) + 1) /\ place' \in Texts
  BY <1>1, <1>3 DEF Texts
<1> QED BY <1>1, <1>2, <1>3, <1>5, <1>6, <1>7 DEF Shapes

LEMMA ShapesAtStartOption ==
    ASSUME Shapes, StartOption
    PROVE  Shapes'
<1>1. /\ pc = "tagged" /\ place = <<>> /\ optind <= Len(argv) /\ IsOption(argv[optind])
      /\ argv[optind] # <<"-", "-">>
      /\ nonoptEnd' = RunEnds /\ place' = Tail(argv[optind])
      /\ input' = input /\ pc' = pc /\ argv' = argv /\ optind' = optind /\ nonoptStart' = nonoptStart
      /\ tab' = tab /\ vals' = vals /\ errors' = errors
  BY DEF StartOption, Scanning, More
<1>2. /\ argv \in Seq(Texts) /\ Len(argv) = Len(input.argv) /\ nonoptStart \in 0..(optind - 1)
      /\ nonoptEnd \in 0..optind /\ (nonoptEnd # 0 => nonoptStart \in 1..(nonoptEnd - 1))
      /\ optind \in 1..(Len(argv) + 1) /\ input \in Inputs
      /\ \A i \in optind..Len(argv) : argv[i] = input.argv[i]
      /\ \A k \in (1..Len(T)) \ Tagged(T) : vals[k] = <<>>
  BY <1>1 DEF Shapes, Scanned
<1>3. T' = T
  BY <1>1, SameTable
<1>4. Len(argv) \in Nat /\ optind \in 1..Len(argv) /\ argv[optind] \in Texts
  BY <1>1, <1>2
<1>5. place' \in Texts
  <2> DEFINE w == argv[optind]
  <2>1. w \in Seq(Chars) /\ Len(w) > 1
    BY <1>1, <1>4 DEF IsOption, Texts
  <2> HIDE DEF w
  <2>2. Tail(w) \in Seq(Chars)
    BY <2>1
  <2> QED BY <1>1, <2>2 DEF w, Texts
<1>6. AtOption'
  BY <1>1 DEF AtOption
<1>7. /\ nonoptEnd' \in 0..optind
      /\ nonoptEnd' # 0 => nonoptStart \in 1..(nonoptEnd' - 1)
      /\ nonoptEnd' = 0 => nonoptStart = 0
  <2>1. CASE nonoptStart # 0 /\ nonoptEnd = 0
    <3>1. nonoptEnd' = optind
      BY <1>1, <2>1 DEF RunEnds
    <3> QED BY <1>2, <1>4, <2>1, <3>1
  <2>2. CASE ~(nonoptStart # 0 /\ nonoptEnd = 0)
    <3>1. nonoptEnd' = nonoptEnd
      BY <1>1, <2>2 DEF RunEnds
    <3> QED BY <1>2, <2>2, <3>1
  <2> QED BY <2>1, <2>2
<1>8. Scanned'
  <2>1. \A k \in (1..Len(T')) \ Tagged(T') : vals'[k] = <<>>
    BY <1>1, <1>2, <1>3
  <2> QED BY <1>1, <1>2, <1>6, <1>7, <2>1 DEF Scanned
<1>9. Stored' /\ Remembered'
  BY <1>1, <1>3 DEF Shapes, Stored, Remembered
<1>10. tab' \in 1..(Len(T') + 1)
  BY <1>1, <1>3 DEF Shapes
<1> QED BY <1>1, <1>2, <1>5, <1>8, <1>9, <1>10 DEF Shapes

\* What an option does to values and errors.
Taken == \/ \E e \in Errs : Wrong(e)
         \/ \E k \in Tagged(T), val \in Texts, errs \in Seq(Errs) :
              Len(errs) <= ArgEnd /\ (errors # <<>> => errs # <<>>) /\ Scan(k, val, errs)

LEMMA TakenIs ==
    ASSUME Shapes, Taken, input' = input
    PROVE  /\ Stored' /\ Remembered' /\ (errors # <<>> => errors' # <<>>)
           /\ \A k \in (1..Len(T)) \ Tagged(T) : vals'[k] = vals[k]
<1>1. input \in Inputs /\ Stored /\ Remembered /\ T' = T
  BY SameTable DEF Shapes
<1>2. CASE \E e \in Errs : Wrong(e)
  <2>1. errors' \in Seq(Errs) /\ Len(errors') <= ArgEnd /\ errors' # <<>> /\ vals' = vals
    BY <1>1, <1>2, WrongIs
  <2> QED BY <1>1, <2>1 DEF Stored, Remembered
<1>3. CASE \E k \in Tagged(T), val \in Texts, errs \in Seq(Errs) :
               Len(errs) <= ArgEnd /\ (errors # <<>> => errs # <<>>) /\ Scan(k, val, errs)
  <2>1. PICK k \in Tagged(T), val \in Texts, errs \in Seq(Errs) :
               Len(errs) <= ArgEnd /\ (errors # <<>> => errs # <<>>) /\ Scan(k, val, errs)
    BY <1>3
  <2>2. k \in 1..Len(T)
    BY <1>1, TheTable
  <2>3. Outcomes(k, val, errs)
    BY <1>1, <2>1, <2>2, ScanIs
  <2>4. Stored' /\ Remembered' /\ (errors # <<>> => errors' # <<>>)
    BY <1>1, <2>1, <2>3 DEF Outcomes, Stored, Remembered
  <2>5. vals' = vals \/ vals' = [vals EXCEPT ![k] = Append(vals[k], val)]
    BY <2>3 DEF Outcomes
  <2>6. vals \in [1..Len(T) -> Seq(Texts)]
    BY <1>1 DEF Stored
  <2>7. ASSUME NEW i \in (1..Len(T)) \ Tagged(T) PROVE vals'[i] = vals[i]
    <3>1. i # k /\ i \in 1..Len(T)
      OBVIOUS
    <3> QED BY <2>5, <2>6, <3>1
  <2> QED BY <2>4, <2>7
<1> QED BY <1>2, <1>3 DEF Taken

\* An option that has been read so far, or to its end.
LEMMA ShapesAtOption ==
    ASSUME Shapes, pc = "tagged", place # <<>>, Taken, pc' = pc, input' = input, argv' = argv,
           nonoptStart' = nonoptStart, nonoptEnd' = nonoptEnd, tab' = tab,
           place' \in Texts, optind' \in optind..(Len(argv) + 1), place' # <<>> => optind' = optind
    PROVE  Shapes'
<1>1. Scanned /\ argv \in Seq(Texts) /\ optind \in 1..(Len(argv) + 1) /\ AtOption /\ input \in Inputs
      /\ Len(argv) = Len(input.argv) /\ tab \in 1..(Len(T) + 1)
  BY DEF Shapes, Scanned
<1>2. Stored' /\ Remembered' /\ T' = T /\ \A k \in (1..Len(T)) \ Tagged(T) : vals'[k] = <<>>
  BY <1>1, TakenIs, SameTable DEF Scanned
<1>3. Len(argv) \in Nat
  BY <1>1
<1>4. optind' = optind => AtOption'
  BY <1>1 DEF AtOption
<1>5. Scanned'
  <2>1. nonoptStart' \in 0..(optind' - 1) /\ nonoptEnd' \in 0..optind'
    <3>1. nonoptStart \in 0..(optind - 1) /\ nonoptEnd \in 0..optind
      BY <1>1 DEF Scanned
    <3>2. optind \in Nat /\ optind' \in Nat /\ optind <= optind'
      BY <1>1, <1>3
    <3>3. nonoptStart \in 0..(optind' - 1) /\ nonoptEnd \in 0..optind'
      <4> DEFINE a == nonoptStart
                 b == nonoptEnd
                 p == optind
                 q == optind'
      <4>1. a \in 0..(p - 1) /\ b \in 0..p /\ p \in Nat /\ q \in Nat /\ p <= q
        BY <3>1, <3>2
      <4> HIDE DEF a, b, p, q
      <4>2. a \in 0..(q - 1) /\ b \in 0..q
        BY <4>1
      <4> QED BY <4>2 DEF a, b, q
    <3> QED BY <3>3
  <2>2. /\ nonoptEnd' # 0 => nonoptStart' \in 1..(nonoptEnd' - 1)
        /\ place' # <<>> /\ nonoptEnd' = 0 => nonoptStart' = 0
    BY <1>1 DEF Scanned
  <2>3. place' # <<>> \/ nonoptEnd' = optind' => AtOption'
    <3>1. nonoptEnd' = optind' => optind' = optind
      BY <1>1, <1>3 DEF Scanned
    <3> QED BY <1>4, <3>1
  <2>4. \A i \in optind'..Len(argv') : argv'[i] = input'.argv[i]
    <3>1. \A i \in optind'..Len(argv) : i \in optind..Len(argv)
      BY <1>1, <1>3
    <3> QED BY <1>1, <3>1 DEF Scanned
  <2>5. \A k \in (1..Len(T')) \ Tagged(T') : vals'[k] = <<>>
    BY <1>2
  <2> QED BY <2>1, <2>2, <2>3, <2>4, <2>5 DEF Scanned
<1>6. optind' \in 1..(Len(argv') + 1)
  BY <1>1, <1>3
<1>7. tab' \in 1..(Len(T') + 1) /\ argv' \in Seq(Texts) /\ Len(argv') = Len(input'.argv) /\ input' \in Inputs
  BY <1>1, <1>2
<1> QED BY <1>2, <1>5, <1>6, <1>7 DEF Shapes

-----------------------------------------------------------------------------
(* What an option gives, and what a reader takes it for                    *)
\* The values an option may be given, and the entries it may be.
LEMMA Parts ==
    ASSUME Shapes, pc = "tagged", place # <<>>
    PROVE  /\ Tail(place) \in Texts /\ <<>> \in Texts /\ SubSeq(place, 4, Len(place)) \in Texts
           /\ \A c : ShortEntry(T, c) \subseteq Tagged(T) /\ ExactEntry(T, c) \subseteq Tagged(T)
                     /\ LongEntries(T, c) \subseteq Tagged(T)
           /\ optind \in Nat /\ Len(argv) \in Nat /\ optind <= Len(argv)
           /\ optind + 1 \in optind..(Len(argv) + 1)
           /\ optind \in optind..(Len(argv) + 1)
           /\ optind + 1 <= Len(argv) => argv[optind + 1] \in Texts /\ optind + 2 \in optind..(Len(argv) + 1)
<1>1. place \in Seq(Chars) /\ AtOption /\ optind \in 1..(Len(argv) + 1) /\ argv \in Seq(Texts)
  BY DEF Shapes, Scanned, Texts
<1>2. Tail(place) \in Texts /\ <<>> \in Texts /\ SubSeq(place, 4, Len(place)) \in Texts
  BY <1>1 DEF Texts
<1>3. \A c : ShortEntry(T, c) \subseteq Tagged(T) /\ ExactEntry(T, c) \subseteq Tagged(T)
             /\ LongEntries(T, c) \subseteq Tagged(T)
  BY DEF ShortEntry, ExactEntry, LongEntries
<1>4. optind <= Len(argv)
  BY <1>1 DEF AtOption
<1>5. optind \in Nat /\ Len(argv) \in Nat
  BY <1>1
<1>6. /\ optind + 1 \in optind..(Len(argv) + 1)
      /\ optind \in optind..(Len(argv) + 1)
      /\ optind + 1 <= Len(argv) => argv[optind + 1] \in Texts /\ optind + 2 \in optind..(Len(argv) + 1)
  BY <1>1, <1>4, <1>5
<1> QED BY <1>2, <1>3, <1>4, <1>5, <1>6

\* What becomes of an option: the reading of it, m before and y after it, shows
\* it is wrong, or it has its value, with more letters in its word or without,
\* or its value is the next word, which may be missing.
Becomes(m, y) ==
  \/ y.bad /\ errors' # <<>>
  \/ \E k \in Tagged(T), val \in Texts :
       /\ Scan(k, val, errors) /\ y = Gives(m, k, val)
       /\ place' = Tail(place) /\ place' # <<>> /\ optind' = optind
  \/ \E k \in Tagged(T), val \in Texts :
       /\ Scan(k, val, errors) /\ y \in {Gives(m, k, val), Left(Gives(m, k, val))}
       /\ ~y.inside \/ Tail(place) = <<>>
       /\ place' = <<>> /\ optind' = optind + 1
  \/ \E k \in Tagged(T) : y = Left(Awaits(m, k)) /\ errors' # <<>> /\ optind + 1 > Len(argv)
  \/ \E k \in Tagged(T) :
       /\ y = Left(Awaits(m, k)) /\ optind + 1 <= Len(argv) /\ Scan(k, argv[optind + 1], errors)
       /\ place' = <<>> /\ optind' = optind + 2

LEMMA WrongTakes ==
    ASSUME Shapes, NEW e \in Errs, Wrong(e)
    PROVE  Taken /\ errors' # <<>>
<1>1. Remembered
  BY DEF Shapes
<1> QED BY <1>1, WrongIs DEF Taken

LEMMA ScanTakes ==
    ASSUME Shapes, NEW k \in Tagged(T), NEW val \in Texts, Scan(k, val, errors)
    PROVE  Taken
BY DEF Taken, Shapes, Remembered

LEMMA ShortIs ==
    ASSUME Shapes, ShortOption
    PROVE  /\ pc = "tagged" /\ place # <<>> /\ Taken /\ place' \in Texts
           /\ optind' \in optind..(Len(argv) + 1) /\ (place' # <<>> => optind' = optind)
           /\ \A m \in Readings(T) : m.inside => Becomes(m, ReadLetter(T, m, Head(place), Tail(place)))
<1> DEFINE c == Head(place)
           rest == Tail(place)
           found == ShortEntry(T, c)
           k == CHOOSE i \in found : TRUE
           Y(m) == ReadLetter(T, m, c, rest)
<1>1. pc = "tagged" /\ place # <<>>
  BY DEF ShortOption
<1>2. /\ rest \in Texts /\ <<>> \in Texts /\ found \subseteq Tagged(T)
      /\ optind \in Nat /\ Len(argv) \in Nat /\ optind <= Len(argv)
      /\ optind + 1 \in optind..(Len(argv) + 1)
      /\ optind \in optind..(Len(argv) + 1)
      /\ optind + 1 <= Len(argv) => argv[optind + 1] \in Texts /\ optind + 2 \in optind..(Len(argv) + 1)
  BY <1>1, Parts
<1>3. input \in Inputs /\ Len(T) \in Nat
  BY TheTable DEF Shapes
<1>4. \A m \in Readings(T), i \in Tagged(T), val \in Texts : Gives(m, i, val).inside = m.inside
  <2> TAKE m \in Readings(T), i \in Tagged(T), val \in Texts
  <2> QED BY DEF Gives, Readings
<1>5. \A m \in Readings(T), i \in Tagged(T), val \in Texts : ~Left(Gives(m, i, val)).inside
  <2> TAKE m \in Readings(T), i \in Tagged(T), val \in Texts
  <2> DEFINE g == Gives(m, i, val)
  <2>1. g \in Readings(T)
    BY <1>3, GivesIs
  <2> HIDE DEF g
  <2>2. ~Left(g).inside
    BY <2>1 DEF Left, Readings
  <2> QED BY <2>2 DEF g
<1>6. CASE found = {}
  <2>1. Wrong("EUNKNOWN") /\ place' = rest /\ optind' = AfterLetter(rest)
    BY <1>6 DEF ShortOption
  <2>2. Taken /\ errors' # <<>>
    <3>1. "EUNKNOWN" \in Errs
      BY DEF Errs
    <3> QED BY <2>1, <3>1, WrongTakes
  <2>3. \A m : Y(m) = Unclear(m)
    BY <1>6 DEF ReadLetter
  <2>4. \A m \in Readings(T) : Becomes(m, Y(m))
    <3> TAKE m \in Readings(T)
    <3>1. Unclear(m).bad
      BY DEF Unclear, Readings
    <3> HIDE DEF Y
    <3> QED BY <2>2, <2>3, <3>1 DEF Becomes
  <2> HIDE DEF rest, Y
  <2> QED BY <1>1, <1>2, <2>1, <2>2, <2>4 DEF AfterLetter, Y, rest
<1>7. CASE found # {} /\ ~Takes(k)
  <2>1. Scan(k, <<>>, errors) /\ place' = rest /\ optind' = AfterLetter(rest)
    BY <1>7 DEF ShortOption
  <2>2. k \in Tagged(T)
    BY <1>2, <1>7
  <2>3. \A m : Y(m) = Gives(m, k, <<>>)
    BY <1>7 DEF ReadLetter, Takes
  <2>4. Taken
    BY <1>2, <2>1, <2>2, ScanTakes
  <2> HIDE DEF k, found, Y
  <2>5. \A m \in Readings(T) : Becomes(m, Y(m))
    <3> TAKE m \in Readings(T)
    <3>1. CASE rest = <<>>
      BY <1>2, <2>1, <2>2, <2>3, <3>1 DEF Becomes, AfterLetter
    <3>2. CASE rest # <<>>
      BY <1>2, <2>1, <2>2, <2>3, <3>2 DEF Becomes, AfterLetter
    <3> QED BY <3>1, <3>2
  <2> HIDE DEF rest
  <2> QED BY <1>1, <1>2, <2>1, <2>4, <2>5 DEF AfterLetter, Y, rest
<1>8. CASE found # {} /\ Takes(k) /\ rest # <<>>
  <2>1. Scan(k, rest, errors) /\ place' = <<>> /\ optind' = optind + 1
    BY <1>8 DEF ShortOption
  <2>2. k \in Tagged(T)
    BY <1>2, <1>8
  <2>3. \A m : Y(m) = Left(Gives(m, k, rest))
    BY <1>8 DEF ReadLetter, Takes
  <2>4. Taken
    BY <1>2, <2>1, <2>2, ScanTakes
  <2> HIDE DEF k, found, Y, rest
  <2>5. \A m \in Readings(T) : Becomes(m, Y(m))
    <3> TAKE m \in Readings(T)
    <3>1. ~Y(m).inside
      BY <1>2, <1>5, <2>2, <2>3
    <3> QED BY <1>2, <2>1, <2>2, <2>3, <3>1 DEF Becomes
  <2> QED BY <1>1, <1>2, <2>1, <2>4, <2>5 DEF Y, rest
<1>9. CASE found # {} /\ Takes(k) /\ rest = <<>>
  <2>1. place' = <<>>
    BY <1>9 DEF ShortOption
  <2>2. k \in Tagged(T)
    BY <1>2, <1>9
  <2>3. \A m : Y(m) = Left(Awaits(m, k))
    BY <1>9 DEF ReadLetter, Takes
  <2>4. CASE optind + 1 > Len(argv)
    <3>1. Wrong("EMISSARG") /\ optind' = optind + 1
      BY <1>9, <2>4 DEF ShortOption
    <3>2. Taken /\ errors' # <<>>
      <4>1. "EMISSARG" \in Errs
        BY DEF Errs
      <4> QED BY <3>1, <4>1, WrongTakes
    <3> HIDE DEF k, found, Y
    <3>3. \A m \in Readings(T) : Becomes(m, Y(m))
      BY <2>2, <2>3, <2>4, <3>2 DEF Becomes
    <3> QED BY <1>1, <1>2, <2>1, <3>1, <3>2, <3>3 DEF Y
  <2>5. CASE ~(optind + 1 > Len(argv))
    <3>1. Scan(k, argv[optind + 1], errors) /\ optind' = optind + 2
      BY <1>9, <2>5 DEF ShortOption
    <3>2. optind + 1 <= Len(argv) /\ argv[optind + 1] \in Texts /\ optind + 2 \in optind..(Len(argv) + 1)
      BY <1>2, <2>5
    <3>3. Taken
      BY <2>2, <3>1, <3>2, ScanTakes
    <3> HIDE DEF k, found, Y
    <3>4. \A m \in Readings(T) : Becomes(m, Y(m))
      BY <2>1, <2>2, <2>3, <3>1, <3>2 DEF Becomes
    <3> QED BY <1>1, <1>2, <2>1, <3>1, <3>2, <3>3, <3>4 DEF Y
  <2> QED BY <2>4, <2>5
<1> QED BY <1>6, <1>7, <1>8, <1>9

\* The name behind the second dash, as getopt and as the reading have it.
LEMMA NameParts ==
    ASSUME NEW p \in Texts, p # <<>>
    PROVE  /\ Tail(p) \in Texts /\ Len(Tail(p)) = Len(p) - 1 /\ Len(p) \in Nat \ {0}
           /\ Tail(p) = <<>> <=> Len(p) = 1
           /\ Len(p) # 1 => Tail(p)[1] = p[2]
           /\ Len(p) > 2 => Tail(p)[2] = p[3]
           /\ Len(p) # 1 => SubSeq(Tail(p), 3, Len(Tail(p))) = SubSeq(p, 4, Len(p))
<1> DEFINE s == Tail(p)
           n == Len(p)
<1>1. p \in Seq(Chars)
  BY DEF Texts
<1>2. s \in Seq(Chars) /\ Len(s) = n - 1 /\ n \in Nat \ {0} /\ \A i \in 1..(n - 1) : s[i] = p[i + 1]
  BY <1>1
<1>3. s = <<>> <=> n = 1
  BY <1>2
<1>4. ASSUME n # 1 PROVE SubSeq(s, 3, n - 1) = SubSeq(p, 4, n)
  <2>2. CASE n >= 4
    <3> DEFINE u == SubSeq(s, 3, n - 1)
               v == SubSeq(p, 4, n)
    <3>2. u \in Seq(Chars) /\ Len(u) = n - 3 /\ \A i \in 1..(n - 3) : u[i] = s[i + 2]
      <4>1. \A i \in 3..(n - 1) : s[i] \in Chars
        BY <1>2
      <4> DEFINE e == n - 1
      <4>2. e \in Int /\ 3 <= e /\ e - 3 + 1 = n - 3
        BY <1>2, <2>2
      <4> HIDE DEF e, u
      <4>3. SubSeq(s, 3, e) \in Seq(Chars) /\ Len(SubSeq(s, 3, e)) = e - 3 + 1
            /\ \A i \in 1..(e - 3 + 1) : SubSeq(s, 3, e)[i] = s[3 + i - 1]
        BY <4>1, <4>2, SubSeqProperties DEF e
      <4>4. \A i \in 1..(n - 3) : 3 + i - 1 = i + 2
        BY <1>2
      <4> QED BY <4>2, <4>3, <4>4 DEF e, u
    <3>3. v \in Seq(Chars) /\ Len(v) = n - 3 /\ \A i \in 1..(n - 3) : v[i] = p[i + 3]
      <4>1. \A i \in 4..n : p[i] \in Chars
        BY <1>1, <1>2
      <4>2. n \in Int /\ 4 <= n /\ n - 4 + 1 = n - 3
        BY <1>2, <2>2
      <4> HIDE DEF n, v
      <4>3. SubSeq(p, 4, n) \in Seq(Chars) /\ Len(SubSeq(p, 4, n)) = n - 4 + 1
            /\ \A i \in 1..(n - 4 + 1) : SubSeq(p, 4, n)[i] = p[4 + i - 1]
        BY <4>1, <4>2, SubSeqProperties
      <4>4. \A i \in 1..(n - 3) : 4 + i - 1 = i + 3
        BY <1>2
      <4> QED BY <4>2, <4>3, <4>4 DEF v
    <3> HIDE DEF s, n, u, v
    <3>4. \A i \in 1..(n - 3) : i + 2 \in 1..(n - 1) /\ (i + 2) + 1 = i + 3
      BY <1>2, <2>2
    <3>5. \A i \in 1..Len(u) : u[i] = v[i]
      BY <1>2, <3>2, <3>3, <3>4
    <3>6. u = v
      BY <3>2, <3>3, <3>5, SeqEqual
    <3> QED BY <3>6 DEF u, v
  <2>3. CASE ~(n >= 4)
    <3>1. n - 1 < 3 /\ n < 4 /\ n - 1 \in Int /\ n \in Int
      BY <1>2, <2>3
    <3>2. SubSeq(s, 3, n - 1) = <<>>
      BY <1>2, <3>1, SubSeqEmpty
    <3>3. SubSeq(p, 4, n) = <<>>
      BY <1>1, <3>1, SubSeqEmpty
    <3> QED BY <3>2, <3>3
  <2> QED BY <2>2, <2>3
<1>5. n # 1 => s[1] = p[2]
  BY <1>2
<1>6. n > 2 => s[2] = p[3]
  BY <1>2
<1> QED BY <1>2, <1>3, <1>4, <1>5, <1>6 DEF Texts

LEMMA LongIs ==
    ASSUME Shapes, LongOption
    PROVE  /\ pc = "tagged" /\ place # <<>> /\ Taken /\ place' = <<>>
           /\ optind' \in optind..(Len(argv) + 1)
           /\ \A m \in Readings(T) : Becomes(m, Left(ReadName(T, m, Tail(place))))
<1> DEFINE name == place[2]
           found == IF ExactEntry(T, name) # {} THEN ExactEntry(T, name) ELSE LongEntries(T, name)
           k == CHOOSE i \in found : TRUE
           equals == Len(place) > 2 /\ place[3] = "="
           given == SubSeq(place, 4, Len(place))
           rest == Tail(place)
           Y(m) == Left(ReadName(T, m, rest))
<1>1. pc = "tagged" /\ place # <<>> /\ place' = <<>>
  BY DEF LongOption
<1>2. /\ rest \in Texts /\ <<>> \in Texts /\ given \in Texts /\ found \subseteq Tagged(T)
      /\ optind \in Nat /\ Len(argv) \in Nat /\ optind <= Len(argv)
      /\ optind + 1 \in optind..(Len(argv) + 1)
      /\ optind \in optind..(Len(argv) + 1)
      /\ optind + 1 <= Len(argv) => argv[optind + 1] \in Texts /\ optind + 2 \in optind..(Len(argv) + 1)
  BY <1>1, Parts
<1>3. input \in Inputs /\ Len(T) \in Nat /\ Remembered /\ place \in Texts
  BY TheTable DEF Shapes
<1>4. /\ Len(place) \in Nat /\ Len(place) # 0 /\ Len(rest) = Len(place) - 1
      /\ rest = <<>> <=> Len(place) = 1
      /\ Len(place) # 1 => rest[1] = name
      /\ Len(place) > 2 => rest[2] = place[3]
      /\ Len(place) # 1 => SubSeq(rest, 3, Len(rest)) = given
  <2>1. Len(place) \in Nat \ {0}
    BY <1>1, <1>3, NameParts
  <2> QED BY <1>1, <1>3, <2>1, NameParts
<1>5. \A m \in Readings(T) : Left(Unclear(m)).bad
  BY DEF Left, Unclear, Readings
<1>6. \A m \in Readings(T), i \in Tagged(T), val \in Texts : ~Left(Gives(m, i, val)).inside
  BY DEF Left, Gives, Readings
<1>7. "EMISSARG" \in Errs /\ "ELONGOPT" \in Errs
  BY DEF Errs

\* What is wrong with the name, and what the reading says of it.
<1>8. ASSUME errors' # <<>>, \A m \in Readings(T) : Y(m) = Left(Unclear(m))
      PROVE  \A m \in Readings(T) : Becomes(m, Y(m))
  <2> HIDE DEF Y
  <2> QED BY <1>5, <1>8 DEF Becomes
<1>9. CASE Len(place) = 1
  <2>1. Wrong("EMISSARG") /\ optind' = optind
    BY <1>9 DEF LongOption
  <2>2. Taken /\ errors' # <<>>
    BY <1>7, <2>1, WrongTakes
  <2>3. \A m \in Readings(T) : Y(m) = Left(Unclear(m))
    BY <1>4, <1>9 DEF ReadName
  <2> HIDE DEF Y
  <2> QED BY <1>1, <1>2, <1>8, <2>1, <2>2, <2>3 DEF Y
<1>10. ASSUME Len(place) # 1
       PROVE  \A m : ReadName(T, m, rest) =
                IF Cardinality(found) # 1 THEN Unclear(m)
                ELSE IF T[k].kind = "lit" THEN IF equals THEN Unclear(m) ELSE Gives(m, k, <<>>)
                ELSE IF ~equals THEN Awaits(m, k)
                ELSE IF given = <<>> THEN Unclear(m) ELSE Gives(m, k, given)
  <2>1. rest # <<>> /\ rest[1] = name /\ SubSeq(rest, 3, Len(rest)) = given
    BY <1>4, <1>10
  <2>2. equals <=> Len(rest) > 1 /\ rest[2] = "="
    BY <1>4
  <2> DEFINE Found(n) == IF ExactEntry(T, n) # {} THEN ExactEntry(T, n) ELSE LongEntries(T, n)
             K(n) == CHOOSE i \in Found(n) : TRUE
             end == SubSeq(rest, 3, Len(rest))
             more == Len(rest) > 1 /\ rest[2] = "="
  <2>3. found = Found(name) /\ k = K(name)
    OBVIOUS
  <2> HIDE DEF rest, name, given, equals
  <2>4. \A m : ReadName(T, m, rest) =
                IF rest = <<>> THEN Unclear(m)
                ELSE IF Cardinality(Found(rest[1])) # 1 THEN Unclear(m)
                ELSE IF T[K(rest[1])].kind = "lit" THEN IF more THEN Unclear(m) ELSE Gives(m, K(rest[1]), <<>>)
                ELSE IF ~more THEN Awaits(m, K(rest[1]))
                ELSE IF end = <<>> THEN Unclear(m) ELSE Gives(m, K(rest[1]), end)
    BY DEF ReadName
  <2>5. end = given /\ (more <=> equals)
    BY <2>1, <2>2
  <2> HIDE DEF Found, K, found, k, end, more
  <2> QED BY <2>1, <2>3, <2>4, <2>5
<1>11. CASE Len(place) # 1 /\ Cardinality(found) # 1
  <2>1. Wrong("ELONGOPT") /\ optind' = optind + 1
    BY <1>11 DEF LongOption
  <2>2. Taken /\ errors' # <<>>
    BY <1>7, <2>1, WrongTakes
  <2> HIDE DEF found, k, equals, given, name
  <2>3. \A m \in Readings(T) : Y(m) = Left(Unclear(m))
    BY <1>10, <1>11
  <2> HIDE DEF Y
  <2> QED BY <1>1, <1>2, <1>8, <2>1, <2>2, <2>3 DEF Y
<1>12. ASSUME Cardinality(found) = 1 PROVE k \in Tagged(T)
  <2>1. Cardinality({}) = 0
    BY FS_EmptySet
  <2> HIDE DEF found
  <2>2. found # {}
    BY <1>12, <2>1
  <2> QED BY <1>2, <2>2
<1>13. CASE Len(place) # 1 /\ Cardinality(found) = 1 /\ ~Takes(k)
  <2>1. optind' = optind + 1 /\ (IF equals THEN Wrong("ELONGOPT") ELSE Scan(k, <<>>, errors))
    BY <1>13 DEF LongOption
  <2>2. k \in Tagged(T) /\ T[k].kind = "lit"
    BY <1>12, <1>13 DEF Takes
  <2> HIDE DEF found, k, equals, given, name, rest
  <2>3. CASE equals
    <3>1. Taken /\ errors' # <<>>
      BY <1>7, <2>1, <2>3, WrongTakes
    <3>2. \A m \in Readings(T) : Y(m) = Left(Unclear(m))
      BY <1>10, <1>13, <2>2, <2>3
    <3> HIDE DEF Y
    <3> QED BY <1>1, <1>2, <1>8, <2>1, <3>1, <3>2 DEF Y, rest
  <2>4. CASE ~equals
    <3>1. Scan(k, <<>>, errors)
      BY <2>1, <2>4
    <3>2. Taken
      BY <1>2, <2>2, <3>1, ScanTakes
    <3>3. \A m \in Readings(T) : Y(m) = Left(Gives(m, k, <<>>)) /\ ~Y(m).inside
      BY <1>2, <1>6, <1>10, <1>13, <2>2, <2>4
    <3> HIDE DEF Y
    <3>4. \A m \in Readings(T) : Becomes(m, Y(m))
      BY <1>1, <1>2, <2>1, <2>2, <3>1, <3>3 DEF Becomes
    <3> QED BY <1>1, <1>2, <2>1, <3>2, <3>4 DEF Y, rest
  <2> QED BY <2>3, <2>4
<1>14. CASE Len(place) # 1 /\ Cardinality(found) = 1 /\ Takes(k) /\ equals
  <2>1. /\ optind' = optind + 1
        /\ Scan(k, given, IF given = <<>> THEN Register(errors, "EMISSARG") ELSE errors)
    BY <1>14 DEF LongOption
  <2>2. k \in Tagged(T) /\ T[k].kind # "lit"
    BY <1>12, <1>14 DEF Takes
  <2> HIDE DEF found, k, equals, given, name, rest
  <2>3. CASE given = <<>>
    <3> DEFINE errs == Register(errors, "EMISSARG")
    <3>1. errs \in Seq(Errs) /\ Len(errs) <= ArgEnd /\ errs # <<>>
      BY <1>3, <1>7, RegisterIs DEF Remembered
    <3>2. Scan(k, given, errs)
      BY <2>1, <2>3
    <3> HIDE DEF errs
    <3>3. Taken
      BY <1>2, <2>2, <3>1, <3>2 DEF Taken
    <3>4. errors' # <<>>
      <4>1. k \in 1..Len(T) /\ Stored
        BY <1>3, <2>2, TheTable DEF Shapes
      <4>2. Outcomes(k, given, errs)
        BY <1>2, <1>3, <3>1, <3>2, <4>1, ScanIs
      <4> QED BY <3>1, <4>2 DEF Outcomes
    <3>5. \A m \in Readings(T) : Y(m) = Left(Unclear(m))
      BY <1>10, <1>14, <2>2, <2>3
    <3> HIDE DEF Y
    <3> QED BY <1>1, <1>2, <1>8, <2>1, <3>3, <3>4, <3>5 DEF Y, rest
  <2>4. CASE given # <<>>
    <3>1. Scan(k, given, errors)
      BY <2>1, <2>4
    <3>2. Taken
      BY <1>2, <2>2, <3>1, ScanTakes
    <3>3. \A m \in Readings(T) : Y(m) = Left(Gives(m, k, given)) /\ ~Y(m).inside
      BY <1>2, <1>6, <1>10, <1>14, <2>2, <2>4
    <3> HIDE DEF Y
    <3>4. \A m \in Readings(T) : Becomes(m, Y(m))
      BY <1>1, <1>2, <2>1, <2>2, <3>1, <3>3 DEF Becomes
    <3> QED BY <1>1, <1>2, <2>1, <3>2, <3>4 DEF Y, rest
  <2> QED BY <2>3, <2>4
<1>15. CASE Len(place) # 1 /\ Cardinality(found) = 1 /\ Takes(k) /\ ~equals
  <2>1. IF optind + 1 > Len(argv) THEN Wrong("EMISSARG") /\ optind' = optind + 1
        ELSE Scan(k, argv[optind + 1], errors) /\ optind' = optind + 2
    BY <1>15 DEF LongOption
  <2>2. k \in Tagged(T) /\ T[k].kind # "lit"
    BY <1>12, <1>15 DEF Takes
  <2> HIDE DEF found, k, equals, given, name, rest
  <2>3. \A m \in Readings(T) : Y(m) = Left(Awaits(m, k))
    BY <1>10, <1>15, <2>2
  <2>4. CASE optind + 1 > Len(argv)
    <3>1. Taken /\ errors' # <<>>
      BY <1>7, <2>1, <2>4, WrongTakes
    <3> HIDE DEF Y
    <3>2. \A m \in Readings(T) : Becomes(m, Y(m))
      BY <2>2, <2>3, <2>4, <3>1 DEF Becomes
    <3> QED BY <1>1, <1>2, <2>1, <2>4, <3>1, <3>2 DEF Y, rest
  <2>5. CASE ~(optind + 1 > Len(argv))
    <3>1. Scan(k, argv[optind + 1], errors) /\ optind' = optind + 2
      BY <2>1, <2>5
    <3>2. optind + 1 <= Len(argv) /\ argv[optind + 1] \in Texts /\ optind + 2 \in optind..(Len(argv) + 1)
      BY <1>2, <2>5
    <3>3. Taken
      BY <2>2, <3>1, <3>2, ScanTakes
    <3> HIDE DEF Y
    <3>4. \A m \in Readings(T) : Becomes(m, Y(m))
      BY <1>1, <2>2, <2>3, <3>1, <3>2 DEF Becomes
    <3> QED BY <1>1, <1>2, <3>1, <3>2, <3>3, <3>4 DEF Y, rest
  <2> QED BY <2>4, <2>5
<1> QED BY <1>9, <1>11, <1>13, <1>14, <1>15

-----------------------------------------------------------------------------
(* From the letter at hand to the end of the word                          *)
\* How far the reading is after an option, or a part of one.
LEMMA FaultInWord ==
    ASSUME NEW t, Len(t) \in Nat, \A i \in 1..Len(t) : t[i].max \in Nat,
           NEW m \in Readings(t), NEW w \in Texts, NEW j \in 1..Len(w), Faulty(t, ReadOption(t, m, w, j))
    PROVE  Faulty(t, ReadOption(t, m, w, Len(w)))
<1> DEFINE N == Len(w)
           M == {d \in 0..(N - j) : Faulty(t, ReadOption(t, m, w, j + d))}
<1>1. N \in Nat /\ j \in 1..N /\ N - j \in Nat /\ j \in Nat
  BY DEF Texts
<1> HIDE DEF N
<1>2. 0 \in M
  BY <1>1
<1>3. ASSUME NEW d \in 1..(N - j), d - 1 \in M PROVE d \in M
  <2> DEFINE n == j + d
             x == ReadOption(t, m, w, n - 1)
  <2>1. n \in Nat /\ n \in 1..N /\ n > 1 /\ n - 1 = j + (d - 1) /\ d \in 0..(N - j)
        /\ n - 1 \in Nat /\ n - 1 \in 1..N
    BY <1>1
  <2>2. Faulty(t, x)
    <3>1. Faulty(t, ReadOption(t, m, w, j + (d - 1)))
      BY <1>3
    <3> QED BY <2>1, <3>1
  <2> HIDE DEF n
  <2>3. ReadOption(t, m, w, n) = ReadAt(t, x, w, n)
    BY <2>1, OptionIs DEF N
  <2>4. x \in Readings(t)
    <3> DEFINE q == n - 1
    <3>1. q \in Nat /\ q \in 1..N
      BY <2>1
    <3> HIDE DEF q
    <3>2. Onwards(t, m, ReadOption(t, m, w, q))
      BY <3>1, OptionIs DEF N
    <3> QED BY <3>2 DEF Onwards, q
  <2> HIDE DEF x
  <2>5. Faulty(t, ReadOption(t, m, w, n))
    BY <2>1, <2>2, <2>3, <2>4, AtIs DEF Onwards
  <2> QED BY <2>1, <2>5 DEF n
<1> HIDE DEF M
<1>4. N - j \in M
  <2>1. \A d \in 0..(N - j) : d \in M
    BY <1>1, <1>2, <1>3, Counting
  <2> QED BY <1>1, <2>1
<1>5. j + (N - j) = N
  BY <1>1
<1> QED BY <1>4, <1>5 DEF M, N

ReadsOn(t, ws, i, m, j, y) ==
  /\ m \in Readings(t) /\ y \in Readings(t) /\ y = ReadAt(t, m, ws[i], j + 1)
  /\ Faulty(t, y) => ~Acceptable(t, Meant(t, ws))
  /\ j + 1 = Len(ws[i]) \/ ~y.inside => Read(t, ws, i) = y

LEMMA NextLetter ==
    ASSUME NEW t, Len(t) \in Nat, \A i \in 1..Len(t) : t[i].max \in Nat,
           NEW ws \in Seq(Texts), NEW i \in 1..Len(ws), NEW b, b = Read(t, ws, i - 1),
           ~b.only, b.wants = 0, IsOption(ws[i]), ws[i] # <<"-", "-">>,
           NEW j \in 1..(Len(ws[i]) - 1)
    PROVE  ReadsOn(t, ws, i, ReadOption(t, b, ws[i], j), j, ReadOption(t, b, ws[i], j + 1))
<1> DEFINE w == ws[i]
           N == Len(w)
           m == ReadOption(t, b, w, j)
           y == ReadOption(t, b, w, j + 1)
           n == j + 1
<1>1. w \in Texts /\ N \in Nat /\ N > 1
  BY DEF IsOption, Texts
<1>2. i - 1 \in Nat /\ i - 1 \in 0..Len(ws) /\ i \in Nat /\ i \in 0..Len(ws) /\ i > 0
  OBVIOUS
<1>3. b \in Readings(t)
  <2> DEFINE q == i - 1
  <2>1. q \in Nat /\ q \in 0..Len(ws) /\ b = Read(t, ws, q)
    BY <1>2
  <2> HIDE DEF q
  <2> QED BY <2>1, ReadIs
<1>4. j \in Nat /\ j \in 1..N /\ n \in Nat /\ n \in 1..N /\ n > 1 /\ n - 1 = j
  BY <1>1
<1> HIDE DEF w, N
<1>5. m \in Readings(t)
  BY <1>1, <1>3, <1>4, OptionIs DEF N, Onwards
<1>6. y \in Readings(t) /\ y = ReadAt(t, m, w, n)
  <2> HIDE DEF n
  <2>1. Onwards(t, b, ReadOption(t, b, w, n)) /\ ReadOption(t, b, w, n) = ReadAt(t, ReadOption(t, b, w, n - 1), w, n)
    BY <1>1, <1>3, <1>4, OptionIs DEF N
  <2> QED BY <1>4, <2>1 DEF Onwards, n
<1>7. Read(t, ws, i) = ReadOption(t, b, w, N)
  <2>1. Read(t, ws, i) = ReadWord(t, b, w)
    BY <1>2, ReadIs DEF w
  <2> QED BY <2>1 DEF ReadWord, w, N
<1>8. n = N \/ ~y.inside => Read(t, ws, i) = y
  <2>1. CASE n = N
    BY <1>7, <2>1
  <2>2. CASE ~y.inside
    <3>1. ReadOption(t, b, w, Len(w)) = ReadOption(t, b, w, n)
      <4> HIDE DEF n
      <4>1. ~ReadOption(t, b, w, n).inside /\ n \in 1..Len(w)
        BY <1>4, <2>2 DEF N, n
      <4> QED BY <1>1, <1>3, <4>1, RestIsSilent
    <3> QED BY <1>7, <3>1 DEF N
  <2> QED BY <2>1, <2>2
<1>9. ASSUME Faulty(t, y) PROVE ~Acceptable(t, Meant(t, ws))
  <2>1. Faulty(t, ReadOption(t, b, w, Len(w)))
    <3> HIDE DEF n
    <3>1. Faulty(t, ReadOption(t, b, w, n)) /\ n \in 1..Len(w)
      BY <1>4, <1>9 DEF N, n
    <3> QED BY <1>1, <1>3, <3>1, FaultInWord
  <2>2. Faulty(t, Read(t, ws, i))
    BY <1>7, <2>1 DEF N
  <2> QED BY <1>2, <2>2, FaultIsLasting
<1> QED BY <1>5, <1>6, <1>8, <1>9 DEF ReadsOn, w, N

\* An option waits for its value: the next word is it, or it is missing.
LEMMA NextIsValue ==
    ASSUME NEW t, Len(t) \in Nat, \A i \in 1..Len(t) : t[i].max \in Nat,
           NEW ws \in Seq(Texts), NEW i \in 1..Len(ws), NEW r, r = Read(t, ws, i), r.wants # 0
    PROVE  /\ i = Len(ws) => ~Acceptable(t, Meant(t, ws))
           /\ i # Len(ws) => Read(t, ws, i + 1) = [Gives(r, r.wants, ws[i + 1]) EXCEPT !.wants = 0]
<1>1. i = Len(ws) => ~Acceptable(t, Meant(t, ws))
  BY DEF Meant, Acceptable
<1>2. ASSUME i # Len(ws) PROVE Read(t, ws, i + 1) = [Gives(r, r.wants, ws[i + 1]) EXCEPT !.wants = 0]
  <2> DEFINE n == i + 1
  <2>1. n \in Nat /\ n \in 0..Len(ws) /\ n > 0 /\ n - 1 = i
    BY <1>2
  <2> HIDE DEF n
  <2>2. Read(t, ws, n) = ReadWord(t, Read(t, ws, n - 1), ws[n])
    BY <2>1, ReadIs
  <2>3. Read(t, ws, n) = ReadWord(t, r, ws[n])
    BY <2>1, <2>2
  <2> QED BY <2>3 DEF ReadWord, n
<1> QED BY <1>1, <1>2

\* An option that is read in full leaves the next word to be read.
LEMMA AgreesAfter ==
    ASSUME Shapes, Shapes', pc = "tagged", input' = input, argv' = argv,
           nonoptStart' = nonoptStart, nonoptEnd' = nonoptEnd, place # <<>>, place' = <<>>,
           NEW r, r = Read(T, input.argv, optind' - 1), \A k \in Tagged(T) : vals'[k] = r.vals[k],
           r.words = Operands, ~r.bad, ~r.only, r.wants = 0
    PROVE  Agrees'
<1>1. T' = T
  BY SameTable
<1>2. Before' = r
  BY <1>1 DEF Before
<1>3. Operands' = Operands
  <2>1. nonoptEnd # 0 \/ nonoptStart = 0
    BY DEF Shapes, Scanned
  <2>2. CASE nonoptStart = 0
    BY <2>2 DEF Operands
  <2>3. CASE nonoptStart # 0
    BY <2>1, <2>3 DEF Operands
  <2> QED BY <2>2, <2>3
<1>4. AsRead(Before)'
  BY <1>1, <1>2, <1>3 DEF AsRead
<1> QED BY <1>4 DEF Agrees

LEMMA OptionMeans ==
    ASSUME Inv, Shapes', errors = <<>>, pc = "tagged", place # <<>>, input' = input, argv' = argv, pc' = pc,
           nonoptStart' = nonoptStart, nonoptEnd' = nonoptEnd, tab' = tab,
           \A m \in Readings(T) : m.inside => Becomes(m, ReadAt(T, m, Word, Place + 1)),
           Tail(place) = SubSeq(Word, Place + 2, Len(Word)), Len(Tail(place)) = Len(Word) - (Place + 1)
    PROVE  /\ errors' # <<>> => ~Acceptable(T, Whole)
           /\ errors' = <<>> => Agrees'
<1> DEFINE t == T
           ws == input.argv
           i == optind
           b == Before
           w == Word
           j == Place
           m == ReadOption(t, b, w, j)
           y == ReadOption(t, b, w, j + 1)
<1>1. /\ Shapes /\ Scanned /\ AtOption /\ Stored /\ input \in Inputs /\ argv \in Seq(Texts)
      /\ Len(argv) = Len(ws)
  BY DEF Inv, Shapes, Scanned
<1>2. /\ Len(t) \in Nat /\ (\A k \in 1..Len(t) : t[k].max \in Nat) /\ ws \in Seq(Texts)
      /\ \A k \in Tagged(t) : k \in 1..Len(t) /\ k # 0
  BY <1>1, TheTable, TaggedAre
<1>3. i \in 1..Len(ws) /\ w = ws[i] /\ IsOption(w) /\ w # <<"-", "-">> /\ optind \in Nat /\ Len(argv) \in Nat
  <2>1. optind \in 1..(Len(argv) + 1) /\ optind <= Len(argv)
    BY <1>1 DEF AtOption, Shapes
  <2>2. argv[optind] = ws[optind]
    <3>1. optind \in optind..Len(argv)
      BY <1>1, <2>1
    <3> QED BY <1>1, <3>1 DEF Scanned
  <2> QED BY <1>1, <2>1, <2>2 DEF AtOption, Word
<1>4. /\ b = Read(t, ws, i - 1) /\ ~b.only /\ b.wants = 0 /\ j \in 1..(Len(w) - 1)
      /\ \A k \in Tagged(T) : vals[k] = m.vals[k]
      /\ m.words = Operands /\ ~m.bad /\ ~m.only /\ m.wants = 0 /\ m.inside
      /\ place = SubSeq(w, j + 1, Len(w))
  BY DEF Inv, Agrees, AsRead, Before
<1>5. ReadsOn(t, ws, i, m, j, y)
  <2> HIDE DEF t, ws, i, b, j, w
  <2>1. j \in 1..(Len(ws[i]) - 1) /\ IsOption(ws[i]) /\ ws[i] # <<"-", "-">>
    BY <1>3, <1>4
  <2>2. ReadsOn(t, ws, i, ReadOption(t, b, ws[i], j), j, ReadOption(t, b, ws[i], j + 1))
    BY <1>2, <1>3, <1>4, <2>1, NextLetter
  <2> QED BY <1>3, <2>2
<1>6. /\ m \in Readings(t) /\ y \in Readings(t) /\ y = ReadAt(t, m, w, j + 1)
      /\ Faulty(t, y) => ~Acceptable(t, Whole)
      /\ j + 1 = Len(w) \/ ~y.inside => Read(t, ws, i) = y
  BY <1>3, <1>5 DEF ReadsOn, Whole
<1>7. Becomes(m, y)
  BY <1>4, <1>6
<1>8. Tail(place) = <<>> => j + 1 = Len(w)
  <2>1. Len(w) \in Nat /\ j \in Nat
    <3>1. w \in Texts
      BY <1>2, <1>3
    <3> QED BY <1>4, <3>1 DEF Texts
  <2> DEFINE rest == Tail(place)
  <2>2. Len(rest) = Len(w) - (j + 1)
    OBVIOUS
  <2>3. Len(<<>>) = 0
    OBVIOUS
  <2> DEFINE n == Len(w)
  <2> HIDE DEF rest, n, j
  <2>4. n \in Nat /\ Len(rest) = n - (j + 1)
    BY <2>1, <2>2 DEF n
  <2>5. rest = <<>> => j + 1 = n
    BY <2>1, <2>3, <2>4
  <2> QED BY <2>5 DEF rest, n
<1>9. \A k \in Tagged(t) : k \in 1..Len(T) /\ vals[k] \in Seq(Texts)
  BY <1>1, <1>2 DEF Stored
<1>10. Remembered
  BY <1>1 DEF Shapes

\* A value the entry takes, and one it does not.
<1>11. ASSUME NEW k \in Tagged(t), NEW val \in Texts, Scan(k, val, errors)
       PROVE  /\ errors' = <<>> => vals' = [vals EXCEPT ![k] = Append(vals[k], val)]
              /\ errors' # <<>> => ~FitsSoFar(t[k], Append(vals[k], val))
  <2>1. k \in 1..Len(T)
    BY <1>9
  <2>2. Outcomes(k, val, errors)
    BY <1>1, <1>10, <1>11, <2>1, ScanIs DEF Remembered
  <2> QED BY <2>2 DEF Outcomes
<1>12. ASSUME NEW k \in Tagged(t), NEW val \in Texts, NEW x \in Readings(t), \A l \in Tagged(t) : vals[l] = x.vals[l]
       PROVE  /\ ~FitsSoFar(t[k], Append(vals[k], val)) => Faulty(t, Gives(x, k, val))
              /\ vals' = [vals EXCEPT ![k] = Append(vals[k], val)] =>
                   \A l \in Tagged(t) : vals'[l] = Gives(x, k, val).vals[l]
              /\ Gives(x, k, val) \in Readings(t) /\ Gives(x, k, val).words = x.words
              /\ Gives(x, k, val).bad = x.bad /\ Gives(x, k, val).only = x.only
              /\ Gives(x, k, val).wants = x.wants /\ Gives(x, k, val).inside = x.inside
  <2>1. vals \in [1..Len(T) -> Seq(Texts)]
    BY <1>1 DEF Stored
  <2> DEFINE g == Gives(x, k, val)
  <2> HIDE DEF t
  <2>2. /\ g \in Readings(t) /\ g.vals = [x.vals EXCEPT ![k] = Append(x.vals[k], val)]
        /\ g.words = x.words /\ g.bad = x.bad /\ g.only = x.only /\ g.wants = x.wants /\ g.inside = x.inside
    <3>1. g \in Readings(t) /\ g.vals = [x.vals EXCEPT ![k] = Append(x.vals[k], val)]
      <4>1. Gives(x, k, val) \in Readings(t)
        BY <1>2, GivesIs
      <4>2. Gives(x, k, val).vals = [x.vals EXCEPT ![k] = Append(x.vals[k], val)]
        BY DEF Gives, Readings
      <4> QED BY <4>1, <4>2
    <3>2. g.words = x.words /\ g.bad = x.bad /\ g.only = x.only /\ g.wants = x.wants /\ g.inside = x.inside
      BY DEF Gives, Readings
    <3> QED BY <3>1, <3>2
  <2>3. ~FitsSoFar(t[k], Append(x.vals[k], val)) => Faulty(t, g)
    BY <1>2, StaysFaulty
  <2>4. x.vals \in [1..Len(t) -> Seq(Texts)]
    BY ReadingIs
  <2> HIDE DEF g
  <2>5. \A l \in Tagged(t) : g.vals[l] = IF l = k THEN Append(vals[k], val) ELSE vals[l]
    BY <1>2, <1>12, <2>2, <2>4
  <2>6. vals' = [vals EXCEPT ![k] = Append(vals[k], val)] =>
          \A l \in Tagged(t) : vals'[l] = IF l = k THEN Append(vals[k], val) ELSE vals[l]
    BY <1>2, <2>1 DEF t
  <2>7. x.vals[k] = vals[k]
    BY <1>12
  <2> QED BY <2>2, <2>3, <2>5, <2>6, <2>7 DEF g
<1>13. CASE y.bad /\ errors' # <<>>
  BY <1>6, <1>13 DEF Faulty
<1>14. \A x \in Readings(t) : /\ Left(x) \in Readings(t) /\ Left(x).vals = x.vals /\ Left(x).words = x.words
                              /\ Left(x).bad = x.bad /\ Left(x).only = x.only /\ Left(x).wants = x.wants
                              /\ ~Left(x).inside
  BY DEF Left, Readings
<1>15. ASSUME NEW k \in Tagged(t), NEW val \in Texts, Scan(k, val, errors), y = Gives(m, k, val),
              place' = Tail(place), place' # <<>>, optind' = optind
       PROVE  /\ errors' # <<>> => ~Acceptable(T, Whole)
              /\ errors' = <<>> => Agrees'
  <2>1. /\ ~FitsSoFar(t[k], Append(vals[k], val)) => Faulty(t, y)
        /\ vals' = [vals EXCEPT ![k] = Append(vals[k], val)] => \A l \in Tagged(t) : vals'[l] = y.vals[l]
        /\ y.words = m.words /\ y.bad = m.bad /\ y.only = m.only /\ y.wants = m.wants /\ y.inside = m.inside
    <3> HIDE DEF m, y, t
    <3>1. \A l \in Tagged(t) : vals[l] = m.vals[l]
      BY <1>4 DEF t
    <3> QED BY <1>6, <1>12, <1>15, <3>1
  <2>2. errors' # <<>> => ~Acceptable(T, Whole)
    BY <1>6, <1>11, <1>15, <2>1
  <2>3. ASSUME errors' = <<>> PROVE Agrees'
    <3>1. \A l \in Tagged(T) : vals'[l] = y.vals[l]
      BY <1>11, <1>15, <2>1, <2>3
    <3>2. T' = T /\ Before' = b /\ Word' = w
      <4>1. T' = T
        BY SameTable
      <4> QED BY <1>15, <4>1 DEF Before, Word
    <3>3. Place' = j + 1 /\ j + 1 \in 1..(Len(w) - 1) /\ place' = SubSeq(w, j + 2, Len(w)) /\ (j + 1) + 1 = j + 2
      <4>1. Len(w) \in Nat /\ j \in Nat /\ place' \in Seq(Chars)
        <5>1. w \in Texts /\ place' \in Texts
          BY <1>2, <1>3 DEF Shapes
        <5> QED BY <1>4, <5>1 DEF Texts
      <4>2. Place' = Len(w) - Len(place')
        BY <3>2 DEF Place
      <4>3. Len(place') = Len(w) - (j + 1)
        BY <1>15
      <4>4. Len(place') > 0
        BY <1>15, <4>1
      <4>5. place' = SubSeq(w, j + 2, Len(w))
        BY <1>15
      <4> DEFINE n == Len(w)
                 p == Len(place')
      <4> HIDE DEF n, p, j, w
      <4>6. n \in Nat /\ j \in Nat /\ p = n - (j + 1) /\ p > 0
        BY <4>1, <4>3, <4>4 DEF n, p
      <4>7. n - p = j + 1 /\ j + 1 \in 1..(n - 1) /\ (j + 1) + 1 = j + 2
        BY <4>6
      <4> QED BY <4>2, <4>5, <4>7 DEF n, p
    <3>4. Operands' = Operands
      BY <1>15 DEF Operands
    <3>5. y.words = Operands /\ ~y.bad /\ ~y.only /\ y.wants = 0 /\ y.inside /\ ~b.only /\ b.wants = 0
      BY <1>4, <2>1
    <3> HIDE DEF m
    <3>6. ReadOption(T', Before', Word', Place') = y
      BY <3>2, <3>3
    <3> HIDE DEF y, b, w, j
    <3>7. AsRead(ReadOption(T, Before, Word, Place))'
      BY <3>1, <3>2, <3>4, <3>5, <3>6 DEF AsRead
    <3> QED BY <1>15, <3>2, <3>3, <3>5, <3>6, <3>7 DEF Agrees
  <2> QED BY <2>2, <2>3
<1>16. ASSUME NEW k \in Tagged(t), NEW val \in Texts, Scan(k, val, errors),
              y \in {Gives(m, k, val), Left(Gives(m, k, val))}, ~y.inside \/ Tail(place) = <<>>,
              place' = <<>>, optind' = optind + 1
       PROVE  /\ errors' # <<>> => ~Acceptable(T, Whole)
              /\ errors' = <<>> => Agrees'
  <2> DEFINE g == Gives(m, k, val)
  <2>1. /\ ~FitsSoFar(t[k], Append(vals[k], val)) => Faulty(t, g)
        /\ vals' = [vals EXCEPT ![k] = Append(vals[k], val)] => \A l \in Tagged(t) : vals'[l] = g.vals[l]
        /\ g \in Readings(t)
        /\ g.words = m.words /\ g.bad = m.bad /\ g.only = m.only /\ g.wants = m.wants
    <3> HIDE DEF m, t
    <3>1. \A l \in Tagged(t) : vals[l] = m.vals[l]
      BY <1>4 DEF t
    <3> QED BY <1>6, <1>12, <1>16, <3>1
  <2>2. y = g \/ y = Left(g)
    BY <1>16
  <2> HIDE DEF g, y, m
  <2>3. y.vals = g.vals /\ y.words = m.words /\ y.bad = m.bad /\ y.only = m.only /\ y.wants = m.wants
    BY <1>14, <2>1, <2>2
  <2>4. Read(t, ws, i) = y
    BY <1>6, <1>8, <1>16
  <2>5. errors' # <<>> => ~Acceptable(T, Whole)
    <3>1. Faulty(t, g) => Faulty(t, y)
      BY <2>1, <2>3 DEF Faulty
    <3> QED BY <1>6, <1>11, <1>16, <2>1, <3>1
  <2>6. ASSUME errors' = <<>> PROVE Agrees'
    <3>1. \A l \in Tagged(T) : vals'[l] = y.vals[l]
      BY <1>11, <1>16, <2>1, <2>3, <2>6
    <3>2. y = Read(T, input.argv, optind' - 1)
      <4>1. optind' - 1 = optind
        BY <1>3, <1>16
      <4> QED BY <2>4, <4>1
    <3>3. y.words = Operands /\ ~y.bad /\ ~y.only /\ y.wants = 0
      BY <1>4, <2>3
    <3> HIDE DEF t, ws, i
    <3> QED BY <1>1, <1>16, <3>1, <3>2, <3>3, AgreesAfter
  <2> QED BY <2>5, <2>6
<1>17. ASSUME NEW k \in Tagged(t), y = Left(Awaits(m, k))
       PROVE  /\ Read(t, ws, i) = y /\ y.wants = k /\ k # 0 /\ y \in Readings(t)
              /\ y.vals = m.vals /\ y.words = m.words /\ y.bad = m.bad /\ y.only = m.only
  <2> HIDE DEF m
  <2>1. /\ Left(Awaits(m, k)) \in Readings(t) /\ Left(Awaits(m, k)).wants = k
        /\ Left(Awaits(m, k)).vals = m.vals /\ Left(Awaits(m, k)).words = m.words
        /\ Left(Awaits(m, k)).bad = m.bad /\ Left(Awaits(m, k)).only = m.only
        /\ ~Left(Awaits(m, k)).inside
    BY <1>6, <1>17 DEF Left, Awaits, Readings
  <2> HIDE DEF y
  <2> QED BY <1>2, <1>6, <1>17, <2>1
<1>18. ASSUME NEW k \in Tagged(t), y = Left(Awaits(m, k)), errors' # <<>>, optind + 1 > Len(argv)
       PROVE  ~Acceptable(T, Whole)
  <2>1. Read(t, ws, i) = y /\ y.wants # 0
    BY <1>17, <1>18
  <2>2. i = Len(ws)
    BY <1>1, <1>3, <1>18
  <2> HIDE DEF t, ws, i, y
  <2>3. ~Acceptable(t, Meant(t, ws))
    BY <1>2, <1>3, <2>1, <2>2, NextIsValue
  <2> QED BY <2>3 DEF t, ws, Whole
<1>19. ASSUME NEW k \in Tagged(t), y = Left(Awaits(m, k)), optind + 1 <= Len(argv),
              Scan(k, argv[optind + 1], errors), place' = <<>>, optind' = optind + 2
       PROVE  /\ errors' # <<>> => ~Acceptable(T, Whole)
              /\ errors' = <<>> => Agrees'
  <2> DEFINE val == ws[i + 1]
             g == Gives(y, k, val)
             r == Read(t, ws, i + 1)
  <2>1. /\ Read(t, ws, i) = y /\ y.wants = k /\ k # 0 /\ y \in Readings(t)
        /\ y.vals = m.vals /\ y.words = m.words /\ y.bad = m.bad /\ y.only = m.only
    BY <1>17, <1>19
  <2>2. i # Len(ws) /\ i + 1 \in 0..Len(ws) /\ val \in Texts /\ argv[optind + 1] = val
    <3>1. i + 1 \in 1..Len(ws) /\ i + 1 \in optind..Len(argv) /\ i # Len(ws)
      BY <1>1, <1>3, <1>19
    <3> QED BY <1>1, <1>2, <3>1 DEF Scanned
  <2> HIDE DEF y, m, t, ws, i
  <2>3. r = [Gives(y, y.wants, ws[i + 1]) EXCEPT !.wants = 0]
    <3>1. y = Read(t, ws, i) /\ y.wants # 0 /\ i \in 1..Len(ws) /\ i # Len(ws)
      BY <1>3, <2>1, <2>2
    <3> QED BY <1>2, <3>1, NextIsValue
  <2>4. r = [g EXCEPT !.wants = 0]
    BY <2>1, <2>3
  <2> HIDE DEF val
  <2>5. \A l \in Tagged(t) : vals[l] = y.vals[l]
    BY <1>4, <2>1 DEF t
  <2>6. /\ ~FitsSoFar(t[k], Append(vals[k], val)) => Faulty(t, g)
        /\ vals' = [vals EXCEPT ![k] = Append(vals[k], val)] => \A l \in Tagged(t) : vals'[l] = g.vals[l]
        /\ g \in Readings(t) /\ g.words = y.words /\ g.bad = y.bad /\ g.only = y.only
    BY <1>12, <2>1, <2>2, <2>5
  <2> HIDE DEF g, r
  <2>7. /\ r.vals = g.vals /\ r.words = g.words /\ r.bad = g.bad /\ r.only = g.only /\ r.wants = 0
    BY <2>4, <2>6 DEF Readings
  <2>8. Scan(k, val, errors)
    BY <1>19, <2>2
  <2>9. errors' # <<>> => ~Acceptable(T, Whole)
    <3>1. ASSUME Faulty(t, g) PROVE ~Acceptable(T, Whole)
      <4> DEFINE q == i + 1
      <4>1. q \in 0..Len(ws) /\ r = Read(t, ws, q)
        BY <2>2 DEF r
      <4>2. Faulty(t, r)
        BY <2>7, <3>1 DEF Faulty
      <4> HIDE DEF q
      <4>3. ~Acceptable(t, Meant(t, ws))
        BY <1>2, <4>1, <4>2, FaultIsLasting
      <4> QED BY <4>3 DEF t, ws, Whole
    <3> QED BY <1>11, <2>2, <2>6, <2>8, <3>1
  <2>10. ASSUME errors' = <<>> PROVE Agrees'
    <3>1. \A l \in Tagged(T) : vals'[l] = r.vals[l]
      BY <1>11, <2>2, <2>6, <2>7, <2>8, <2>10 DEF t
    <3>2. r = Read(T, input.argv, optind' - 1)
      <4>1. optind' - 1 = i + 1
        BY <1>3, <1>19 DEF i
      <4> QED BY <4>1 DEF r, t, ws
    <3>3. r.words = Operands /\ ~r.bad /\ ~r.only /\ r.wants = 0
      BY <1>4, <2>1, <2>6, <2>7
    <3> QED BY <1>1, <1>19, <3>1, <3>2, <3>3, AgreesAfter
  <2> QED BY <2>9, <2>10
<1> HIDE DEF m, y
<1>20. T = t
  OBVIOUS
<1> HIDE DEF t
<1> QED BY <1>7, <1>13, <1>15, <1>16, <1>18, <1>19, <1>20 DEF Becomes

-----------------------------------------------------------------------------
(* Each action keeps to Inv                                                *)
\* The letter getopt is at is the one the reading is at.
LEMMA SamePlace ==
    ASSUME Inv, errors = <<>>, pc = "tagged", place # <<>>
    PROVE  /\ Tail(place) = SubSeq(Word, Place + 2, Len(Word)) /\ Len(Tail(place)) = Len(Word) - (Place + 1)
           /\ \A m \in Readings(T) : m.inside =>
                ReadAt(T, m, Word, Place + 1) =
                  IF Head(place) = "-" THEN Left(ReadName(T, m, Tail(place)))
                  ELSE ReadLetter(T, m, Head(place), Tail(place))
<1> DEFINE w == Word
           j == Place
           n == Len(w)
           q == j + 1
<1>1. w \in Seq(Chars) /\ place \in Seq(Chars)
  <2>1. AtOption /\ optind \in 1..(Len(argv) + 1) /\ argv \in Seq(Texts) /\ place \in Texts
    BY DEF Inv, Shapes, Scanned
  <2>2. Len(argv) \in Nat /\ optind \in 1..Len(argv)
    BY <2>1 DEF AtOption
  <2> QED BY <2>1, <2>2 DEF Word, Texts
<1>2. place = SubSeq(w, q, n) /\ j \in 1..(n - 1) /\ n \in Nat
  BY <1>1 DEF Inv, Agrees
<1> HIDE DEF w, j, n
<1>3. q \in 1..n /\ n \in q..n /\ q + 1 = j + 2 /\ q \in Nat /\ q + 1 \in Nat
  BY <1>2
<1>4. Head(place) = w[q] /\ Tail(place) = SubSeq(w, q + 1, n)
  <2> HIDE DEF q
  <2>1. q \in 1..Len(w) /\ n \in q..Len(w)
    BY <1>3 DEF n
  <2> QED BY <1>1, <1>2, <2>1, HeadTailOfSubSeq
<1>5. Len(place) = n - j
  <2>1. \A i \in q..n : w[i] \in Chars
    BY <1>1, <1>3 DEF n
  <2>2. Len(SubSeq(w, q, n)) = n - q + 1
    BY <1>3, <2>1, SubSeqProperties
  <2> QED BY <1>2, <2>2
<1>6. Len(Tail(place)) = n - q
  <2>1. Len(Tail(place)) = Len(place) - 1
    BY <1>1
  <2> QED BY <1>2, <1>5, <2>1
<1>7. ASSUME NEW m \in Readings(T), m.inside
      PROVE  ReadAt(T, m, w, q) = IF Head(place) = "-" THEN Left(ReadName(T, m, Tail(place)))
                                  ELSE ReadLetter(T, m, Head(place), Tail(place))
  <2>1. SubSeq(w, q + 1, Len(w)) = Tail(place)
    BY <1>4 DEF n
  <2> HIDE DEF q
  <2> QED BY <1>4, <1>7, <2>1 DEF ReadAt
<1> QED BY <1>3, <1>4, <1>6, <1>7 DEF n, j, w

LEMMA InvAtShortOption ==
    ASSUME Inv, ShortOption
    PROVE  Inv'
<1>1. Shapes /\ (errors # <<>> => ~Acceptable(T, Whole))
  BY DEF Inv
<1>2. /\ pc = "tagged" /\ place # <<>> /\ Taken /\ place' \in Texts
      /\ optind' \in optind..(Len(argv) + 1) /\ (place' # <<>> => optind' = optind)
      /\ \A m \in Readings(T) : m.inside => Becomes(m, ReadLetter(T, m, Head(place), Tail(place)))
  BY <1>1, ShortIs
<1>3. /\ Head(place) # "-" /\ pc' = pc /\ input' = input /\ argv' = argv
      /\ nonoptStart' = nonoptStart /\ nonoptEnd' = nonoptEnd /\ tab' = tab
  BY DEF ShortOption
<1>4. Shapes' /\ T' = T /\ Whole' = Whole /\ (errors # <<>> => errors' # <<>>)
  BY <1>1, <1>2, <1>3, ShapesAtOption, TakenIs, SameTable
<1>5. CASE errors # <<>>
  BY <1>1, <1>2, <1>3, <1>4, <1>5 DEF Inv
<1>6. CASE errors = <<>>
  <2>1. /\ Tail(place) = SubSeq(Word, Place + 2, Len(Word)) /\ Len(Tail(place)) = Len(Word) - (Place + 1)
        /\ \A m \in Readings(T) : m.inside => Becomes(m, ReadAt(T, m, Word, Place + 1))
    BY <1>2, <1>3, <1>6, SamePlace
  <2>2. /\ errors' # <<>> => ~Acceptable(T, Whole)
        /\ errors' = <<>> => Agrees'
    BY <1>2, <1>3, <1>4, <1>6, <2>1, OptionMeans
  <2> QED BY <1>2, <1>3, <1>4, <2>2 DEF Inv
<1> QED BY <1>5, <1>6

LEMMA InvAtLongOption ==
    ASSUME Inv, LongOption
    PROVE  Inv'
<1>1. Shapes /\ (errors # <<>> => ~Acceptable(T, Whole))
  BY DEF Inv
<1>2. /\ pc = "tagged" /\ place # <<>> /\ Taken /\ place' = <<>>
      /\ optind' \in optind..(Len(argv) + 1)
      /\ \A m \in Readings(T) : Becomes(m, Left(ReadName(T, m, Tail(place))))
  BY <1>1, LongIs
<1>3. /\ Head(place) = "-" /\ pc' = pc /\ input' = input /\ argv' = argv
      /\ nonoptStart' = nonoptStart /\ nonoptEnd' = nonoptEnd /\ tab' = tab
  BY DEF LongOption
<1>4. place' \in Texts
  BY <1>2 DEF Texts
<1>5. Shapes' /\ T' = T /\ Whole' = Whole /\ (errors # <<>> => errors' # <<>>)
  BY <1>1, <1>2, <1>3, <1>4, ShapesAtOption, TakenIs, SameTable
<1>6. CASE errors # <<>>
  BY <1>1, <1>2, <1>3, <1>5, <1>6 DEF Inv
<1>7. CASE errors = <<>>
  <2>1. /\ Tail(place) = SubSeq(Word, Place + 2, Len(Word)) /\ Len(Tail(place)) = Len(Word) - (Place + 1)
        /\ \A m \in Readings(T) : m.inside => Becomes(m, ReadAt(T, m, Word, Place + 1))
    BY <1>2, <1>3, <1>7, SamePlace
  <2>2. /\ errors' # <<>> => ~Acceptable(T, Whole)
        /\ errors' = <<>> => Agrees'
    BY <1>2, <1>3, <1>5, <1>7, <2>1, OptionMeans
  <2> QED BY <1>2, <1>3, <1>5, <2>2 DEF Inv
<1> QED BY <1>6, <1>7

\* While words are scanned and nothing is wrong.
LEMMA AtWord ==
    ASSUME Inv, pc = "tagged", place = <<>>, errors = <<>>
    PROVE  /\ Shapes /\ Scanned /\ input \in Inputs /\ argv \in Seq(Texts) /\ Len(argv) = Len(input.argv)
           /\ Len(argv) \in Nat /\ optind \in 1..(Len(argv) + 1) /\ optind \in Nat
           /\ input.argv \in Seq(Texts) /\ Len(T) \in Nat /\ \A k \in 1..Len(T) : T[k].max \in Nat
           /\ Before \in Readings(T) /\ Before = Read(T, input.argv, optind - 1)
           /\ (\A k \in Tagged(T) : vals[k] = Before.vals[k])
           /\ Before.words = Operands /\ ~Before.bad /\ ~Before.only /\ Before.wants = 0
           /\ optind <= Len(argv) => argv[optind] = input.argv[optind] /\ argv[optind] \in Texts
<1>1. Shapes /\ Scanned /\ input \in Inputs /\ argv \in Seq(Texts) /\ Len(argv) = Len(input.argv)
      /\ optind \in 1..(Len(argv) + 1)
  BY DEF Inv, Shapes
<1>2. Len(argv) \in Nat /\ optind \in Nat
  BY <1>1
<1>3. input.argv \in Seq(Texts) /\ Len(T) \in Nat /\ \A k \in 1..Len(T) : T[k].max \in Nat
  BY <1>1, TheTable
<1>4. Before \in Readings(T)
  <2> DEFINE t == T
             ws == input.argv
             n == optind - 1
  <2>1. n \in Nat /\ n \in 0..Len(ws)
    BY <1>1, <1>2
  <2> HIDE DEF t, ws, n
  <2>2. Read(t, ws, n) \in Readings(t)
    BY <1>3, <2>1, ReadIs DEF t, ws
  <2> QED BY <2>2 DEF t, ws, n, Before
<1>5. AsRead(Before)
  BY DEF Inv, Agrees
<1>6. optind <= Len(argv) => argv[optind] = input.argv[optind] /\ argv[optind] \in Texts
  <2> SUFFICES ASSUME optind <= Len(argv) PROVE argv[optind] = input.argv[optind] /\ argv[optind] \in Texts
    OBVIOUS
  <2>1. optind \in optind..Len(argv) /\ optind \in 1..Len(argv)
    BY <1>1, <1>2
  <2> QED BY <1>1, <2>1 DEF Scanned
<1> QED BY <1>1, <1>2, <1>3, <1>4, <1>5, <1>6 DEF AsRead, Before

\* The reading of one word more.
LEMMA NextRead ==
    ASSUME NEW t, Len(t) \in Nat, \A k \in 1..Len(t) : t[k].max \in Nat,
           NEW ws \in Seq(Texts), NEW i \in 1..Len(ws)
    PROVE  Read(t, ws, i) = ReadWord(t, Read(t, ws, i - 1), ws[i])
BY ReadIs

LEMMA InvAtStartOption ==
    ASSUME Inv, StartOption
    PROVE  Inv'
<1>1. /\ pc = "tagged" /\ place = <<>> /\ optind <= Len(argv) /\ IsOption(argv[optind])
      /\ argv[optind] # <<"-", "-">>
      /\ nonoptEnd' = RunEnds /\ place' = Tail(argv[optind])
      /\ input' = input /\ pc' = pc /\ argv' = argv /\ optind' = optind /\ nonoptStart' = nonoptStart
      /\ tab' = tab /\ vals' = vals /\ errors' = errors
  BY DEF StartOption, Scanning, More
<1>2. Shapes' /\ T' = T /\ Whole' = Whole
  <2>1. Shapes
    BY DEF Inv
  <2> QED BY <1>1, <2>1, ShapesAtStartOption, SameTable
<1>3. CASE errors # <<>>
  BY <1>1, <1>2, <1>3 DEF Inv
<1>4. CASE errors = <<>>
  <2> DEFINE w == argv[optind]
             b == Before
             n == Len(w)
             m == ReadOption(T, b, w, 1)
  <2>1. /\ b \in Readings(T) /\ w \in Texts /\ Len(T) \in Nat /\ \A k \in 1..Len(T) : T[k].max \in Nat
        /\ \A k \in Tagged(T) : vals[k] = b.vals[k]
    BY <1>1, <1>4, AtWord
  <2>2. b.words = Operands /\ ~b.bad /\ ~b.only /\ b.wants = 0
    BY <1>1, <1>4, AtWord
  <2>3. w \in Seq(Chars) /\ n \in Nat /\ n > 1 /\ 1 \in 1..n /\ 1 \in 1..(n - 1) /\ w # <<>>
    BY <1>1, <2>1 DEF IsOption, Texts
  <2>4. place' = SubSeq(w, 2, n) /\ Len(place') = n - 1 /\ place' # <<>>
    <3>1. Tail(w) = SubSeq(w, 2, n)
      BY <2>3, TailIsSubSeq
    <3>2. Len(Tail(w)) = n - 1
      BY <2>3
    <3>3. Tail(w) # <<>>
      <4> DEFINE q == Tail(w)
      <4> HIDE DEF q, n
      <4>a. n - 1 # 0
        BY <2>3
      <4>b. Len(q) = n - 1
        BY <3>2 DEF q
      <4>0. n - 1 # 0 /\ Len(q) = n - 1
        BY <4>a, <4>b
      <4>1. Len(q) # 0
        BY <4>0, Zenon
      <4>2. Len(<<>>) = 0
        OBVIOUS
      <4>3. q # <<>>
        BY <4>1, <4>2
      <4> QED BY <4>3 DEF q
    <3> QED BY <1>1, <3>1, <3>2, <3>3
  <2>5. m = [b EXCEPT !.inside = TRUE]
    <3> DEFINE t == T
    <3>1. Len(t) \in Nat /\ b \in Readings(t) /\ (\A k \in 1..Len(t) : t[k].max \in Nat) /\ 1 \in 1..Len(w)
      BY <2>1, <2>3
    <3>2. m = ReadOption(t, b, w, 1)
      OBVIOUS
    <3> HIDE DEF b, w, t, n, m
    <3>3. ReadOption(t, b, w, 1) = [b EXCEPT !.inside = TRUE]
      BY <2>1, <3>1, OptionIs
    <3> QED BY <3>2, <3>3
  <2> HIDE DEF b, m
  <2>6. m.vals = b.vals /\ m.words = b.words /\ m.bad = b.bad /\ m.only = b.only /\ m.wants = b.wants /\ m.inside
    BY <2>1, <2>5 DEF Readings
  <2>7. Before' = b /\ Word' = w /\ Place' = 1
    <3>1. Word' = w
      BY <1>1 DEF Word
    <3>2. Place' = n - Len(place')
      BY <3>1 DEF Place
    <3>3. n - (n - 1) = 1
      BY <2>3
    <3> QED BY <1>1, <1>2, <2>4, <3>1, <3>2, <3>3 DEF Before, b
  <2>8. Operands' = Operands
    <3>1. CASE nonoptStart # 0 /\ nonoptEnd = 0
      <4>1. nonoptEnd' = optind /\ optind # 0
        <5>1. optind \in 1..(Len(argv) + 1)
          BY DEF Inv, Shapes
        <5> QED BY <1>1, <3>1, <5>1 DEF RunEnds
      <4> QED BY <1>1, <3>1, <4>1 DEF Operands
    <3>2. CASE ~(nonoptStart # 0 /\ nonoptEnd = 0)
      BY <1>1, <3>2 DEF Operands, RunEnds
    <3> QED BY <3>1, <3>2
  <2>9. ReadOption(T', Before', Word', Place') = m
    BY <1>2, <2>7 DEF m
  <2>10. AsRead(ReadOption(T, Before, Word, Place))'
    BY <1>1, <1>2, <2>1, <2>2, <2>6, <2>8, <2>9 DEF AsRead
  <2>11. 1 + 1 = 2
    OBVIOUS
  <2>12. Agrees'
    BY <2>2, <2>3, <2>4, <2>6, <2>7, <2>9, <2>10, <2>11 DEF Agrees
  <2> QED BY <1>1, <1>2, <1>4, <2>12 DEF Inv
<1> QED BY <1>3, <1>4

LEMMA InvAtPassOperand ==
    ASSUME Inv, PassOperand
    PROVE  Inv'
<1>1. /\ pc = "tagged" /\ place = <<>> /\ optind <= Len(argv) /\ ~IsOption(argv[optind])
      /\ optind' = optind + 1 /\ pc' = pc /\ tab' = tab /\ place' = place
      /\ input' = input /\ vals' = vals /\ errors' = errors
  BY DEF PassOperand, Scanning, More
<1>2. Shapes' /\ T' = T /\ Whole' = Whole
  <2>1. Shapes
    BY DEF Inv
  <2> QED BY <1>1, <2>1, ShapesAtPassOperand, SameTable
<1>3. CASE errors # <<>>
  BY <1>1, <1>2, <1>3 DEF Inv
<1>4. CASE errors = <<>>
  <2> DEFINE w == argv[optind]
             b == Before
             r == Read(T, input.argv, optind)
  <2>1. /\ Scanned /\ argv \in Seq(Texts) /\ Len(argv) = Len(input.argv)
        /\ Len(argv) \in Nat /\ optind \in 1..(Len(argv) + 1) /\ optind \in Nat
        /\ w = input.argv[optind] /\ w \in Texts
    BY <1>1, <1>4, AtWord
  <2>2. /\ input.argv \in Seq(Texts) /\ Len(T) \in Nat /\ (\A k \in 1..Len(T) : T[k].max \in Nat)
        /\ b \in Readings(T) /\ b = Read(T, input.argv, optind - 1)
        /\ (\A k \in Tagged(T) : vals[k] = b.vals[k])
        /\ b.words = Operands /\ ~b.bad /\ ~b.only /\ b.wants = 0
    BY <1>1, <1>4, AtWord
  <2>3. r = [b EXCEPT !.words = Append(b.words, w)]
    <3> DEFINE t == T
               ws == input.argv
               i == optind
    <3>1. i \in 1..Len(ws) /\ Len(t) \in Nat /\ ws \in Seq(Texts) /\ \A k \in 1..Len(t) : t[k].max \in Nat
      BY <1>1, <2>1, <2>2
    <3>2. r = Read(t, ws, i) /\ b = Read(t, ws, i - 1) /\ w = ws[i]
      BY <2>1, <2>2
    <3> HIDE DEF t, ws, i, r, b, w
    <3>3. Read(t, ws, i) = ReadWord(t, Read(t, ws, i - 1), ws[i])
      BY <3>1, NextRead
    <3>4. r = ReadWord(t, b, w)
      BY <3>2, <3>3
    <3>5. ~IsOption(w)
      BY <1>1 DEF w
    <3> QED BY <2>2, <3>4, <3>5 DEF ReadWord
  <2> HIDE DEF b
  <2>4. r.vals = b.vals /\ r.words = Append(Operands, w) /\ ~r.bad /\ ~r.only /\ r.wants = 0
    <3> DEFINE v == Append(b.words, w)
    <3> HIDE DEF v, r
    <3>1. r = [b EXCEPT !.words = v]
      BY <2>3 DEF v
    <3>2. r.vals = b.vals /\ r.words = v /\ r.bad = b.bad /\ r.only = b.only /\ r.wants = b.wants
      BY <2>2, <3>1 DEF Readings
    <3> QED BY <2>2, <3>2 DEF v

\* The operands passed over, with the word at hand.
  <2>5. Operands' = Append(Operands, w)
    <3>1. /\ nonoptStart \in 0..(optind - 1) /\ nonoptEnd \in 0..optind
          /\ nonoptEnd # 0 => nonoptStart \in 1..(nonoptEnd - 1)
          /\ nonoptEnd = optind => AtOption
      BY <2>1 DEF Scanned
    <3>2. nonoptEnd # optind
      BY <1>1, <3>1 DEF AtOption
    <3>3. CASE nonoptStart = 0
      <4>1. nonoptStart' = optind /\ nonoptEnd' = nonoptEnd /\ argv' = argv /\ nonoptEnd = 0
        BY <2>1, <3>1, <3>3 DEF PassOperand
      <4>2. optind # 0 /\ optind' - 1 = optind
        BY <1>1, <2>1
      <4>3. Operands' = SubSeq(argv, optind, optind)
        BY <4>1, <4>2 DEF Operands
      <4>4. Operands = <<>>
        BY <3>3 DEF Operands
      <4>5. SubSeq(argv, optind, optind) = Append(<<>>, w)
        <5> DEFINE e == optind - 1
                   f == optind
                   a == argv
        <5>1. e \in Nat /\ f \in Nat /\ f \in 1..(e + 1) /\ e + 1 \in 1..Len(a) /\ e + 1 = f /\ a \in Seq(Texts)
          BY <1>1, <2>1
        <5>2. w = a[f]
          OBVIOUS
        <5> HIDE DEF e, f, a, w
        <5>3. SubSeq(a, f, e + 1) = Append(SubSeq(a, f, e), a[e + 1])
          BY <5>1, OneMore
        <5>4. SubSeq(a, f, e) = <<>>
          BY <5>1, SubSeqEmpty
        <5> QED BY <5>1, <5>2, <5>3, <5>4 DEF f, a
      <4> QED BY <4>3, <4>4, <4>5
    <3>4. CASE nonoptStart # 0 /\ nonoptEnd # 0
      <4>1. /\ argv' = PermuteArgs(nonoptStart, nonoptEnd, optind, argv) /\ nonoptEnd' = 0
            /\ nonoptStart' = optind - (nonoptEnd - nonoptStart)
        BY <3>4 DEF PassOperand
      <4>2. /\ nonoptStart # 0 /\ nonoptEnd \in Nat /\ optind \in Nat /\ nonoptStart < nonoptEnd /\ nonoptEnd < optind
            /\ optind <= Len(argv) + 1 /\ optind >= optind /\ nonoptStart \in Nat
        BY <2>1, <3>1, <3>2, <3>4
      <4> DEFINE f == optind - (nonoptEnd - nonoptStart)
                 e == optind - 1
      <4>3. /\ argv' \in Seq(Texts) /\ Len(argv') = Len(argv) /\ f \in 1..(optind - 1)
            /\ SubSeq(argv', f, e) = SubSeq(argv, nonoptStart, nonoptEnd - 1)
            /\ \A q \in optind..Len(argv') : argv'[q] = input.argv[q]
        <5>1. Shapes /\ pc = "tagged"
          BY <1>1 DEF Inv
        <5> QED BY <4>1, <4>2, <5>1, MovedBehind
      <4>4. Operands = SubSeq(argv', f, e)
        BY <3>4, <4>3 DEF Operands
      <4>5. Operands' = SubSeq(argv', f, e + 1)
        <5>1. nonoptStart' = f /\ f # 0 /\ optind' - 1 = optind /\ e + 1 = optind
          BY <1>1, <2>1, <4>1, <4>3
        <5> QED BY <4>1, <5>1 DEF Operands
      <4>6. e \in Nat /\ f \in Nat /\ f \in 1..(e + 1) /\ e + 1 \in 1..Len(argv') /\ e + 1 = optind
        BY <1>1, <2>1, <4>3
      <4>7. argv'[e + 1] = w
        <5>1. optind \in optind..Len(argv')
          BY <1>1, <2>1, <4>3
        <5> QED BY <2>1, <4>3, <4>6, <5>1
      <4> HIDE DEF e, f, w
      <4>8. SubSeq(argv', f, e + 1) = Append(SubSeq(argv', f, e), argv'[e + 1])
        BY <4>3, <4>6, OneMore
      <4> QED BY <4>4, <4>5, <4>7, <4>8
    <3>5. CASE nonoptStart # 0 /\ nonoptEnd = 0
      <4>1. nonoptStart' = nonoptStart /\ nonoptEnd' = nonoptEnd /\ argv' = argv
        BY <3>5 DEF PassOperand
      <4> DEFINE e == optind - 1
                 f == nonoptStart
                 a == argv
      <4>2. e \in Nat /\ f \in Nat /\ f \in 1..(e + 1) /\ e + 1 \in 1..Len(a) /\ e + 1 = optind /\ a \in Seq(Texts)
        BY <1>1, <2>1, <3>1, <3>5
      <4>3. Operands = SubSeq(a, f, e)
        BY <3>5 DEF Operands
      <4>4. Operands' = SubSeq(a, f, e + 1)
        <5>1. optind' - 1 = optind
          BY <1>1, <2>1
        <5> QED BY <3>5, <4>1, <4>2, <5>1 DEF Operands
      <4>5. a[e + 1] = w
        BY <4>2
      <4> HIDE DEF a, e, f, w
      <4>6. SubSeq(a, f, e + 1) = Append(SubSeq(a, f, e), a[e + 1])
        BY <4>2, OneMore
      <4> QED BY <4>3, <4>4, <4>5, <4>6
    <3> QED BY <3>3, <3>4, <3>5
  <2>6. Before' = r
    <3>1. optind' - 1 = optind
      BY <1>1, <2>1
    <3> QED BY <1>1, <1>2, <3>1 DEF Before
  <2> HIDE DEF r, w
  <2>7. AsRead(Before)'
    BY <1>1, <1>2, <2>2, <2>4, <2>5, <2>6 DEF AsRead
  <2>8. Agrees'
    BY <1>1, <2>7 DEF Agrees
  <2> QED BY <1>1, <1>2, <1>4, <2>8 DEF Inv
<1> QED BY <1>3, <1>4

\* The words from f to the end are known by how many they are.
LEMMA RestOf ==
    ASSUME NEW a \in Seq(Texts), NEW f \in 1..(Len(a) + 1)
    PROVE  /\ (Len(a) + 1) - Len(SubSeq(a, f, Len(a))) = f
           /\ SubSeq(a, f, f - 1) = <<>>
<1> DEFINE N == Len(a)
           s == SubSeq(a, f, N)
           e == f - 1
<1>1. N \in Nat /\ f \in Nat /\ f \in 1..(N + 1) /\ e \in Nat /\ f = e + 1
  OBVIOUS
<1>2. Len(s) = (N - f) + 1
  <2>1. CASE f <= N
    <3>1. \A i \in f..N : a[i] \in Texts
      BY <1>1
    <3>2. Len(s) = N - f + 1
      BY <1>1, <2>1, <3>1, SubSeqProperties
    <3> QED BY <1>1, <3>2
  <2>2. CASE f = N + 1
    <3>1. s = <<>>
      BY <1>1, <2>2, SubSeqEmpty
    <3>2. Len(<<>>) = 0
      OBVIOUS
    <3> HIDE DEF s, N
    <3>3. Len(s) = 0
      BY <3>1, <3>2
    <3> QED BY <1>1, <2>2, <3>3
  <2> QED BY <1>1, <2>1, <2>2
<1>3. SubSeq(a, f, e) = <<>>
  BY <1>1, SubSeqEmpty
<1> HIDE DEF s, N
<1>4. (N + 1) - Len(s) = f
  BY <1>1, <1>2
<1> QED BY <1>3, <1>4 DEF s, N

\* The scan has left the operands where arg_parse_untagged will look for them.
LEMMA BeginsMatching ==
    ASSUME Inv, Shapes', pc = "tagged", pc' = "untagged", input' = input, tab' = 1, vals' = vals,
           errors' = errors, errors = <<>>, Whole.words = SubSeq(argv', optind', Len(argv')),
           ~Whole.bad, Whole.wants = 0, \A k \in Tagged(T) : vals[k] = Whole.vals[k]
    PROVE  Inv'
<1>1. Scanned /\ Len(T) \in Nat
  BY TheTable DEF Inv, Shapes
<1>2. T' = T /\ Whole' = Whole
  BY SameTable
<1>3. argv' \in Seq(Texts) /\ optind' \in 1..(Len(argv') + 1)
  BY DEF Shapes
<1> DEFINE a == argv'
           f == optind'
<1>4. (Len(a) + 1) - Len(SubSeq(a, f, Len(a))) = f /\ SubSeq(a, f, f - 1) = <<>>
  <2>1. a \in Seq(Texts) /\ f \in 1..(Len(a) + 1)
    BY <1>3
  <2> HIDE DEF a, f
  <2> QED BY <2>1, RestOf
<1>5. First' = f
  BY <1>2, <1>4 DEF First
<1>6. \A k \in (1..Len(T)) \ Tagged(T) : vals'[k] = SubSeq(a, f, f - 1) /\ tab' <= k
  <2>1. \A k \in (1..Len(T)) \ Tagged(T) : vals[k] = <<>>
    BY <1>1 DEF Scanned
  <2>2. \A k \in 1..Len(T) : 1 <= k
    BY <1>1
  <2> QED BY <1>4, <2>1, <2>2
<1>7. f \in 1..f
  BY <1>3
<1>8. Matched'
  BY <1>2, <1>5, <1>6, <1>7 DEF Matched
<1> QED BY <1>2, <1>8 DEF Inv

LEMMA InvAtNoMoreWords ==
    ASSUME Inv, NoMoreWords
    PROVE  Inv'
<1>1. /\ pc = "tagged" /\ place = <<>> /\ ~(optind <= Len(argv)) /\ pc' = "untagged" /\ tab' = 1
      /\ input' = input /\ vals' = vals /\ errors' = errors
      /\ argv' = (IF nonoptEnd # 0 THEN PermuteArgs(nonoptStart, nonoptEnd, optind, argv) ELSE argv)
      /\ optind' = (IF nonoptEnd # 0 THEN optind - (nonoptEnd - nonoptStart)
                    ELSE IF nonoptStart # 0 THEN nonoptStart ELSE optind)
  BY DEF NoMoreWords, EndScan, Scanning, More
<1>2. Shapes' /\ T' = T /\ Whole' = Whole
  <2>1. Shapes
    BY DEF Inv
  <2> QED BY <1>1, <2>1, ShapesAtNoMoreWords, SameTable
<1>3. CASE errors # <<>>
  BY <1>1, <1>2, <1>3 DEF Inv
<1>4. CASE errors = <<>>
  <2>1. /\ Shapes /\ Scanned /\ argv \in Seq(Texts) /\ Len(argv) = Len(input.argv)
        /\ Len(argv) \in Nat /\ optind \in 1..(Len(argv) + 1) /\ optind \in Nat
    BY <1>1, <1>4, AtWord
  <2>2. /\ Before = Read(T, input.argv, optind - 1) /\ (\A k \in Tagged(T) : vals[k] = Before.vals[k])
        /\ Before.words = Operands /\ ~Before.bad /\ ~Before.only /\ Before.wants = 0
    BY <1>1, <1>4, AtWord
  <2>3. optind = Len(argv) + 1 /\ optind - 1 = Len(argv)
    BY <1>1, <2>1
  <2>4. Whole = Before
    BY <2>1, <2>2, <2>3 DEF Whole, Meant
  <2>5. /\ nonoptStart \in 0..(optind - 1) /\ nonoptEnd \in 0..optind
        /\ nonoptEnd # 0 => nonoptStart \in 1..(nonoptEnd - 1)
        /\ nonoptEnd = optind => AtOption
    BY <2>1 DEF Scanned
  <2>6. nonoptEnd # optind
    BY <1>1, <2>5 DEF AtOption
  <2>7. Operands = SubSeq(argv', optind', Len(argv'))
    <3>1. CASE nonoptEnd # 0
      <4>1. /\ nonoptStart # 0 /\ nonoptEnd \in Nat /\ optind \in Nat /\ nonoptStart < nonoptEnd /\ nonoptEnd < optind
            /\ optind <= Len(argv) + 1 /\ optind >= optind
        BY <2>1, <2>5, <2>6, <3>1
      <4>2. /\ Len(argv') = Len(argv)
            /\ SubSeq(argv', optind - (nonoptEnd - nonoptStart), optind - 1) = SubSeq(argv, nonoptStart, nonoptEnd - 1)
        BY <1>1, <2>1, <3>1, <4>1, MovedBehind
      <4>3. Operands = SubSeq(argv, nonoptStart, nonoptEnd - 1)
        BY <3>1, <4>1 DEF Operands
      <4>4. optind' = optind - (nonoptEnd - nonoptStart)
        BY <1>1, <3>1
      <4> QED BY <2>3, <4>2, <4>3, <4>4
    <3>2. CASE nonoptEnd = 0 /\ nonoptStart # 0
      BY <1>1, <2>3, <3>2 DEF Operands
    <3>3. CASE nonoptEnd = 0 /\ nonoptStart = 0
      <4>1. Operands = <<>> /\ argv' = argv /\ optind' = optind
        BY <1>1, <3>3 DEF Operands
      <4> DEFINE e == Len(argv)
      <4>2. e \in Nat /\ optind \in Nat /\ e + 1 = optind /\ e < optind
        BY <2>1, <2>3
      <4> HIDE DEF e
      <4>3. SubSeq(argv, optind, e) = <<>>
        BY <2>1, <4>2, SubSeqEmpty
      <4> QED BY <4>1, <4>3 DEF e
    <3> QED BY <3>1, <3>2, <3>3
  <2> QED BY <1>1, <1>2, <1>4, <2>2, <2>4, <2>7, BeginsMatching
<1> QED BY <1>3, <1>4

LEMMA InvAtDashDash ==
    ASSUME Inv, DashDash
    PROVE  Inv'
<1> DEFINE end == RunEnds
           last == optind + 1
<1>1. /\ pc = "tagged" /\ place = <<>> /\ optind <= Len(argv) /\ pc' = "untagged" /\ tab' = 1
      /\ input' = input /\ vals' = vals /\ errors' = errors /\ argv[optind] = <<"-", "-">>
      /\ argv' = (IF end # 0 THEN PermuteArgs(nonoptStart, end, last, argv) ELSE argv)
      /\ optind' = (IF end # 0 THEN optind + 1 - (end - nonoptStart) ELSE last)
  BY DEF DashDash, Scanning, More
<1>2. Shapes' /\ T' = T /\ Whole' = Whole
  <2>1. Shapes
    BY DEF Inv
  <2> QED BY <1>1, <2>1, ShapesAtDashDash, SameTable
<1>3. CASE errors # <<>>
  BY <1>1, <1>2, <1>3 DEF Inv
<1>4. CASE errors = <<>>
  <2>1. /\ Shapes /\ Scanned /\ argv \in Seq(Texts) /\ Len(argv) = Len(input.argv)
        /\ Len(argv) \in Nat /\ optind \in 1..(Len(argv) + 1) /\ optind \in Nat
        /\ argv[optind] = input.argv[optind]
    BY <1>1, <1>4, AtWord
  <2>2. /\ Before = Read(T, input.argv, optind - 1) /\ (\A k \in Tagged(T) : vals[k] = Before.vals[k])
        /\ Before.words = Operands /\ ~Before.bad /\ ~Before.only /\ Before.wants = 0
        /\ Before \in Readings(T)
    BY <1>1, <1>4, AtWord
  <2>3. input.argv \in Seq(Texts) /\ Len(T) \in Nat /\ (\A k \in 1..Len(T) : T[k].max \in Nat)
    BY <1>1, <1>4, AtWord
  <2> DEFINE t == T
             ws == input.argv
             i == optind
             b == Before
             r == Read(t, ws, i)
             a == argv'
             f == optind'
  <2>4. i \in 1..Len(ws) /\ i \in 0..Len(ws) /\ last \in Nat /\ last <= Len(argv) + 1 /\ last >= optind
        /\ last - 1 = optind
    BY <1>1, <2>1
  <2>5. r = [b EXCEPT !.only = TRUE]
    <3>1. /\ Len(t) \in Nat /\ ws \in Seq(Texts) /\ i \in 1..Len(ws) /\ b = Read(t, ws, i - 1)
          /\ ws[i] = <<"-", "-">> /\ b.wants = 0 /\ ~b.only
          /\ \A k \in 1..Len(t) : t[k].max \in Nat
      BY <1>1, <2>1, <2>2, <2>3, <2>4
    <3>2. IsOption(<<"-", "-">>)
      BY DEF IsOption
    <3> HIDE DEF t, ws, i, b
    <3>3. Read(t, ws, i) = ReadWord(t, Read(t, ws, i - 1), ws[i])
      BY <3>1, NextRead
    <3> QED BY <3>1, <3>2, <3>3 DEF ReadWord
  <2> HIDE DEF b, r
  <2>6. r.only /\ r.wants = 0 /\ ~r.bad /\ r.vals = b.vals /\ r.words = Operands
    BY <2>2, <2>5 DEF Readings, b
  <2>7. /\ argv' \in Seq(Texts) /\ Len(argv') = Len(argv) /\ optind' \in 1..last
        /\ Operands = SubSeq(argv', optind', optind)
        /\ \A q \in last..Len(argv) : argv'[q] = input.argv[q]
    <3>1. /\ nonoptStart \in 0..(optind - 1) /\ nonoptEnd \in 0..optind
          /\ nonoptEnd # 0 => nonoptStart \in 1..(nonoptEnd - 1)
          /\ \A q \in optind..Len(argv) : argv[q] = input.argv[q]
      BY <2>1 DEF Scanned
    <3>2. CASE end # 0
      <4>1. nonoptStart # 0 /\ nonoptStart < end /\ end \in 2..optind
        BY <2>1, <3>1, <3>2 DEF RunEnds
      <4>2. end \in Nat /\ end < last
        BY <2>1, <2>4, <4>1
      <4>3. argv' = PermuteArgs(nonoptStart, end, last, argv) /\ optind' = last - (end - nonoptStart)
        <5>1. argv' = PermuteArgs(nonoptStart, end, last, argv) /\ optind' = optind + 1 - (end - nonoptStart)
          BY <1>1, <3>2
        <5>2. optind \in Nat /\ end \in Nat /\ nonoptStart \in Nat
          BY <2>1, <3>1, <4>2
        <5> HIDE DEF end
        <5>3. optind + 1 - (end - nonoptStart) = (optind + 1) - (end - nonoptStart)
          BY <5>2
        <5> QED BY <5>1, <5>3
      <4>4. Operands = SubSeq(argv, nonoptStart, end - 1)
        <5>1. end = IF nonoptEnd = 0 THEN optind ELSE nonoptEnd
          BY <4>1 DEF RunEnds
        <5> HIDE DEF end
        <5> QED BY <4>1, <5>1 DEF Operands
      <4>a. Shapes /\ pc = "tagged" /\ last \in Nat /\ last <= Len(argv) + 1 /\ last >= optind
        BY <1>1, <2>1, <2>4
      <4>b. argv' = PermuteArgs(nonoptStart, end, last, argv)
        BY <4>3
      <4> HIDE DEF end, last, t, ws, i, a, f
      <4>5. /\ argv' \in Seq(Texts) /\ Len(argv') = Len(argv)
            /\ last - (end - nonoptStart) \in 1..(last - 1)
            /\ SubSeq(argv', last - (end - nonoptStart), last - 1) = SubSeq(argv, nonoptStart, end - 1)
            /\ \A q \in last..Len(argv') : argv'[q] = input.argv[q]
        BY <4>a, <4>b, <4>1, <4>2, MovedBehind
      <4>6. optind' \in 1..last
        BY <2>4, <4>3, <4>5
      <4> QED BY <2>4, <4>3, <4>4, <4>5, <4>6
    <3>3. CASE end = 0
      <4>1. nonoptStart = 0 /\ argv' = argv /\ optind' = last
        BY <1>1, <2>1, <3>1, <3>3 DEF RunEnds
      <4>2. Operands = <<>>
        BY <4>1 DEF Operands
      <4>3. optind < last /\ last \in 1..last /\ \A q \in last..Len(argv) : q \in optind..Len(argv)
        BY <2>1
      <4>5. optind' \in 1..last
        BY <4>1, <4>3
      <4>6. \A q \in last..Len(argv) : argv'[q] = input.argv[q]
        BY <3>1, <4>1, <4>3
      <4>4. SubSeq(argv, last, optind) = <<>>
        <5> HIDE DEF last
        <5> QED BY <2>1, <2>4, <4>3, SubSeqEmpty
      <4>7. argv' \in Seq(Texts) /\ Len(argv') = Len(argv)
        BY <2>1, <4>1
      <4>8. Operands = SubSeq(argv', optind', optind)
        BY <4>1, <4>2, <4>4
      <4> HIDE DEF last
      <4> QED BY <4>5, <4>6, <4>7, <4>8
    <3> QED BY <3>2, <3>3
  <2>8. /\ Whole.words = SubSeq(argv', optind', Len(argv')) /\ Whole.vals = b.vals
        /\ Whole.wants = 0 /\ ~Whole.bad
    <3>1. /\ Len(t) \in Nat /\ (\A k \in 1..Len(t) : t[k].max \in Nat) /\ ws \in Seq(Texts) /\ i \in 0..Len(ws)
          /\ r = Read(t, ws, i) /\ a \in Seq(Texts) /\ Len(a) = Len(ws)
          /\ (\A q \in (i + 1)..Len(ws) : a[q] = ws[q]) /\ f \in 1..(i + 1) /\ r.words = SubSeq(a, f, i)
      BY <2>1, <2>3, <2>4, <2>6, <2>7 DEF r
    <3>2. Whole = Meant(t, ws)
      BY DEF Whole
    <3> HIDE DEF t, ws, i, a, f
    <3>4. ThenOperands(t, ws, i, r, a, f)
      BY <2>6, <3>1 DEF ThenOperands
    <3>3. /\ Meant(t, ws).words = SubSeq(a, f, Len(a)) /\ Meant(t, ws).vals = r.vals
          /\ Meant(t, ws).wants = 0 /\ Meant(t, ws).bad = r.bad
      BY <3>4, OperandsFollow
    <3> QED BY <2>6, <3>2, <3>3 DEF a, f
  <2> QED BY <1>1, <1>2, <1>4, <2>2, <2>8, BeginsMatching DEF b
<1> QED BY <1>3, <1>4

\* What fits to the end fits so far.
LEMMA FitsBefore ==
    ASSUME NEW e, e.max \in Nat, NEW a \in Seq(Texts), NEW i \in 0..Len(a), NEW f \in 1..(i + 1),
           FitsSoFar(e, SubSeq(a, f, Len(a)))
    PROVE  FitsSoFar(e, SubSeq(a, f, i))
<1> DEFINE N == Len(a)
           s == SubSeq(a, f, N)
           p == SubSeq(a, f, i)
<1>1. N \in Nat /\ i \in Nat /\ i <= N /\ f \in Nat /\ f \in 1..(N + 1) /\ f \in 1..(i + 1)
  OBVIOUS
<1>2. CASE f <= i
  <2>1. (\A q \in f..N : a[q] \in Texts) /\ \A q \in f..i : a[q] \in Texts
    BY <1>1
  <2>2. s \in Seq(Texts) /\ Len(s) = N - f + 1 /\ \A q \in 1..(N - f + 1) : s[q] = a[f + q - 1]
    BY <1>1, <1>2, <2>1, SubSeqProperties
  <2>3. p \in Seq(Texts) /\ Len(p) = i - f + 1 /\ \A q \in 1..(i - f + 1) : p[q] = a[f + q - 1]
    BY <1>1, <1>2, <2>1, SubSeqProperties
  <2> HIDE DEF s, p, N
  <2>4. Len(p) <= Len(s) /\ \A q \in 1..Len(p) : q \in 1..Len(s) /\ p[q] = s[q]
    BY <1>1, <1>2, <2>2, <2>3
  <2>5. Range(p) \subseteq Range(s)
    <3>1. DOMAIN p = 1..Len(p) /\ DOMAIN s = 1..Len(s)
      BY <2>2, <2>3
    <3>2. Range(p) = {p[q] : q \in 1..Len(p)} /\ Range(s) = {s[q] : q \in 1..Len(s)}
      BY <3>1 DEF Range
    <3> QED BY <2>4, <3>2
  <2>6. FitsSoFar(e, s)
    BY DEF s, N
  <2>7. Len(p) <= e.max
    <3>1. Len(s) <= e.max /\ Len(p) \in Nat /\ Len(s) \in Nat
      BY <2>2, <2>3, <2>6 DEF FitsSoFar
    <3> QED BY <2>4, <3>1
  <2>8. FitsSoFar(e, p)
    BY <2>5, <2>6, <2>7 DEF FitsSoFar
  <2> QED BY <2>8 DEF p
<1>3. CASE i < f
  <2>1. p = <<>>
    BY <1>1, <1>3, SubSeqEmpty
  <2>2. Len(<<>>) = 0 /\ DOMAIN <<>> = {}
    OBVIOUS
  <2>3. Range(<<>>) = {}
    BY <2>2 DEF Range
  <2>4. FitsSoFar(e, <<>>)
    BY <2>2, <2>3 DEF FitsSoFar
  <2> QED BY <2>1, <2>4
<1> QED BY <1>1, <1>2, <1>3

\* What MatchOperand comes to, as a table has one entry for operands at most.
NoMoreOperands == optind > Len(argv) /\ pc' = "check" /\ UNCHANGED <<optind, tab, vals, errors>>
NoEntryLeft ==
  optind <= Len(argv) /\ tab = Len(T) + 1 /\ Wrong("ENOMATCH") /\ optind' = optind + 1 /\ UNCHANGED <<pc, tab>>
PassesOption ==
  optind <= Len(argv) /\ tab \in Tagged(T) /\ tab' = tab + 1 /\ UNCHANGED <<pc, optind, vals, errors>>
TakesOperand ==
  /\ optind <= Len(argv) /\ tab \in (1..Len(T)) \ Tagged(T)
  /\ Scan(tab, argv[optind], errors) /\ optind' = optind + 1 /\ pc' = pc
  /\ tab' = tab \/ (tab' = tab + 1 /\ ScanError(tab, argv[optind]) # {})

LEMMA MatchIs ==
    ASSUME Shapes, MatchOperand
    PROVE  NoMoreOperands \/ NoEntryLeft \/ PassesOption \/ TakesOperand
<1>1. /\ Len(T) \in Nat /\ tab \in 1..(Len(T) + 1) /\ optind \in Nat /\ Len(argv) \in Nat
      /\ \A j, k \in (1..Len(T)) \ Tagged(T) : j = k
  BY TheTable DEF Shapes
<1> DEFINE last == tab < Len(T) /\ \E k \in (tab + 1)..Len(T) : T[k].l = ""
<1>2. IF ~More THEN pc' = "check" /\ UNCHANGED <<optind, tab, vals, errors>>
     ELSE IF tab > Len(T)
     THEN Wrong("ENOMATCH") /\ optind' = optind + 1 /\ UNCHANGED <<pc, tab>>
     ELSE IF T[tab].l # "" THEN tab' = tab + 1 /\ UNCHANGED <<pc, optind, vals, errors>>
     ELSE IF ScanError(tab, argv[optind]) = {}
     THEN Scan(tab, argv[optind], errors) /\ optind' = optind + 1 /\ UNCHANGED <<pc, tab>>
     ELSE /\ tab' = tab + 1
          /\ IF last
             THEN UNCHANGED <<optind, vals, errors>>
             ELSE Scan(tab, argv[optind], errors) /\ optind' = optind + 1
          /\ UNCHANGED pc
  BY DEF MatchOperand
<1> DEFINE n == Len(T)
<1>a. n \in Nat /\ tab \in 1..(n + 1) /\ tab \in Nat
  BY <1>1
<1> HIDE DEF n
<1>b. /\ tab > n => tab = n + 1
      /\ ~(tab > n) => tab \in 1..n
      /\ \A k \in (tab + 1)..n : k \in 1..n /\ k # tab
  BY <1>a
<1>3. CASE ~More
  BY <1>1, <1>2, <1>3 DEF NoMoreOperands, More
<1>4. CASE More /\ tab > Len(T)
  <2>1. tab = Len(T) + 1
    BY <1>b, <1>4 DEF n
  <2> QED BY <1>2, <1>4, <2>1 DEF NoEntryLeft, More
<1>5. CASE More /\ ~(tab > Len(T)) /\ T[tab].l # ""
  <2>1. tab \in Tagged(T)
    BY <1>b, <1>5 DEF Tagged, n
  <2> QED BY <1>2, <1>5, <2>1 DEF PassesOption, More
<1>6. CASE More /\ ~(tab > Len(T)) /\ T[tab].l = ""
  <2>1. tab \in (1..Len(T)) \ Tagged(T)
    BY <1>b, <1>6 DEF Tagged, n
  <2>2. ~last
    <3> SUFFICES ASSUME NEW k \in (tab + 1)..Len(T), T[k].l = "" PROVE FALSE
      OBVIOUS
    <3>1. k \in (1..Len(T)) \ Tagged(T) /\ k # tab
      BY <1>b DEF Tagged, n
    <3> QED BY <1>1, <2>1, <3>1
  <2> HIDE DEF last
  <2>3. CASE ScanError(tab, argv[optind]) = {}
    BY <1>2, <1>6, <2>1, <2>3 DEF TakesOperand, More
  <2>4. CASE ScanError(tab, argv[optind]) # {}
    BY <1>2, <1>6, <2>1, <2>2, <2>4 DEF TakesOperand, More
  <2> QED BY <2>3, <2>4
<1> QED BY <1>3, <1>4, <1>5, <1>6

LEMMA ShapesAtMatchOperand ==
    ASSUME Shapes, MatchOperand
    PROVE  Shapes'
<1>1. /\ pc = "untagged" /\ input' = input /\ argv' = argv /\ place' = place
      /\ nonoptStart' = nonoptStart /\ nonoptEnd' = nonoptEnd
  BY DEF MatchOperand
<1>2. /\ input \in Inputs /\ argv \in Seq(Texts) /\ Len(argv) = Len(input.argv)
      /\ optind \in 1..(Len(argv) + 1) /\ place \in Texts /\ tab \in 1..(Len(T) + 1)
      /\ Stored /\ Remembered /\ nonoptStart = 0 /\ nonoptEnd = 0 /\ place = <<>>
  BY <1>1 DEF Shapes
<1>3. Len(T) \in Nat /\ T' = T /\ Len(argv) \in Nat
  BY <1>1, <1>2, TheTable, SameTable
<1>4. \A k \in Tagged(T) : k \in 1..Len(T)
  BY DEF Tagged
<1>5. /\ Stored' /\ Remembered' /\ optind' \in 1..(Len(argv) + 1) /\ tab' \in 1..(Len(T) + 1)
      /\ pc' \in {"untagged", "check"}
  <2>1. CASE NoMoreOperands
    BY <1>2, <1>3, <2>1 DEF NoMoreOperands, Stored, Remembered
  <2>2. CASE NoEntryLeft
    <3>1. optind' \in 1..(Len(argv) + 1) /\ tab' = tab /\ pc' = pc /\ Wrong("ENOMATCH")
      BY <1>2, <1>3, <2>2 DEF NoEntryLeft
    <3>2. errors' \in Seq(Errs) /\ Len(errors') <= ArgEnd /\ vals' = vals
      <4>1. "ENOMATCH" \in Errs
        BY DEF Errs
      <4> QED BY <1>2, <3>1, <4>1, WrongIs
    <3> QED BY <1>1, <1>2, <1>3, <3>1, <3>2 DEF Stored, Remembered
  <2>3. CASE PassesOption
    <3>1. tab' \in 1..(Len(T) + 1)
      BY <1>3, <1>4, <2>3 DEF PassesOption
    <3> QED BY <1>1, <1>2, <1>3, <2>3, <3>1 DEF PassesOption, Stored, Remembered
  <2>4. CASE TakesOperand
    <3>1. /\ optind' \in 1..(Len(argv) + 1) /\ tab' \in 1..(Len(T) + 1) /\ pc' = pc
          /\ argv[optind] \in Texts /\ tab \in 1..Len(T) /\ Scan(tab, argv[optind], errors)
          /\ errors \in Seq(Errs) /\ Len(errors) <= ArgEnd
      BY <1>2, <1>3, <2>4 DEF TakesOperand, Remembered
    <3>2. Outcomes(tab, argv[optind], errors)
      BY <1>2, <3>1, ScanIs
    <3> QED BY <1>1, <1>3, <3>1, <3>2 DEF Outcomes, Stored, Remembered
  <2> QED BY <2>1, <2>2, <2>3, <2>4, MatchIs
<1> QED BY <1>1, <1>2, <1>3, <1>5 DEF Shapes

\* The entries that have too few values: the one for operands, if any.
LEMMA TooFewIs ==
    ASSUME Shapes
    PROVE  /\ TooFew \subseteq (1..Len(T)) \ Tagged(T)
           /\ TooFew = {} \/ (Cardinality(TooFew) = 1 /\ TooFew # {})
           /\ Cardinality({}) = 0
<1>1. /\ \A k \in 1..Len(T) : T[k].max \in Nat /\ T[k].min \in Nat
      /\ \A k \in Tagged(T) : k \in 1..Len(T) /\ T[k].min = 0
      /\ \A j, k \in (1..Len(T)) \ Tagged(T) : j = k
  BY TheTable DEF Shapes
<1>2. \A k \in 1..Len(T) : Len(vals[k]) \in Nat
  BY DEF Shapes, Stored
<1>3. TooFew \subseteq (1..Len(T)) \ Tagged(T)
  <2> SUFFICES ASSUME NEW k \in TooFew, k \in Tagged(T) PROVE FALSE
    BY DEF TooFew
  <2>1. k \in 1..Len(T) /\ Len(vals[k]) < T[k].min
    BY DEF TooFew
  <2> QED BY <1>1, <1>2, <2>1
<1>4. Cardinality({}) = 0
  BY FS_EmptySet
<1>5. CASE TooFew # {}
  <2>1. PICK k : k \in TooFew
    BY <1>5
  <2> DEFINE S == TooFew
  <2>2. \A j \in S : j = k
    BY <1>1, <1>3, <2>1
  <2> HIDE DEF S
  <2>3. S = {k}
    BY <2>1, <2>2 DEF S
  <2>4. Cardinality({k}) = 1
    BY FS_Singleton
  <2> QED BY <1>3, <1>4, <1>5, <2>3, <2>4 DEF S
<1> QED BY <1>3, <1>4, <1>5

LEMMA ShapesAtCheck ==
    ASSUME Shapes, Check
    PROVE  /\ Shapes' /\ (errors # <<>> => errors' # <<>>)
           /\ errors = <<>> => (errors' = <<>> <=> TooFew = {})
<1>1. /\ pc = "check" /\ pc' = "done" /\ input' = input /\ argv' = argv /\ optind' = optind /\ place' = place
      /\ nonoptStart' = nonoptStart /\ nonoptEnd' = nonoptEnd /\ tab' = tab /\ vals' = vals
      /\ errors' = IF errors = <<>> THEN [i \in 1..Cardinality(TooFew) |-> "EMINCOUNT"] ELSE errors
  BY DEF Check
<1>2. T' = T
  BY <1>1, SameTable
<1>3. ArgEnd \in Nat /\ ArgEnd >= 1 /\ errors \in Seq(Errs) /\ Len(errors) <= ArgEnd
  BY ArgumentsAssumption DEF Shapes, Remembered
<1>4. /\ errors' \in Seq(Errs) /\ Len(errors') <= ArgEnd
      /\ errors = <<>> => (errors' = <<>> <=> TooFew = {})
  <2>1. CASE errors # <<>>
    BY <1>1, <1>3, <2>1
  <2>2. CASE errors = <<>>
    <3> DEFINE n == Cardinality(TooFew)
               s == [i \in 1..n |-> "EMINCOUNT"]
    <3>1. errors' = s
      BY <1>1, <2>2
    <3>2. (TooFew = {} /\ n = 0) \/ (TooFew # {} /\ n = 1)
      BY TooFewIs
    <3>3. "EMINCOUNT" \in Errs
      BY DEF Errs
    <3> HIDE DEF n
    <3>4. s \in Seq(Errs) /\ Len(s) = n
      BY <3>2, <3>3
    <3> HIDE DEF s
    <3>5. s = <<>> <=> n = 0
      BY <3>2, <3>4
    <3> QED BY <1>3, <3>1, <3>2, <3>4, <3>5
  <2> QED BY <2>1, <2>2
<1>5. Stored'
  BY <1>1, <1>2 DEF Shapes, Stored
<1>6. Remembered'
  BY <1>4 DEF Remembered
<1>7. Shapes'
  BY <1>1, <1>2, <1>5, <1>6 DEF Shapes
<1> QED BY <1>1, <1>4, <1>7

\* While the operands are matched and nothing is wrong.
LEMMA AtMatching ==
    ASSUME Inv, pc # "tagged", errors = <<>>
    PROVE  /\ Shapes /\ Matched /\ argv \in Seq(Texts) /\ Len(argv) \in Nat /\ optind \in 1..(Len(argv) + 1)
           /\ First \in 1..optind /\ Whole.words = SubSeq(argv, First, Len(argv))
           /\ Len(T) \in Nat /\ input \in Inputs
           /\ \A k \in 1..Len(T) : T[k].max \in Nat /\ T[k].min \in Nat
<1>1. Shapes /\ Matched /\ argv \in Seq(Texts) /\ optind \in 1..(Len(argv) + 1) /\ input \in Inputs
  BY DEF Inv, Shapes
<1>2. First \in 1..optind /\ Whole.words = SubSeq(argv, First, Len(argv))
  BY <1>1 DEF Matched
<1> QED BY <1>1, <1>2, TheTable

\* A command with operands but without an entry for them.
LEMMA NoEntryIsWrong ==
    ASSUME Inv, pc # "tagged", errors = <<>>, optind <= Len(argv), 1..Len(T) \subseteq Tagged(T)
    PROVE  ~Acceptable(T, Whole)
<1>1. optind = First /\ First = (Len(argv) + 1) - Len(Whole.words) /\ Len(argv) \in Nat
  BY AtMatching DEF Matched, First
<1>2. Whole.words # <<>>
  <2> SUFFICES ASSUME Whole.words = <<>> PROVE FALSE
    OBVIOUS
  <2>1. Len(<<>>) = 0
    OBVIOUS
  <2> QED BY <1>1, <2>1
<1>3. ~\E k \in 1..Len(T) : T[k].l = ""
  BY DEF Tagged
<1> QED BY <1>2, <1>3 DEF Acceptable

\* An operand that does not fit.
LEMMA MisfitIsWrong ==
    ASSUME Inv, pc # "tagged", errors = <<>>, optind <= Len(argv), NEW k \in (1..Len(T)) \ Tagged(T)
    PROVE  /\ Append(vals[k], argv[optind]) = SubSeq(argv, First, optind)
           /\ ~FitsSoFar(T[k], Append(vals[k], argv[optind])) => ~Acceptable(T, Whole)
<1> DEFINE a == argv
           f == First
           i == optind
           e == optind - 1
<1>1. /\ a \in Seq(Texts) /\ Len(a) \in Nat /\ i \in 1..(Len(a) + 1) /\ i <= Len(a) /\ f \in 1..i
      /\ Whole.words = SubSeq(a, f, Len(a)) /\ T[k].max \in Nat /\ vals[k] = SubSeq(a, f, e)
  BY AtMatching DEF Matched
<1>2. e \in Nat /\ f \in Nat /\ f \in 1..(e + 1) /\ e + 1 \in 1..Len(a) /\ e + 1 = i /\ i \in 0..Len(a) /\ f \in 1..(i + 1)
  BY <1>1
<1> HIDE DEF a, f, i, e
<1>3. SubSeq(a, f, e + 1) = Append(SubSeq(a, f, e), a[e + 1])
  BY <1>1, <1>2, OneMore
<1>4. Append(vals[k], a[i]) = SubSeq(a, f, i)
  BY <1>1, <1>2, <1>3
<1>5. ASSUME ~FitsSoFar(T[k], SubSeq(a, f, i)) PROVE ~Acceptable(T, Whole)
  <2> DEFINE t == T[k]
             s == SubSeq(a, f, Len(a))
  <2>1. ~FitsSoFar(t, s)
    <3> SUFFICES ASSUME FitsSoFar(t, s) PROVE FALSE
      OBVIOUS
    <3>1. t.max \in Nat /\ FitsSoFar(t, SubSeq(a, f, Len(a))) /\ ~FitsSoFar(t, SubSeq(a, f, i))
      BY <1>1, <1>5
    <3> HIDE DEF t
    <3>2. FitsSoFar(t, SubSeq(a, f, i))
      BY <1>1, <1>2, <3>1, FitsBefore
    <3> QED BY <3>1, <3>2
  <2>2. Values(T, Whole, k) = Whole.words /\ k \in 1..Len(T)
    BY DEF Values, Tagged
  <2>3. s \in Seq(Texts)
    <3>1. \A q \in f..Len(a) : a[q] \in Texts
      BY <1>1, <1>2
    <3> QED BY <1>1, <1>2, <3>1, SubSeqProperties
  <2> HIDE DEF s
  <2>4. ~Fits(t, s)
    <3>1. Len(s) \in Nat /\ t.max \in Nat /\ t.min \in Nat
      BY <2>2, <2>3, AtMatching
    <3> HIDE DEF t
    <3> QED BY <2>1, <3>1 DEF Fits, FitsSoFar
  <2> QED BY <1>1, <2>2, <2>4 DEF Acceptable, s
<1> QED BY <1>4, <1>5 DEF a, f, i, e

LEMMA InvAtMatchOperand ==
    ASSUME Inv, MatchOperand
    PROVE  Inv'
<1>1. pc = "untagged" /\ input' = input /\ argv' = argv
  BY DEF MatchOperand
<1>2. Shapes /\ Shapes' /\ T' = T /\ Whole' = Whole
  <2>1. Shapes
    BY DEF Inv
  <2> QED BY <1>1, <2>1, ShapesAtMatchOperand, SameTable
<1>3. NoMoreOperands \/ NoEntryLeft \/ PassesOption \/ TakesOperand
  BY <1>2, MatchIs
<1>4. /\ pc' # "tagged" /\ pc' # "done"
      /\ errors # <<>> => errors' # <<>>
  <2>1. CASE NoMoreOperands
    BY <2>1 DEF NoMoreOperands
  <2>2. CASE NoEntryLeft
    <3>1. "ENOMATCH" \in Errs /\ Remembered /\ Wrong("ENOMATCH") /\ pc' = pc
      BY <1>2, <2>2 DEF Errs, Shapes, NoEntryLeft
    <3>2. errors' # <<>>
      BY <3>1, WrongIs
    <3> QED BY <1>1, <3>1, <3>2
  <2>3. CASE PassesOption
    BY <1>1, <2>3 DEF PassesOption
  <2>4. CASE TakesOperand
    <3>1. /\ pc' = pc /\ argv[optind] \in Texts /\ tab \in 1..Len(T) /\ Scan(tab, argv[optind], errors)
          /\ errors \in Seq(Errs) /\ Len(errors) <= ArgEnd /\ input \in Inputs /\ Stored
      <4>1. optind \in 1..(Len(argv) + 1) /\ argv \in Seq(Texts) /\ optind <= Len(argv)
        BY <1>2, <2>4 DEF Shapes, TakesOperand
      <4>2. argv[optind] \in Texts
        BY <4>1
      <4> QED BY <1>2, <2>4, <4>2 DEF Shapes, TakesOperand, Remembered
    <3>2. Outcomes(tab, argv[optind], errors)
      BY <3>1, ScanIs
    <3> QED BY <1>1, <3>1, <3>2 DEF Outcomes
  <2> QED BY <1>3, <2>1, <2>2, <2>3, <2>4
<1>5. CASE errors # <<>>
  BY <1>2, <1>4, <1>5 DEF Inv
<1>6. CASE errors = <<>>
  <2>1. /\ Matched /\ argv \in Seq(Texts) /\ Len(argv) \in Nat /\ optind \in 1..(Len(argv) + 1)
        /\ First \in 1..optind /\ Len(T) \in Nat /\ input \in Inputs
    BY <1>1, <1>6, AtMatching
  <2>2. First' = First
    BY <1>1, <1>2 DEF First
  <2>3. CASE NoMoreOperands
    <3>1. optind' = optind /\ tab' = tab /\ vals' = vals /\ errors' = errors /\ pc' = "check" /\ optind > Len(argv)
      BY <2>3 DEF NoMoreOperands
    <3>2. optind' = Len(argv') + 1
      BY <1>1, <2>1, <3>1
    <3>3. Matched'
      BY <1>1, <1>2, <2>1, <2>2, <3>1 DEF Matched
    <3> QED BY <1>2, <1>6, <3>1, <3>2, <3>3 DEF Inv
  <2>4. CASE NoEntryLeft
    <3>1. optind <= Len(argv) /\ tab = Len(T) + 1 /\ Wrong("ENOMATCH")
      BY <2>4 DEF NoEntryLeft
    <3>2. errors' # <<>>
      <4>1. "ENOMATCH" \in Errs /\ Remembered
        BY <1>2 DEF Errs, Shapes
      <4> QED BY <3>1, <4>1, WrongIs
    <3>3. 1..Len(T) \subseteq Tagged(T)
      <4>1. \A k \in (1..Len(T)) \ Tagged(T) : tab <= k
        BY <2>1 DEF Matched
      <4>2. \A k \in 1..Len(T) : ~(tab <= k)
        BY <2>1, <3>1
      <4> QED BY <4>1, <4>2
    <3>4. ~Acceptable(T, Whole)
      BY <1>1, <1>6, <3>1, <3>3, NoEntryIsWrong
    <3> QED BY <1>2, <1>4, <3>2, <3>4 DEF Inv
  <2>5. CASE PassesOption
    <3>1. /\ tab \in Tagged(T) /\ tab' = tab + 1
          /\ optind' = optind /\ vals' = vals /\ errors' = errors /\ pc' = pc
      BY <2>5 DEF PassesOption
    <3>2. \A k \in (1..Len(T)) \ Tagged(T) : tab' <= k
      <4> SUFFICES ASSUME NEW k \in (1..Len(T)) \ Tagged(T) PROVE tab' <= k
        OBVIOUS
      <4>1. tab <= k /\ tab # k
        BY <2>1, <3>1 DEF Matched
      <4>2. tab \in Nat /\ k \in Nat
        BY <1>2, <2>1 DEF Shapes
      <4> QED BY <3>1, <4>1, <4>2
    <3>3. Matched'
      BY <1>1, <1>2, <2>1, <2>2, <3>1, <3>2 DEF Matched
    <3> QED BY <1>1, <1>2, <1>6, <3>1, <3>3 DEF Inv
  <2>6. CASE TakesOperand
    <3> DEFINE w == argv[optind]
    <3>1. /\ pc' = pc /\ tab \in (1..Len(T)) \ Tagged(T) /\ Scan(tab, w, errors)
          /\ optind <= Len(argv) /\ optind' = optind + 1 /\ w \in Texts
          /\ errors \in Seq(Errs) /\ Len(errors) <= ArgEnd /\ input \in Inputs /\ Stored
          /\ tab' = tab \/ (tab' = tab + 1 /\ ScanError(tab, argv[optind]) # {})
      <4>1. optind <= Len(argv)
        BY <2>6 DEF TakesOperand
      <4>2. argv[optind] \in Texts
        BY <2>1, <4>1
      <4> QED BY <1>2, <2>6, <4>1, <4>2 DEF Shapes, TakesOperand, Remembered
    <3>2. Outcomes(tab, w, errors) /\ (ScanError(tab, w) = {} <=> FitsSoFar(T[tab], Append(vals[tab], w)))
      BY <3>1, ScanIs
    <3>3. Append(vals[tab], w) = SubSeq(argv, First, optind)
      BY <1>1, <1>6, <3>1, MisfitIsWrong
    <3>4. ~FitsSoFar(T[tab], Append(vals[tab], w)) => ~Acceptable(T, Whole)
      BY <1>1, <1>6, <3>1, MisfitIsWrong
    <3>5. CASE errors' # <<>>
      <4>1. ~FitsSoFar(T[tab], Append(vals[tab], w))
        BY <1>6, <3>2, <3>5 DEF Outcomes
      <4> QED BY <1>2, <1>4, <3>4, <3>5, <4>1 DEF Inv
    <3>6. CASE errors' = <<>>
      <4> DEFINE v == Append(vals[tab], w)
      <4>1. FitsSoFar(T[tab], v) /\ vals' = [vals EXCEPT ![tab] = v]
        BY <3>2, <3>6 DEF Outcomes
      <4>2. tab' = tab
        BY <3>1, <3>2, <4>1
      <4>3. v = SubSeq(argv', First', optind' - 1)
        <5>1. optind' - 1 = optind
          BY <2>1, <3>1
        <5> QED BY <1>1, <2>2, <3>3, <5>1
      <4>4. \A j, k \in (1..Len(T)) \ Tagged(T) : j = k
        BY <2>1, TheTable
      <4>5. vals \in [1..Len(T) -> Seq(Texts)] /\ \A k \in Tagged(T) : k \in 1..Len(T) /\ k # tab
        BY <3>1 DEF Stored, Tagged
      <4> HIDE DEF v
      <4>6. \A k \in Tagged(T) : vals'[k] = vals[k]
        BY <4>1, <4>5
      <4>7. vals'[tab] = v
        BY <3>1, <4>1, <4>5
      <4>8. \A k \in (1..Len(T)) \ Tagged(T) : k = tab
        BY <3>1, <4>4
      <4>9. tab \in Nat /\ First' \in 1..optind'
        BY <1>2, <2>1, <2>2, <3>1 DEF Shapes
      <4>10. \A k \in (1..Len(T)) \ Tagged(T) : vals'[k] = SubSeq(argv', First', optind' - 1) /\ tab' <= k
        BY <4>2, <4>3, <4>7, <4>8, <4>9
      <4>11. /\ ~Whole.bad /\ Whole.wants = 0 /\ \A k \in Tagged(T) : vals[k] = Whole.vals[k]
             /\ Whole.words = SubSeq(argv, First, Len(argv))
        BY <2>1 DEF Matched
      <4>12. ~(1..Len(T) \subseteq Tagged(T))
        BY <3>1
      <4>13. Matched'
        BY <1>1, <1>2, <2>2, <4>6, <4>9, <4>10, <4>11, <4>12 DEF Matched
      <4> QED BY <1>2, <1>4, <1>1, <3>1, <3>6, <4>13 DEF Inv
    <3> QED BY <3>5, <3>6
  <2> QED BY <1>3, <2>3, <2>4, <2>5, <2>6
<1> QED BY <1>5, <1>6

LEMMA InvAtCheck ==
    ASSUME Inv, Check
    PROVE  Inv'
<1>1. /\ pc = "check" /\ pc' = "done" /\ input' = input /\ argv' = argv /\ optind' = optind /\ place' = place
      /\ nonoptStart' = nonoptStart /\ nonoptEnd' = nonoptEnd /\ tab' = tab /\ vals' = vals
      /\ errors # <<>> => errors' = errors
  BY DEF Check
<1>2. /\ Shapes /\ Shapes' /\ T' = T /\ Whole' = Whole /\ (errors # <<>> => errors' # <<>>)
      /\ errors = <<>> => (errors' = <<>> <=> TooFew = {})
  <2>1. Shapes
    BY DEF Inv
  <2> QED BY <1>1, <2>1, ShapesAtCheck, SameTable
<1>3. CASE errors # <<>>
  BY <1>1, <1>2, <1>3 DEF Inv
<1>4. CASE errors = <<>>
  <2>1. /\ Matched /\ Len(argv) \in Nat /\ Whole.words = SubSeq(argv, First, Len(argv))
        /\ optind = Len(argv) + 1 /\ \A k \in 1..Len(T) : T[k].max \in Nat /\ T[k].min \in Nat
    BY <1>1, <1>4, AtMatching DEF Inv
  <2>2. First' = First /\ TooFew' = TooFew
    BY <1>1, <1>2 DEF First, TooFew
  <2>3. Matched'
    BY <1>1, <1>2, <2>1, <2>2 DEF Matched
  <2>4. ASSUME TooFew # {} PROVE ~Acceptable(T, Whole)
    <3>1. PICK k \in TooFew : k \in (1..Len(T)) \ Tagged(T)
      BY <1>2, <2>4, TooFewIs
    <3>2. Values(T, Whole, k) = Whole.words
      BY <3>1 DEF Values, Tagged
    <3>3. vals[k] = Whole.words
      <4>1. optind - 1 = Len(argv)
        BY <2>1
      <4> QED BY <2>1, <3>1, <4>1 DEF Matched
    <3>4. Len(vals[k]) < T[k].min /\ Len(vals[k]) \in Nat /\ T[k].min \in Nat /\ T[k].max \in Nat
      BY <1>2, <2>1, <3>1 DEF TooFew, Shapes, Stored
    <3>5. ~Fits(T[k], vals[k])
      <4> DEFINE x == Len(vals[k])
                 y == T[k].min
                 z == T[k].max
      <4>1. x < y /\ x \in Nat /\ y \in Nat /\ z \in Nat
        BY <3>4
      <4> HIDE DEF x, y, z
      <4>2. x \notin y..z
        BY <4>1
      <4> QED BY <4>2 DEF x, y, z, Fits
    <3> QED BY <3>1, <3>2, <3>3, <3>5 DEF Acceptable
  <2> QED BY <1>1, <1>2, <1>4, <2>1, <2>2, <2>3, <2>4 DEF Inv
<1> QED BY <1>3, <1>4

LEMMA InvAtFirst ==
    ASSUME Init
    PROVE  Inv
<1>1. Shapes /\ Operands = <<>> /\ errors = <<>> /\ pc = "tagged"
  BY ShapesAtFirst
<1>2. place = <<>> /\ optind - 1 = 0 /\ vals = [k \in 1..Len(T) |-> <<>>] /\ input \in Inputs
  BY DEF Init
<1>3. Before = Unread(T)
  <2> DEFINE t == T
             ws == input.argv
             n == optind - 1
  <2>1. n = 0 /\ Len(t) \in Nat /\ ws \in Seq(Texts) /\ \A k \in 1..Len(t) : t[k].max \in Nat
    BY <1>2, TheTable
  <2>2. 0 \in Nat /\ 0 \in 0..Len(ws)
    BY <2>1
  <2> HIDE DEF t, ws, n
  <2>3. Read(t, ws, 0) = Unread(t)
    BY <2>1, <2>2, ReadIs
  <2> QED BY <2>1, <2>3 DEF Before, t, ws, n
<1>4. \A k \in Tagged(T) : vals[k] = Before.vals[k]
  BY <1>2, <1>3 DEF Unread, Tagged
<1>5. AsRead(Before)
  BY <1>1, <1>3, <1>4 DEF AsRead, Unread
<1>6. Agrees
  BY <1>2, <1>5 DEF Agrees
<1> QED BY <1>1, <1>6 DEF Inv

-----------------------------------------------------------------------------
(* The theorems                                                            *)
LEMMA InvIsKept ==
    ASSUME Inv, [Next]_vars
    PROVE  Inv'
<1>1. ASSUME NoMoreWords PROVE Inv'
  BY <1>1, InvAtNoMoreWords
<1>2. ASSUME PassOperand PROVE Inv'
  BY <1>2, InvAtPassOperand
<1>3. ASSUME DashDash PROVE Inv'
  BY <1>3, InvAtDashDash
<1>4. ASSUME StartOption PROVE Inv'
  BY <1>4, InvAtStartOption
<1>5. ASSUME ShortOption PROVE Inv'
  BY <1>5, InvAtShortOption
<1>6. ASSUME LongOption PROVE Inv'
  BY <1>6, InvAtLongOption
<1>7. ASSUME MatchOperand PROVE Inv'
  BY <1>7, InvAtMatchOperand
<1>8. ASSUME Check PROVE Inv'
  BY <1>8, InvAtCheck
<1>9. CASE UNCHANGED vars
  BY <1>9 DEF vars, Inv, Shapes, Scanned, AtOption, Stored, Remembered, Operands, Word, AsRead, Before,
              Place, Agrees, Whole, First, Matched, TooFew, T
<1> QED BY <1>1, <1>2, <1>3, <1>4, <1>5, <1>6, <1>7, <1>8, <1>9 DEF Next

\* arg_parse keeps to Inv: whatever the command and its argv, the values stored so far
\* and the operands passed over are what a reader of the words so far would note down.
THEOREM Kept == Spec => []Inv
<1>1. Init => Inv
  BY InvAtFirst
<1>2. Inv /\ [Next]_vars => Inv'
  BY InvIsKept
<1> QED BY <1>1, <1>2, PTL DEF Spec

\* Whatever the argv, the indices of getopt_long and of the operands it moves stay inside
\* argv, no entry is given more values than it has room for, and arg_end is not overrun.
THEOREM IndicesStayInside == Spec => []TypeOK
<1>1. Inv => TypeOK
  <2> SUFFICES ASSUME Inv PROVE TypeOK
    OBVIOUS
  <2>1. /\ pc \in {"tagged", "untagged", "check", "done"} /\ optind \in 1..(Len(argv) + 1)
        /\ argv \in Seq(Texts) /\ Stored /\ Len(errors) <= ArgEnd
        /\ pc = "tagged" => Scanned
        /\ pc # "tagged" => nonoptStart = 0 /\ nonoptEnd = 0
    BY DEF Inv, Shapes, Remembered
  <2>2. Len(argv) \in Nat
    BY <2>1
  <2>3. /\ nonoptStart \in 0..Len(argv) /\ nonoptEnd \in 0..Len(argv)
        /\ nonoptEnd # 0 => nonoptStart \in 1..(nonoptEnd - 1)
    <3>1. CASE pc = "tagged"
      <4>1. /\ nonoptStart \in 0..(optind - 1) /\ nonoptEnd \in 0..optind
            /\ nonoptEnd # 0 => nonoptStart \in 1..(nonoptEnd - 1)
            /\ nonoptEnd = optind => optind <= Len(argv)
        BY <2>1, <3>1 DEF Scanned, AtOption
      <4> QED BY <2>1, <2>2, <4>1
    <3>2. CASE pc # "tagged"
      BY <2>1, <2>2, <3>2
    <3> QED BY <3>1, <3>2
  <2>4. \A k \in 1..Len(T) : Len(vals[k]) <= T[k].max
    BY <2>1 DEF Stored, FitsSoFar
  <2> QED BY <2>1, <2>3, <2>4 DEF TypeOK
<1> QED BY <1>1, Kept, PTL

\* What Inv says of the end.
LEMMA AtTheEnd ==
    ASSUME Inv, pc = "done"
    PROVE  /\ (errors = <<>>) <=> Acceptable(T, Whole)
           /\ errors = <<>> => \A k \in 1..Len(T) : vals[k] = Values(T, Whole, k)
           /\ Len(T) \in Nat
<1>1. Len(T) \in Nat
  BY TheTable DEF Inv, Shapes
<1>2. CASE errors # <<>>
  BY <1>1, <1>2 DEF Inv
<1>3. CASE errors = <<>>
  <2>1. /\ Matched /\ Len(argv) \in Nat /\ Whole.words = SubSeq(argv, First, Len(argv))
        /\ optind = Len(argv) + 1 /\ TooFew = {} /\ Stored /\ argv \in Seq(Texts)
    BY <1>3, AtMatching DEF Inv, Shapes
  <2>2. \A k \in 1..Len(T) : T[k].max \in Nat /\ T[k].min \in Nat
    BY <1>3, AtMatching
  <2>3. optind - 1 = Len(argv)
    BY <2>1
  <2>4. ASSUME NEW k \in 1..Len(T) PROVE vals[k] = Values(T, Whole, k)
    <3>1. CASE k \in Tagged(T)
      BY <2>1, <3>1 DEF Matched, Values, Tagged
    <3>2. CASE k \notin Tagged(T)
      BY <2>1, <2>3, <3>2 DEF Matched, Values, Tagged
    <3> QED BY <3>1, <3>2
  <2>5. ASSUME NEW k \in 1..Len(T) PROVE Fits(T[k], Values(T, Whole, k))
    <3> DEFINE e == T[k]
               vs == vals[k]
    <3>1. FitsSoFar(e, vs) /\ ~(Len(vs) < e.min) /\ Len(vs) \in Nat /\ e.min \in Nat /\ e.max \in Nat
      BY <2>1, <2>2 DEF Stored, TooFew
    <3>2. Values(T, Whole, k) = vs
      BY <2>4
    <3> HIDE DEF e, vs
    <3>3. Len(vs) \in e.min..e.max
      BY <3>1 DEF FitsSoFar
    <3>4. Fits(e, vs)
      BY <3>1, <3>3 DEF Fits, FitsSoFar
    <3> QED BY <3>2, <3>4 DEF e
  <2>6. ASSUME ~\E k \in 1..Len(T) : T[k].l = "" PROVE Whole.words = <<>>
    <3>1. 1..Len(T) \subseteq Tagged(T)
      BY <2>6 DEF Tagged
    <3>2. First = Len(argv) + 1
      BY <2>1, <3>1 DEF Matched
    <3> DEFINE a == argv
               f == First
               n == Len(argv)
    <3>3. n \in Nat /\ f \in Nat /\ n < f
      BY <2>1, <3>2
    <3> HIDE DEF a, f, n
    <3>4. SubSeq(a, f, n) = <<>>
      BY <3>3, SubSeqEmpty
    <3> QED BY <2>1, <3>4 DEF a, f, n
  <2>7. Acceptable(T, Whole)
    BY <2>1, <2>5, <2>6 DEF Acceptable, Matched
  <2> QED BY <1>1, <1>3, <2>4, <2>7
<1> QED BY <1>2, <1>3

\* Whatever the argv, arg_parse reports an error exactly if argv has one when it is read
\* from left to right, and otherwise has stored what such a reader understands, the
\* operands in their order: permute_args loses, doubles and swaps none.
THEOREM ParsesLikeAReader == Spec => []ParsesAsMeant
<1>1. Inv => ParsesAsMeant
  <2> SUFFICES ASSUME Inv, pc = "done" PROVE LET m == Meant(T, input.argv) IN
         /\ (errors = <<>>) <=> Acceptable(T, m)
         /\ errors = <<>> => \A k \in 1..Len(T) : vals[k] = Values(T, m, k)
    BY DEF ParsesAsMeant
  <2> QED BY AtTheEnd DEF Whole
<1> QED BY <1>1, Kept, PTL

\* Whatever else stands in its argv, a command that is asked for help does not run.
THEOREM HelpDoesNoHarm == Spec => []HelpIsHarmless
<1>1. Inv => HelpIsHarmless
  <2> SUFFICES ASSUME Inv, pc = "done",
                      NEW k \in Tagged(T), T[k].l \in {"help", "help-json"}, Whole.vals[k] # <<>>
               PROVE  Outcome # "run"
    BY DEF HelpIsHarmless, Whole
  <2>1. CASE errors # <<>>
    BY <2>1 DEF Outcome
  <2>2. CASE errors = <<>>
    <3>1. k \in 1..Len(T) /\ Values(T, Whole, k) = Whole.vals[k]
      BY DEF Tagged, Values
    <3>2. vals[k] # <<>>
      BY <2>2, <3>1, AtTheEnd
    <3>3. Given("help") \/ Given("help-json")
      BY <3>2 DEF Given
    <3> QED BY <3>3 DEF Outcome
  <2> QED BY <2>1, <2>2
<1> QED BY <1>1, Kept, PTL

=============================================================================
