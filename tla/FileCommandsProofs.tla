-------------------------- MODULE FileCommandsProofs --------------------------
(***************************************************************************)
(* Theorems about the builtins that work on files, for any shells, trees,  *)
(* disks and scripts.                                                      *)
(*                                                                         *)
(* A recursion along a path is reasoned about by the least place where two *)
(* walks differ (LookupSteps, LookupKept): what a path leads to depends on *)
(* the entries on it, so a step that keeps those keeps what is found.      *)
(*                                                                         *)
(* StaysInOrder: the file system stays a tree, and each command works on   *)
(* operands it was given.  RmIsTruthful: the stack of a rm that nobody     *)
(* disturbs is a path of directories from the operand down (RmStack), so   *)
(* the call that removes the operand is the last one.  TogetherTheyRemove: *)
(* of several rm -rf of a tree one finds what its calls are about          *)
(* (Unhindered) as long as the tree is there, and its calls before a rmdir *)
(* cover the entries of that directory (Covered): a call that removes      *)
(* something, be it from under another shell, was made by such a one.      *)
(* TogetherTheyMake: mkdir and touch only add entries, the reason a call   *)
(* of mkdir -p fails for stays (Never), and a new file is the work of a    *)
(* touch (Caused).  CopiesAreWhole: nothing of the source has changed      *)
(* (KeptBelow), and a file of it is copied already, or was cut short       *)
(* unnoticed, or one of the calls of cp will see to it (Covers); a write   *)
(* to the destination disturbs neither, because a path leads to one thing  *)
(* only (OnePath) and neither operand is a prefix of the other             *)
(* (CommonStart).                                                          *)
(***************************************************************************)
EXTENDS FileCommands, TLAPS, Integers, FiniteSetTheorems, SequenceTheorems,
        WellFoundedInduction

LEMMA LeastExists ==
  ASSUME NEW S, S \subseteq Nat, S # {}
  PROVE  \E m \in S : \A x \in S : m <= x
<1>1. PICK m \in S : \A x \in S : <<x, m>> \notin OpToRel(<, Nat)
  BY NatLessThanWellFounded, WFMin, Zenon
<1>2. \A x \in S : ~(x < m)
  BY <1>1, Zenon DEF OpToRel
<1> QED BY <1>2

-----------------------------------------------------------------------------
(* Paths                                                                   *)

Places == Inodes \cup Errors
Upto(path, k) == SubSeq(path, 1, k)

LEMMA Prefix ==
  ASSUME NEW path \in Seq(Names), NEW k \in 0..Len(path)
  PROVE  /\ Upto(path, k) \in Seq(Names) /\ Len(Upto(path, k)) = k
         /\ \A j \in 1..k : Upto(path, k)[j] = path[j]
         /\ \A j \in 0..k : Upto(Upto(path, k), j) = Upto(path, j)
         /\ k > 0 => /\ Upto(path, k) # <<>> /\ Last(Upto(path, k)) = path[k]
                     /\ Front(Upto(path, k)) = Upto(path, k - 1)
<1> DEFINE q == SubSeq(path, 1, k)
<1>1. q \in Seq(Names) /\ Len(q) = k /\ \A j \in 1..k : q[j] = path[j]
  BY SubSeqProperties
<1>2. ASSUME NEW j \in 0..k PROVE SubSeq(q, 1, j) = SubSeq(path, 1, j)
  <2> DEFINE s == SubSeq(q, 1, j)
             t == SubSeq(path, 1, j)
  <2>1. s \in Seq(Names) /\ Len(s) = j /\ \A i \in 1..j : s[i] = q[i]
    BY <1>1, SubSeqProperties
  <2>2. t \in Seq(Names) /\ Len(t) = j /\ \A i \in 1..j : t[i] = path[i]
    BY SubSeqProperties
  <2> HIDE DEF s, t, q
  <2>3. \A i \in 1..Len(s) : s[i] = t[i]
    BY <2>1, <2>2, <1>1
  <2> QED BY <2>1, <2>2, <2>3, SeqEqual DEF s, t
<1>3. ASSUME k > 0
      PROVE  q # <<>> /\ q[Len(q)] = path[k] /\ SubSeq(q, 1, Len(q) - 1) = SubSeq(path, 1, k - 1)
  <2>1. k \in Nat /\ k - 1 \in 0..k
    BY <1>3
  <2>2. SubSeq(q, 1, k - 1) = SubSeq(path, 1, k - 1)
    BY <2>1, <1>2
  <2> HIDE DEF q
  <2> QED BY <1>1, <1>3, <2>1, <2>2
<1> QED
  BY <1>1, <1>2, <1>3 DEF Upto, Front, Last

LEMMA ComponentIsPlace ==
  ASSUME NEW n, NEW d \in Places, NEW x
  PROVE  /\ Component(n, d, x) \in Places
         /\ Component(n, d, x) \in Inodes =>
              /\ d \in Inodes /\ IsDir(n, d)
              /\ Component(n, d, x) \in Entries(n, d) /\ n[Component(n, d, x)].name = x
         /\ d \in Errors => Component(n, d, x) = d
         /\ d \in Inodes => /\ ~IsDir(n, d) => Component(n, d, x) = "ENOTDIR"
                            /\ IsDir(n, d) => \/ Component(n, d, x) = "ENOENT"
                                              \/ Component(n, d, x) \in Inodes
                            /\ IsDir(n, d) /\ x \notin EntryNames(n, d) => Component(n, d, x) = "ENOENT"
                            /\ IsDir(n, d) /\ x \in EntryNames(n, d) => Component(n, d, x) \in Inodes
<1> DEFINE found == {i \in Entries(n, d) : n[i].name = x}
<1>1. Entries(n, d) \subseteq Inodes
  BY DEF Entries
<1>2. found # {} => (CHOOSE i \in found : TRUE) \in found
  OBVIOUS
<1>3. x \in EntryNames(n, d) <=> found # {}
  BY DEF EntryNames
<1>4. Errors \cap Inodes = {} /\ "ENOENT" \in Errors /\ "ENOTDIR" \in Errors
  BY FileAssumption DEF Errors
<1>5. Component(n, d, x) = IF d \in Errors THEN d
                           ELSE IF ~IsDir(n, d) THEN "ENOTDIR"
                           ELSE IF found = {} THEN "ENOENT" ELSE CHOOSE i \in found : TRUE
  BY DEF Component
<1> DEFINE c == CHOOSE i \in found : TRUE
<1>6. found # {} => c \in Entries(n, d) /\ c \in Inodes /\ n[c].name = x
  BY <1>1, <1>2
<1> HIDE DEF found, c
<1> QED BY <1>3, <1>4, <1>5, <1>6 DEF Places, c

\* The walk along a path, which the recursive function of Lookup computes.
Walk(w, n, d, path) ==
  w = [k \in 0..Len(path) |-> IF k = 0 THEN d ELSE Component(n, w[k - 1], path[k])]

LEMMA WalkExists ==
  ASSUME NEW n, NEW d \in Places, NEW path \in Seq(Names)
  PROVE  \E w \in [0..Len(path) -> Places] : Walk(w, n, d, path)
<1> DEFINE Far(k) == \E w \in [0..k -> Places] :
                       w[0] = d /\ \A j \in 1..k : w[j] = Component(n, w[j - 1], path[j])
           Bad == {k \in Nat : ~Far(k)}
<1>1. Bad = {}
  <2> SUFFICES ASSUME Bad # {} PROVE FALSE
    OBVIOUS
  <2>1. PICK m \in Bad : \A x \in Bad : m <= x
    <3> HIDE DEF Bad
    <3>1. Bad \subseteq Nat
      BY DEF Bad
    <3> QED BY <3>1, LeastExists
  <2>2. m # 0
    <3> DEFINE z == [k \in 0..0 |-> d]
    <3>1. z \in [0..0 -> Places] /\ z[0] = d /\ \A j \in 1..0 : FALSE
      OBVIOUS
    <3> HIDE DEF z
    <3>2. \A j \in 1..0 : z[j] = Component(n, z[j - 1], path[j])
      BY <3>1
    <3>3. Far(0)
      BY <3>1, <3>2
    <3> QED BY <3>3
  <2>3. m - 1 \in Nat /\ Far(m - 1)
    <3> HIDE DEF Far
    <3>1. m \in Nat /\ m - 1 \in Nat /\ ~(m <= m - 1)
      BY <2>2
    <3> QED BY <2>1, <3>1
  <2>4. PICK w \in [0..(m - 1) -> Places] :
          w[0] = d /\ \A j \in 1..(m - 1) : w[j] = Component(n, w[j - 1], path[j])
    BY <2>3
  <2> DEFINE v == [k \in 0..m |-> IF k = m THEN Component(n, w[m - 1], path[m]) ELSE w[k]]
  <2>5. w[m - 1] \in Places
    BY <2>3, <2>4
  <2> DEFINE c == Component(n, w[m - 1], path[m])
  <2>6. v \in [0..m -> Places]
    <3>1. c \in Places
      BY <2>5, ComponentIsPlace
    <3>2. \A k \in 0..m : k = m \/ k \in 0..(m - 1)
      BY <2>3
    <3>3. v = [k \in 0..m |-> IF k = m THEN c ELSE w[k]]
      OBVIOUS
    <3> HIDE DEF c, v
    <3> QED BY <3>1, <3>2, <3>3, <2>4
  <2>7. v[0] = d /\ \A j \in 1..m : v[j] = Component(n, v[j - 1], path[j])
    BY <2>2, <2>3, <2>4
  <2> HIDE DEF v
  <2>8. Far(m)
    BY <2>6, <2>7
  <2> QED BY <2>8
<1>2. Len(path) \in Nat
  OBVIOUS
<1>3. PICK w \in [0..Len(path) -> Places] :
        w[0] = d /\ \A j \in 1..Len(path) : w[j] = Component(n, w[j - 1], path[j])
  BY <1>1, <1>2
<1>4. w = [k \in 0..Len(path) |-> IF k = 0 THEN d ELSE Component(n, w[k - 1], path[k])]
  BY <1>2, <1>3
<1> QED BY <1>4 DEF Walk

\* Of two walks with the same start the longer one goes on where the shorter one ends.
LEMMA WalkIsUnique ==
  ASSUME NEW n, NEW d, NEW p, NEW q, NEW v, NEW w, NEW k \in Nat, k <= Len(p), k <= Len(q),
         Len(p) \in Nat, Len(q) \in Nat,
         Walk(v, n, d, p), Walk(w, n, d, q), \A j \in 1..k : p[j] = q[j]
  PROVE  v[k] = w[k]
<1> DEFINE Bad == {j \in 0..k : v[j] # w[j]}
<1> SUFFICES ASSUME Bad # {} PROVE FALSE
  OBVIOUS
<1>1. PICK m \in Bad : \A x \in Bad : m <= x
  <2>1. Bad \subseteq Nat
    OBVIOUS
  <2> HIDE DEF Bad
  <2> QED BY <2>1, LeastExists
<1>2. \A j \in 0..k : /\ v[j] = IF j = 0 THEN d ELSE Component(n, v[j - 1], p[j])
                      /\ w[j] = IF j = 0 THEN d ELSE Component(n, w[j - 1], q[j])
  <2>1. \A j \in 0..k : j \in 0..Len(p) /\ j \in 0..Len(q)
    OBVIOUS
  <2> QED BY <2>1 DEF Walk
<1>3. m # 0
  BY <1>2
<1>4. m - 1 \in 0..k /\ m - 1 \notin Bad
  BY <1>1, <1>3
<1>5. v[m - 1] = w[m - 1]
  BY <1>4
<1> QED
  BY <1>2, <1>3, <1>5

LEMMA LookupIsWalk ==
  ASSUME NEW n, NEW d \in Places, NEW path \in Seq(Names)
  PROVE  \E w \in [0..Len(path) -> Places] : Walk(w, n, d, path) /\ Lookup(n, d, path) = w[Len(path)]
<1> DEFINE c == CHOOSE w : Walk(w, n, d, path)
<1>1. PICK w \in [0..Len(path) -> Places] : Walk(w, n, d, path)
  BY WalkExists
<1>2. Walk(c, n, d, path)
  BY <1>1, Zenon
<1>3. Len(path) \in Nat
  OBVIOUS
<1>4. c[Len(path)] = w[Len(path)]
  <2> HIDE DEF c
  <2> QED BY <1>1, <1>2, <1>3, WalkIsUnique
<1>5. Lookup(n, d, path) = c[Len(path)]
  BY Zenon DEF Lookup, Walk
<1> QED BY <1>1, <1>4, <1>5

\* The recursion along a path, in terms of the paths to its parts.
LEMMA LookupSteps ==
  ASSUME NEW n, NEW d \in Places, NEW path \in Seq(Names)
  PROVE  /\ Lookup(n, d, path) \in Places
         /\ Lookup(n, d, <<>>) = d
         /\ Lookup(n, d, Upto(path, 0)) = d
         /\ Lookup(n, d, Upto(path, Len(path))) = Lookup(n, d, path)
         /\ \A k \in 0..Len(path) : Lookup(n, d, Upto(path, k)) \in Places
         /\ \A k \in 1..Len(path) :
              Lookup(n, d, Upto(path, k)) = Component(n, Lookup(n, d, Upto(path, k - 1)), path[k])
<1>1. PICK w \in [0..Len(path) -> Places] : Walk(w, n, d, path) /\ Lookup(n, d, path) = w[Len(path)]
  BY LookupIsWalk
<1>2. Len(path) \in Nat
  OBVIOUS
<1>3. ASSUME NEW k \in 0..Len(path) PROVE Lookup(n, d, Upto(path, k)) = w[k]
  <2>1. /\ Upto(path, k) \in Seq(Names) /\ Len(Upto(path, k)) = k
        /\ \A j \in 1..k : Upto(path, k)[j] = path[j]
    BY Prefix
  <2>2. PICK v \in [0..k -> Places] : Walk(v, n, d, Upto(path, k)) /\ Lookup(n, d, Upto(path, k)) = v[k]
    BY <2>1, LookupIsWalk
  <2>3. k \in Nat /\ k <= Len(path) /\ k <= Len(Upto(path, k)) /\ Len(Upto(path, k)) \in Nat
    BY <2>1, <1>2
  <2>4. v[k] = w[k]
    BY <2>1, <2>2, <2>3, <1>1, <1>2, WalkIsUnique
  <2> QED BY <2>2, <2>4
<1>4. w[0] = d /\ \A k \in 1..Len(path) : w[k] = Component(n, w[k - 1], path[k])
  BY <1>1, <1>2 DEF Walk
<1>5. Upto(path, Len(path)) = path /\ Upto(path, 0) = <<>>
  BY SubSeqFull, SubSeqEmpty DEF Upto
<1>6. \A k \in 0..Len(path) : w[k] \in Places
  BY <1>1
<1>7. 0 \in 0..Len(path) /\ Len(path) \in 0..Len(path)
  BY <1>2
<1>8. \A k \in 1..Len(path) : k \in 0..Len(path) /\ k - 1 \in 0..Len(path)
  BY <1>2
<1> QED
  BY <1>1, <1>3, <1>4, <1>5, <1>6, <1>7, <1>8

LEMMA LookupLast ==
  ASSUME NEW n, NEW d \in Places, NEW path \in Seq(Names), path # <<>>
  PROVE  /\ Front(path) \in Seq(Names) /\ Len(Front(path)) = Len(path) - 1
         /\ Last(path) \in Names /\ Front(path) = Upto(path, Len(path) - 1)
         /\ Parent(n, d, path) \in Places
         /\ Lookup(n, d, path) = Component(n, Parent(n, d, path), Last(path))
<1>1. Len(path) \in Nat /\ Len(path) > 0 /\ Len(path) - 1 \in 0..Len(path)
  BY EmptySeq
<1>2. Front(path) = Upto(path, Len(path) - 1) /\ Last(path) = path[Len(path)]
  BY DEF Front, Last, Upto
<1>3. Upto(path, Len(path) - 1) \in Seq(Names) /\ Len(Upto(path, Len(path) - 1)) = Len(path) - 1
  BY <1>1, Prefix
<1>4. Len(path) \in 1..Len(path) /\ path[Len(path)] \in Names
  BY <1>1, ElementOfSeq
<1>5. Lookup(n, d, Upto(path, Len(path) - 1)) \in Places
  BY <1>1, LookupSteps
<1>6. Lookup(n, d, Upto(path, Len(path))) = Component(n, Lookup(n, d, Upto(path, Len(path) - 1)), path[Len(path)])
  BY <1>4, LookupSteps
<1>7. Lookup(n, d, Upto(path, Len(path))) = Lookup(n, d, path)
  BY LookupSteps
<1> QED BY <1>2, <1>3, <1>4, <1>5, <1>6, <1>7 DEF Parent

LEMMA NoErrorIsFound ==
  ASSUME NEW i \in Places
  PROVE  i \in Inodes <=> i \notin Errors
BY FileAssumption DEF Places

\* What is found is an entry of the directory its path leads to without its last part.
LEMMA FoundIsEntry ==
  ASSUME NEW n, NEW h, IsTree(n, h), NEW d \in Inodes, NEW path \in Seq(Names), path # <<>>,
         Found(n, d, path)
  PROVE  LET i == Lookup(n, d, path) up == Parent(n, d, path) IN
         /\ up \in Inodes /\ IsDir(n, up) /\ Linked(n, up) /\ Found(n, d, Front(path))
         /\ i \in Inodes \ {Root} /\ i \in Entries(n, up) /\ n[i].up = up /\ n[i].name = Last(path)
         /\ Linked(n, i)
<1> DEFINE i == Lookup(n, d, path)
           up == Parent(n, d, path)
<1>1. d \in Places /\ i \in Inodes
  BY DEF Places, Found
<1>2. up \in Places /\ i = Component(n, up, Last(path)) /\ up = Lookup(n, d, Front(path))
  BY <1>1, LookupLast DEF Parent
<1>3. up \in Inodes /\ IsDir(n, up) /\ i \in Entries(n, up) /\ n[i].name = Last(path)
  BY <1>1, <1>2, ComponentIsPlace
<1>4. i \in Inodes \ {Root} /\ n[i].up = up
  BY <1>3 DEF Entries
<1>5. up # Nowhere
  BY <1>3, FileAssumption
<1> HIDE DEF i, up
<1>6. Linked(n, up)
  BY <1>4, <1>5 DEF IsTree
<1>7. Linked(n, i)
  BY <1>4, <1>5 DEF Linked
<1> QED BY <1>2, <1>3, <1>4, <1>6, <1>7 DEF Found, i, up

\* On the way to what is found there are only directories.
LEMMA FoundUpto ==
  ASSUME NEW n, NEW h, IsTree(n, h), NEW d \in Inodes, NEW path \in Seq(Names),
         Found(n, d, path), NEW k \in 0..Len(path)
  PROVE  /\ Found(n, d, Upto(path, k))
         /\ k < Len(path) => IsDir(n, Lookup(n, d, Upto(path, k)))
<1> DEFINE Bad == {b \in Nat : b <= Len(path) /\ ~Found(n, d, Upto(path, Len(path) - b))}
<1>1. Len(path) \in Nat /\ d \in Places
  BY DEF Places
<1>2. Bad = {}
  <2> SUFFICES ASSUME Bad # {} PROVE FALSE
    OBVIOUS
  <2>1. PICK m \in Bad : \A x \in Bad : m <= x
    <3>1. Bad \subseteq Nat
      OBVIOUS
    <3> HIDE DEF Bad
    <3> QED BY <3>1, LeastExists
  <2>2. m # 0
    <3>1. Found(n, d, Upto(path, Len(path)))
      BY <1>1, LookupSteps DEF Found
    <3> QED BY <3>1, <1>1
  <2>3. m - 1 \in Nat /\ m - 1 <= Len(path) /\ m - 1 \notin Bad
    BY <1>1, <2>1, <2>2
  <2> DEFINE j == Len(path) - (m - 1)
  <2>4. Found(n, d, Upto(path, j))
    BY <2>3
  <2>5. j \in 1..Len(path) /\ j - 1 = Len(path) - m
    BY <1>1, <2>1, <2>2
  <2>6. Lookup(n, d, Upto(path, j)) = Component(n, Lookup(n, d, Upto(path, j - 1)), path[j])
    BY <2>5, <1>1, LookupSteps
  <2>7. Lookup(n, d, Upto(path, j - 1)) \in Places
    <3>1. j - 1 \in 0..Len(path)
      BY <2>5, <1>1
    <3> QED BY <3>1, <1>1, LookupSteps
  <2>8. Found(n, d, Upto(path, j - 1))
    <3> DEFINE u == Lookup(n, d, Upto(path, j - 1))
               i == Lookup(n, d, Upto(path, j))
    <3>1. u \in Places /\ i = Component(n, u, path[j]) /\ i \in Inodes
      BY <2>4, <2>6, <2>7 DEF Found
    <3> HIDE DEF u, i
    <3>2. u \in Inodes
      BY <3>1, ComponentIsPlace
    <3> QED BY <3>2 DEF Found, u
  <2> QED BY <2>1, <2>5, <2>8
<1>3. \A l \in 0..Len(path) : Found(n, d, Upto(path, l))
  <2> TAKE l \in 0..Len(path)
  <2> DEFINE b == Len(path) - l
  <2>1. b \in Nat /\ b <= Len(path) /\ Len(path) - b = l
    BY <1>1
  <2>2. b \notin Bad
    BY <1>2
  <2> HIDE DEF b
  <2> QED BY <2>1, <2>2
<1>4. ASSUME k < Len(path) PROVE IsDir(n, Lookup(n, d, Upto(path, k)))
  <2>1. k + 1 \in 1..Len(path) /\ (k + 1) - 1 = k /\ k + 1 \in 0..Len(path)
    BY <1>1, <1>4
  <2>2. Lookup(n, d, Upto(path, k + 1)) = Component(n, Lookup(n, d, Upto(path, k)), path[k + 1])
    <3>1. \A l \in 1..Len(path) :
            Lookup(n, d, Upto(path, l)) = Component(n, Lookup(n, d, Upto(path, l - 1)), path[l])
      BY <1>1, LookupSteps
    <3>2. Lookup(n, d, Upto(path, k + 1)) = Component(n, Lookup(n, d, Upto(path, (k + 1) - 1)), path[k + 1])
      BY <2>1, <3>1
    <3> QED BY <2>1, <3>2
  <2>3. Lookup(n, d, Upto(path, k)) \in Places
    BY <1>1, LookupSteps
  <2> QED BY <1>3, <2>1, <2>2, <2>3, ComponentIsPlace DEF Found
<1> QED BY <1>3, <1>4

\* A file system that keeps the entries of another one keeps what a path leads to.
Keeps(n, m) ==
  \A i \in Inodes : Linked(n, i) => m[i].up = n[i].up /\ m[i].name = n[i].name /\ m[i].kind = n[i].kind

LEMMA ComponentKept ==
  ASSUME NEW n, NEW m, NEW g, NEW h, IsTree(n, g), IsTree(m, h), NEW d \in Inodes, NEW x,
         NEW i \in Inodes, i = Component(n, d, x),
         m[d].kind = n[d].kind, m[i].up = n[i].up, m[i].name = n[i].name
  PROVE  Component(m, d, x) = i
<1>1. d \in Places /\ d \notin Errors
  BY FileAssumption DEF Places
<1>2. IsDir(n, d) /\ i \in Entries(n, d) /\ n[i].name = x
  BY <1>1, ComponentIsPlace
<1>3. IsDir(m, d)
  BY <1>2 DEF IsDir
<1>4. i \in Inodes \ {Root} /\ m[i].up = d /\ m[i].name = x /\ i \in Entries(m, d)
  BY <1>2 DEF Entries
<1>5. d # Nowhere
  BY FileAssumption
<1>6. \A j \in Entries(m, d) : m[j].name = x => j = i
  BY <1>4, <1>5 DEF IsTree
<1>7. {j \in Entries(m, d) : m[j].name = x} = {i}
  BY <1>4, <1>6
<1> QED BY <1>1, <1>3, <1>7 DEF Component

LEMMA LookupKept ==
  ASSUME NEW n, NEW m, NEW g, NEW h, IsTree(n, g), IsTree(m, h), NEW d \in Inodes,
         NEW path \in Seq(Names), Found(n, d, path),
         \A k \in 1..Len(path) : LET i == Lookup(n, d, Upto(path, k)) up == Lookup(n, d, Upto(path, k - 1)) IN
           m[i].up = n[i].up /\ m[i].name = n[i].name /\ m[up].kind = n[up].kind
  PROVE  Lookup(m, d, path) = Lookup(n, d, path)
<1> DEFINE Bad == {k \in 0..Len(path) : Lookup(m, d, Upto(path, k)) # Lookup(n, d, Upto(path, k))}
<1>1. Len(path) \in Nat /\ d \in Places
  BY DEF Places
<1>2. Bad = {}
  <2> SUFFICES ASSUME Bad # {} PROVE FALSE
    OBVIOUS
  <2>1. PICK k \in Bad : \A x \in Bad : k <= x
    <3>1. Bad \subseteq Nat
      OBVIOUS
    <3> HIDE DEF Bad
    <3> QED BY <3>1, LeastExists
  <2>2. k # 0
    <3>1. Lookup(n, d, Upto(path, 0)) = d /\ Lookup(m, d, Upto(path, 0)) = d
      BY <1>1, LookupSteps
    <3> QED BY <3>1
  <2>3. k \in 1..Len(path) /\ k - 1 \in 0..Len(path) /\ k \in 0..Len(path)
    BY <1>1, <2>1, <2>2
  <2>4. k - 1 \notin Bad
    BY <2>1, <2>3
  <2> DEFINE i == Lookup(n, d, Upto(path, k))
             up == Lookup(n, d, Upto(path, k - 1))
  <2>5. Lookup(m, d, Upto(path, k - 1)) = up
    BY <2>3, <2>4
  <2>6. i \in Inodes /\ up \in Inodes
    BY <2>3, FoundUpto DEF Found
  <2>7. i = Component(n, up, path[k]) /\ Lookup(m, d, Upto(path, k)) = Component(m, up, path[k])
    <3>1. i = Component(n, up, path[k])
      BY <1>1, <2>3, LookupSteps
    <3>2. Lookup(m, d, Upto(path, k)) = Component(m, Lookup(m, d, Upto(path, k - 1)), path[k])
      BY <1>1, <2>3, LookupSteps
    <3> QED BY <2>5, <3>1, <3>2
  <2>8. m[i].up = n[i].up /\ m[i].name = n[i].name /\ m[up].kind = n[up].kind
    BY <2>3
  <2>9. Lookup(m, d, Upto(path, k)) # i
    BY <2>1
  <2> HIDE DEF i, up
  <2>10. Component(m, up, path[k]) = i
    BY <2>6, <2>7, <2>8, ComponentKept
  <2> QED BY <2>7, <2>9, <2>10
<1>3. Lookup(m, d, Upto(path, Len(path))) = Lookup(n, d, Upto(path, Len(path)))
  BY <1>1, <1>2
<1> QED BY <1>1, <1>3, LookupSteps

\* The parts of a path that leads somewhere, one by one.
LEMMA FoundParts ==
  ASSUME NEW n, NEW h, IsTree(n, h), NEW d \in Inodes, NEW path \in Seq(Names),
         Found(n, d, path), NEW k \in 1..Len(path)
  PROVE  LET i == Lookup(n, d, Upto(path, k)) up == Lookup(n, d, Upto(path, k - 1)) IN
         /\ up \in Inodes /\ IsDir(n, up) /\ Linked(n, up)
         /\ i \in Inodes \ {Root} /\ n[i].up = up /\ n[i].name = path[k] /\ Linked(n, i)
<1>1. Len(path) \in Nat /\ k \in 0..Len(path) /\ k > 0
  OBVIOUS
<1>2. Found(n, d, Upto(path, k))
  BY <1>1, FoundUpto
<1>3. /\ Upto(path, k) \in Seq(Names) /\ Upto(path, k) # <<>>
      /\ Last(Upto(path, k)) = path[k] /\ Front(Upto(path, k)) = Upto(path, k - 1)
  BY <1>1, Prefix
<1>4. Parent(n, d, Upto(path, k)) = Lookup(n, d, Upto(path, k - 1))
  BY <1>3 DEF Parent
<1> QED BY <1>2, <1>3, <1>4, FoundIsEntry

LEMMA KeptIsFound ==
  ASSUME NEW n, NEW m, NEW g, NEW h, IsTree(n, g), IsTree(m, h), Keeps(n, m),
         NEW d \in Inodes, NEW path \in Seq(Names), Found(n, d, path)
  PROVE  Lookup(m, d, path) = Lookup(n, d, path) /\ Found(m, d, path)
<1>1. ASSUME NEW k \in 1..Len(path)
      PROVE  LET i == Lookup(n, d, Upto(path, k)) up == Lookup(n, d, Upto(path, k - 1)) IN
             m[i].up = n[i].up /\ m[i].name = n[i].name /\ m[up].kind = n[up].kind
  BY FoundParts DEF Keeps
<1>2. Lookup(m, d, path) = Lookup(n, d, path)
  BY <1>1, LookupKept
<1> QED BY <1>2 DEF Found

\* Nothing is met twice on a path.
LEMMA NothingTwice ==
  ASSUME NEW n, NEW h, IsTree(n, h), NEW d \in Inodes, NEW path \in Seq(Names),
         Found(n, d, path), NEW k \in 0..Len(path), NEW l \in 0..Len(path), k < l
  PROVE  Lookup(n, d, Upto(path, k)) # Lookup(n, d, Upto(path, l))
<1> DEFINE at(j) == Lookup(n, d, Upto(path, j))
           S == {at(j) : j \in (k + 1)..l}
<1> SUFFICES ASSUME at(k) = at(l) PROVE FALSE
  OBVIOUS
<1>1. \A j \in (k + 1)..l : j \in 1..Len(path)
  OBVIOUS
<1>2. \A j \in (k + 1)..l : at(j) \in Inodes \ {Root} /\ n[at(j)].up = at(j - 1)
  BY <1>1, FoundParts
<1>3. at(l) \in S
  OBVIOUS
<1>4. S \in SUBSET (Inodes \ {Root}) /\ S # {}
  BY <1>2, <1>3
<1>5. ASSUME NEW j \in (k + 1)..l PROVE at(j - 1) \in S
  <2>1. CASE j = k + 1
    <3>1. j - 1 = k
      BY <2>1
    <3> QED BY <1>3, <3>1
  <2>2. CASE j # k + 1
    <3>1. j - 1 \in (k + 1)..l
      BY <2>2
    <3> QED BY <3>1
  <2> QED BY <2>1, <2>2
<1> HIDE DEF at
<1>6. \A i \in S : n[i].up \in S
  BY <1>2, <1>5
<1> HIDE DEF S
<1> QED BY <1>4, <1>6 DEF IsTree

-----------------------------------------------------------------------------
(* System calls keep the file system a tree.                               *)

LEMMA AnyHeld ==
  ASSUME NEW n, NEW h, IsTree(n, h)
  PROVE  IsTree(n, Inodes)
BY DEF IsTree

LEMMA UnusedIsNode == Unused \in Nodes /\ ~(Unused.kind = "dir") /\ Unused.up = Nowhere
BY FileAssumption DEF Unused, Nodes, Kinds

LEMMA TidyTree ==
  ASSUME NEW n, IsTree(n, Inodes), NEW held
  PROVE  /\ IsTree(Tidy(n, held), held)
         /\ Keeps(n, Tidy(n, held)) /\ Keeps(Tidy(n, held), n)
         /\ \A i \in Inodes : /\ Tidy(n, held)[i].up = n[i].up
                              /\ Linked(n, i) \/ i \in held => Tidy(n, held)[i] = n[i]
<1> DEFINE m == Tidy(n, held)
<1>1. m = [i \in Inodes |-> IF ~Linked(n, i) /\ i \notin held THEN Unused ELSE n[i]]
  BY DEF Tidy
<1> HIDE DEF m
<1>2. \A i \in Inodes : /\ m[i] = n[i] \/ (~Linked(n, i) /\ i \notin held /\ m[i] = Unused)
                        /\ Linked(n, i) => m[i] = n[i]
                        /\ i \in held => m[i] = n[i]
                        /\ ~Linked(n, i) /\ i \notin held => m[i] = Unused
  BY <1>1
<1>3. \A i \in Inodes : m[i].up = n[i].up
  BY <1>2, UnusedIsNode DEF Linked
<1>4. \A i \in Inodes : Linked(m, i) <=> Linked(n, i)
  BY <1>3 DEF Linked
<1>5. m \in [Inodes -> Nodes]
  BY <1>1, <1>2, UnusedIsNode DEF IsTree
<1>6. IsDir(m, Root) /\ m[Root].up = Nowhere
  BY <1>2, FileAssumption DEF IsTree, IsDir, Linked
<1>7. ASSUME NEW i \in Inodes \ {Root}
      PROVE  IF m[i].up = Nowhere THEN m[i] = Unused \/ i \in held
             ELSE /\ m[i].name \in Names /\ IsDir(m, m[i].up) /\ Linked(m, m[i].up)
                  /\ \A j \in Entries(m, m[i].up) : m[j].name = m[i].name => j = i
  <2>1. CASE m[i].up = Nowhere
    BY <2>1, <1>2, <1>3 DEF Linked
  <2>2. CASE m[i].up # Nowhere
    <3>1. Linked(n, i) /\ m[i] = n[i] /\ n[i].up # Nowhere
      BY <2>2, <1>2, <1>3 DEF Linked
    <3>2. /\ n[i].name \in Names /\ IsDir(n, n[i].up) /\ Linked(n, n[i].up)
          /\ \A j \in Entries(n, n[i].up) : n[j].name = n[i].name => j = i
      BY <3>1 DEF IsTree
    <3>3. n[i].up \in Inodes
      BY <3>1 DEF IsTree, Nodes
    <3>4. IsDir(m, m[i].up) /\ Linked(m, m[i].up)
      BY <3>1, <3>2, <3>3, <1>2, <1>4 DEF IsDir
    <3>5. ASSUME NEW j \in Entries(m, m[i].up) PROVE j \in Entries(n, n[i].up) /\ m[j] = n[j]
      <4>1. j \in Inodes \ {Root} /\ m[j].up = m[i].up
        BY DEF Entries
      <4>2. n[j].up = n[i].up /\ n[j].up # Nowhere
        BY <4>1, <3>1, <1>3
      <4> QED BY <4>1, <4>2, <1>2 DEF Entries, Linked
    <3> QED BY <2>2, <3>1, <3>2, <3>4, <3>5
  <2> QED BY <2>1, <2>2
<1>8. \A S \in SUBSET (Inodes \ {Root}) : S # {} => \E i \in S : m[i].up \notin S
  BY <1>3 DEF IsTree
<1>9. \A i \in Inodes : m[i].kind = "none" => m[i].up = Nowhere
  BY <1>2, <1>3, UnusedIsNode DEF IsTree
<1>10. IsTree(m, held)
  BY <1>5, <1>6, <1>7, <1>8, <1>9 DEF IsTree
<1>11. Keeps(n, m) /\ Keeps(m, n)
  BY <1>2, <1>4 DEF Keeps
<1> QED BY <1>2, <1>3, <1>10, <1>11 DEF m

LEMMA DataTree ==
  ASSUME NEW n, IsTree(n, Inodes), NEW i, NEW x \in Data
  PROVE  IsTree([n EXCEPT ![i].data = x], Inodes)
<1> DEFINE m == [n EXCEPT ![i].data = x]
<1>1. n \in [Inodes -> Nodes]
  BY DEF IsTree
<1>2. m \in [Inodes -> Nodes] /\ \A j \in Inodes : m[j].up = n[j].up /\ m[j].name = n[j].name /\ m[j].kind = n[j].kind
  BY <1>1 DEF Nodes
<1> HIDE DEF m
<1>3. \A j \in Inodes : Entries(m, j) = Entries(n, j) /\ (Linked(m, j) <=> Linked(n, j)) /\ (IsDir(m, j) <=> IsDir(n, j))
  BY <1>2 DEF Entries, Linked, IsDir
<1>4. IsDir(m, Root) /\ m[Root].up = Nowhere
  BY <1>2, <1>3, FileAssumption DEF IsTree
<1>5. ASSUME NEW j \in Inodes \ {Root}, n[j].up # Nowhere
      PROVE  /\ m[j].name \in Names /\ IsDir(m, m[j].up) /\ Linked(m, m[j].up)
             /\ \A k \in Entries(m, m[j].up) : m[k].name = m[j].name => k = j
  <2>1. /\ n[j].name \in Names /\ IsDir(n, n[j].up) /\ Linked(n, n[j].up)
        /\ \A k \in Entries(n, n[j].up) : n[k].name = n[j].name => k = j
    BY <1>5 DEF IsTree
  <2>2. n[j].up \in Inodes
    BY <1>1, <1>5 DEF Nodes
  <2>3. Entries(n, n[j].up) \subseteq Inodes
    BY DEF Entries
  <2> QED BY <2>1, <2>2, <2>3, <1>2, <1>3
<1>6. \A S \in SUBSET (Inodes \ {Root}) : S # {} => \E j \in S : m[j].up \notin S
  BY <1>2 DEF IsTree
<1>7. \A j \in Inodes : m[j].kind = "none" => m[j].up = Nowhere
  BY <1>2 DEF IsTree
<1> QED BY <1>2, <1>4, <1>5, <1>6, <1>7 DEF IsTree, m

\* What is unlinked has no entries.
LEMMA UnlinkTree ==
  ASSUME NEW n, IsTree(n, Inodes), NEW i \in Inodes \ {Root}, Entries(n, i) = {}
  PROVE  /\ IsTree(Unlink(n, i), Inodes) /\ Keeps(Unlink(n, i), n)
         /\ ~Linked(Unlink(n, i), i)
         /\ \A j \in Inodes \ {i} : Unlink(n, i)[j] = n[j]
         /\ Unlink(n, i)[i].kind = n[i].kind
<1> DEFINE m == Unlink(n, i)
<1>1. n \in [Inodes -> Nodes]
  BY DEF IsTree
<1>2. /\ m \in [Inodes -> Nodes] /\ \A j \in Inodes \ {i} : m[j] = n[j]
      /\ m[i].up = Nowhere /\ m[i].kind = n[i].kind
  BY <1>1 DEF Unlink, Nodes
<1> HIDE DEF m
<1>3. \A j \in Inodes : Linked(m, j) <=> Linked(n, j) /\ j # i
  BY <1>2 DEF Linked
<1>4. IsDir(m, Root) /\ m[Root].up = Nowhere
  BY <1>2, FileAssumption DEF IsTree, IsDir
<1>5. ASSUME NEW j \in Inodes \ {Root}, m[j].up # Nowhere
      PROVE  /\ m[j].name \in Names /\ IsDir(m, m[j].up) /\ Linked(m, m[j].up)
             /\ \A k \in Entries(m, m[j].up) : m[k].name = m[j].name => k = j
  <2>1. j # i /\ m[j] = n[j] /\ n[j].up # Nowhere
    BY <1>2, <1>5
  <2>2. /\ n[j].name \in Names /\ IsDir(n, n[j].up) /\ Linked(n, n[j].up)
        /\ \A k \in Entries(n, n[j].up) : n[k].name = n[j].name => k = j
    BY <2>1 DEF IsTree
  <2>3. n[j].up \in Inodes
    BY <1>1, <2>1 DEF Nodes
  <2>4. n[j].up # i
    BY <2>1 DEF Entries
  <2>5. \A k \in Entries(m, m[j].up) : k \in Entries(n, n[j].up) /\ m[k] = n[k]
    BY <2>1, <1>2, <1>5 DEF Entries
  <2> QED BY <2>1, <2>2, <2>3, <2>4, <2>5, <1>2, <1>3 DEF IsDir
<1>6. ASSUME NEW S \in SUBSET (Inodes \ {Root}), S # {} PROVE \E j \in S : m[j].up \notin S
  <2>1. CASE i \in S
    BY <2>1, <1>2, FileAssumption
  <2>2. CASE i \notin S
    BY <2>2, <1>2, <1>6 DEF IsTree
  <2> QED BY <2>1, <2>2
<1>7. Keeps(m, n)
  BY <1>2, <1>3 DEF Keeps
<1>8. \A j \in Inodes : m[j].kind = "none" => m[j].up = Nowhere
  BY <1>2 DEF IsTree
<1>9. IsTree(m, Inodes)
  BY <1>2, <1>4, <1>5, <1>6, <1>8 DEF IsTree
<1> QED BY <1>2, <1>3, <1>7, <1>9 DEF m

LEMMA CreateTree ==
  ASSUME NEW n, IsTree(n, Inodes), NEW d \in Inodes, NEW path \in Seq(Names), path # <<>>,
         CannotCreate(n, d, path) = {}, NEW kind \in {"dir", "file"}
  PROVE  LET m == Create(n, d, path, kind) IN
         /\ IsTree(m, Inodes) /\ Keeps(n, m)
         /\ Lookup(m, d, path) \in Free(n) /\ Found(m, d, path)
         /\ m[Lookup(m, d, path)].kind = kind /\ Linked(m, Lookup(m, d, path))
         /\ \A j \in Inodes : j # Lookup(m, d, path) => m[j] = n[j]
<1> DEFINE m == Create(n, d, path, kind)
           up == Parent(n, d, path)
           f == CHOOSE i \in Free(n) : TRUE
           x == Last(path)
<1>1. d \in Places
  BY DEF Places
<1>2. up \in Inodes /\ IsDir(n, up) /\ x \notin EntryNames(n, up) /\ Linked(n, up) /\ Free(n) # {}
  BY <1>1, LookupLast, NoErrorIsFound DEF CannotCreate
<1>3. x \in Names /\ up = Lookup(n, d, Front(path)) /\ Front(path) \in Seq(Names)
  BY <1>1, LookupLast DEF Parent
<1>4. f \in Free(n)
  BY <1>2
<1>5. f \in Inodes \ {Root} /\ n[f] = Unused
  BY <1>4 DEF Free
<1>6. m = [n EXCEPT ![f] = [up |-> up, name |-> x, kind |-> kind, data |-> Empty]]
  BY DEF Create
<1> HIDE DEF m, up, f, x
<1>7. n \in [Inodes -> Nodes] /\ [up |-> up, name |-> x, kind |-> kind, data |-> Empty] \in Nodes
  BY <1>2, <1>3, FileAssumption DEF IsTree, Nodes, Kinds
<1>8. /\ m \in [Inodes -> Nodes] /\ \A j \in Inodes \ {f} : m[j] = n[j]
      /\ m[f].up = up /\ m[f].name = x /\ m[f].kind = kind
  BY <1>5, <1>6, <1>7
<1>9. up # f /\ n[f].up = Nowhere /\ ~IsDir(n, f) /\ up # Nowhere
  BY <1>2, <1>5, UnusedIsNode, FileAssumption DEF IsDir
<1>10. \A j \in Inodes \ {Root} : n[j].up # f
  <2> SUFFICES ASSUME NEW j \in Inodes \ {Root}, n[j].up = f PROVE FALSE
    OBVIOUS
  <2>1. n[j].up # Nowhere
    BY <1>5, FileAssumption
  <2> QED BY <2>1, <1>9 DEF IsTree
<1>11. \A j \in Inodes : Linked(m, j) <=> Linked(n, j) \/ j = f
  BY <1>8, <1>9 DEF Linked
<1>12. IsDir(m, Root) /\ m[Root].up = Nowhere
  BY <1>5, <1>8, FileAssumption DEF IsTree, IsDir
<1>13. \A u \in Inodes : u # up => Entries(m, u) = Entries(n, u)
  BY <1>8, <1>9, FileAssumption DEF Entries
<1>14. Entries(m, up) = Entries(n, up) \cup {f}
  BY <1>5, <1>8, <1>9 DEF Entries
<1>15. \A j \in Entries(n, up) : n[j].name # x /\ j # f
  BY <1>2, <1>5, <1>9 DEF EntryNames, Entries
<1>16. ASSUME NEW j \in Inodes \ {Root}, m[j].up # Nowhere
       PROVE  /\ m[j].name \in Names /\ IsDir(m, m[j].up) /\ Linked(m, m[j].up)
              /\ \A k \in Entries(m, m[j].up) : m[k].name = m[j].name => k = j
  <2>1. CASE j = f
    <3>1. \A k \in Entries(m, up) : k # f => m[k].name # x
      BY <1>8, <1>14, <1>15 DEF Entries
    <3> QED BY <2>1, <3>1, <1>2, <1>3, <1>8, <1>9, <1>11 DEF IsDir
  <2>2. CASE j # f
    <3>1. m[j] = n[j] /\ n[j].up # Nowhere
      BY <2>2, <1>8, <1>16
    <3>2. /\ n[j].name \in Names /\ IsDir(n, n[j].up) /\ Linked(n, n[j].up)
          /\ \A k \in Entries(n, n[j].up) : n[k].name = n[j].name => k = j
      BY <3>1 DEF IsTree
    <3>3. n[j].up \in Inodes /\ n[j].up # f
      BY <1>7, <1>10, <3>1 DEF Nodes
    <3>4. \A k \in Entries(m, n[j].up) : k # f => k \in Entries(n, n[j].up) /\ m[k] = n[k]
      BY <3>3, <1>8, <1>13, <1>14 DEF Entries
    <3>5. f \in Entries(m, n[j].up) => n[j].name # x
      <4>1. f \in Entries(m, n[j].up) => n[j].up = up
        BY <1>8 DEF Entries
      <4>2. j \in Entries(n, n[j].up)
        BY DEF Entries
      <4> QED BY <4>1, <4>2, <1>15
    <3> QED BY <3>1, <3>2, <3>3, <3>4, <3>5, <1>8, <1>11 DEF IsDir
  <2> QED BY <2>1, <2>2
<1>17. ASSUME NEW S \in SUBSET (Inodes \ {Root}), S # {} PROVE \E j \in S : m[j].up \notin S
  <2> SUFFICES ASSUME \A j \in S : m[j].up \in S PROVE FALSE
    OBVIOUS
  <2> DEFINE T == S \ {f}
  <2>1. T # {}
    BY <1>8, <1>9, <1>17
  <2>2. \A j \in T : n[j].up \in T
    BY <1>8, <1>10
  <2>3. T \in SUBSET (Inodes \ {Root})
    OBVIOUS
  <2> HIDE DEF T
  <2> QED BY <2>1, <2>2, <2>3 DEF IsTree
<1>18. IsTree(m, Inodes)
  <2>1. \A j \in Inodes : m[j].kind = "none" => m[j].up = Nowhere
    BY <1>8 DEF IsTree
  <2> QED BY <2>1, <1>8, <1>12, <1>16, <1>17 DEF IsTree
<1>19. Keeps(n, m)
  BY <1>5, <1>8, <1>9 DEF Keeps, Linked
<1>20. Lookup(m, d, Front(path)) = up
  BY <1>2, <1>3, <1>18, <1>19, KeptIsFound DEF Found
<1>21. Component(m, up, x) = f
  <2>1. up \notin Errors /\ IsDir(m, up)
    BY <1>2, <1>8, <1>9, FileAssumption DEF IsDir
  <2>2. {j \in Entries(m, up) : m[j].name = x} = {f}
    BY <1>8, <1>14, <1>15 DEF Entries
  <2> QED BY <2>1, <2>2 DEF Component
<1>22. Lookup(m, d, path) = f
  <2>1. Parent(m, d, path) = up
    BY <1>20 DEF Parent
  <2>2. Lookup(m, d, path) = Component(m, Parent(m, d, path), Last(path))
    BY <1>1, LookupLast
  <2> QED BY <1>21, <2>1, <2>2 DEF x
<1> QED BY <1>4, <1>5, <1>8, <1>11, <1>18, <1>19, <1>22 DEF m, Found

\* rename moves an entry, and what it replaces goes.
LEMMA RenamedTree ==
  ASSUME NEW n, IsTree(n, Inodes), NEW d \in Inodes, NEW from \in Seq(Names), from # <<>>,
         NEW to \in Seq(Names), to # <<>>, CannotRename(n, d, from, to) = {}
  PROVE  IsTree(Renamed(n, d, from, to), Inodes)
<1> DEFINE i == Lookup(n, d, from)
           j == Lookup(n, d, to)
           up == Parent(n, d, to)
           x == Last(to)
           m == Renamed(n, d, from, to)
           replaced == j \in Inodes /\ j # i
<1>1. d \in Places /\ n \in [Inodes -> Nodes]
  BY DEF Places, IsTree
<1>2. i \in Places /\ j \in Places /\ up \in Places /\ x \in Names /\ j = Component(n, up, x)
  BY <1>1, LookupLast, LookupSteps
<1>3. i \in Inodes /\ up \in Inodes /\ IsDir(n, up) /\ up \notin Below(n, i)
  BY <1>2, NoErrorIsFound DEF CannotRename
<1>4. i \in Inodes \ {Root} /\ Linked(n, i) /\ n[i].up \in Inodes
  BY <1>3, FoundIsEntry DEF Found
<1>5. j \in Inodes => j \in Inodes \ {Root} /\ Linked(n, up) /\ n[j].up = up /\ n[j].name = x
  BY FoundIsEntry DEF Found
<1>6. j \in Errors => Linked(n, up) /\ x \notin EntryNames(n, up)
  <2> SUFFICES ASSUME j \in Errors PROVE Linked(n, up) /\ x \notin EntryNames(n, up)
    OBVIOUS
  <2>1. Linked(n, up)
    BY <1>2, <1>3, NoErrorIsFound DEF CannotRename
  <2>2. j \notin Inodes
    BY FileAssumption
  <2>3. x \notin EntryNames(n, up)
    BY <2>2, <1>2, <1>3, ComponentIsPlace
  <2> QED BY <2>1, <2>3
<1>7. replaced => Entries(n, j) = {}
  <2> SUFFICES ASSUME replaced, Entries(n, j) # {} PROVE FALSE
    OBVIOUS
  <2>1. j \notin Errors /\ i \notin Errors /\ up \notin Errors
    BY <1>3, FileAssumption
  <2>2. ~IsDir(n, j)
    BY <2>1, <1>3 DEF CannotRename
  <2>3. PICK k \in Inodes \ {Root} : n[k].up = j
    BY DEF Entries
  <2>4. j # Nowhere
    BY FileAssumption
  <2> QED BY <2>2, <2>3, <2>4 DEF IsTree
<1>8. m = [(IF replaced THEN Unlink(n, j) ELSE n) EXCEPT ![i].up = up, ![i].name = x]
  BY <1>2, <1>3, NoErrorIsFound DEF Renamed
<1> HIDE DEF m, replaced
<1>9. /\ m \in [Inodes -> Nodes] /\ m[i].up = up /\ m[i].name = x /\ m[i].kind = n[i].kind
      /\ replaced => m[j].up = Nowhere /\ m[j].kind = n[j].kind
      /\ \A k \in Inodes : k # i /\ ~(replaced /\ k = j) => m[k] = n[k]
  <2>1. CASE replaced
    <3> DEFINE c == Unlink(n, j)
    <3>1. j \in Inodes /\ j # i
      BY <2>1 DEF replaced
    <3>2. /\ c \in [Inodes -> Nodes] /\ \A k \in Inodes \ {j} : c[k] = n[k]
          /\ c[j].up = Nowhere /\ c[j].kind = n[j].kind
      BY <1>1, <3>1 DEF Unlink, Nodes
    <3> HIDE DEF c
    <3>3. m = [c EXCEPT ![i].up = up, ![i].name = x]
      BY <1>8, <2>1 DEF c
    <3> HIDE DEF i, j, up, x
    <3>4. /\ m \in [Inodes -> Nodes] /\ m[i].up = up /\ m[i].name = x /\ m[i].kind = c[i].kind
          /\ \A k \in Inodes : k # i => m[k] = c[k]
      BY <1>2, <1>3, <3>2, <3>3 DEF Nodes
    <3> QED BY <2>1, <3>1, <3>2, <3>4, <1>3
  <2>2. CASE ~replaced
    <3>1. m = [n EXCEPT ![i].up = up, ![i].name = x]
      BY <1>8, <2>2
    <3> HIDE DEF i, j, up, x
    <3>2. /\ m \in [Inodes -> Nodes] /\ m[i].up = up /\ m[i].name = x /\ m[i].kind = n[i].kind
          /\ \A k \in Inodes : k # i => m[k] = n[k]
      BY <1>1, <1>2, <1>3, <3>1 DEF Nodes
    <3> QED BY <2>2, <3>2
  <2> QED BY <2>1, <2>2
<1>10. replaced => j \in Inodes /\ j # i /\ up # j
  <2> SUFFICES ASSUME replaced, up = j PROVE FALSE
    BY DEF replaced
  <2>1. j \in Entries(n, j)
    BY <1>5 DEF replaced, Entries
  <2> QED BY <1>7, <2>1
<1>11. up # i /\ Linked(n, up)
  <2>1. up # i
    BY <1>3 DEF Below
  <2>2. Linked(n, up)
    BY <1>2, <1>5, <1>6 DEF Places
  <2> QED BY <2>1, <2>2
<1> HIDE DEF i, j, up, x
<1>12. \A k \in Inodes : /\ m[k].kind = n[k].kind
                         /\ Linked(m, k) <=> Linked(n, k) /\ ~(replaced /\ k = j)
  <2> TAKE k \in Inodes
  <2>1. CASE k = i
    BY <2>1, <1>3, <1>4, <1>9, <1>10, FileAssumption DEF Linked
  <2>2. CASE replaced /\ k = j
    BY <2>2, <1>5, <1>9, <1>10 DEF Linked
  <2>3. CASE k # i /\ ~(replaced /\ k = j)
    BY <2>3, <1>9 DEF Linked
  <2> QED BY <2>1, <2>2, <2>3
<1>13. IsDir(m, Root) /\ m[Root].up = Nowhere
  <2>1. Root # i /\ ~(replaced /\ Root = j)
    BY <1>4, <1>5 DEF replaced
  <2> QED BY <2>1, <1>9, FileAssumption DEF IsTree, IsDir
<1>14. \A k \in Inodes \ {Root}, u \in Inodes :
         m[k].up = u /\ k # i => n[k].up = u /\ m[k] = n[k]
  BY <1>9, FileAssumption
<1>15. \A k \in Inodes \ {Root} : m[k].up = up /\ k # i => n[k].name # x
  <2> SUFFICES ASSUME NEW k \in Inodes \ {Root}, m[k].up = up, k # i, n[k].name = x PROVE FALSE
    OBVIOUS
  <2>1. n[k].up = up /\ k \in Entries(n, up)
    BY <1>3, <1>14 DEF Entries
  <2>2. up # Nowhere
    BY <1>3, FileAssumption
  <2>3. j \notin Errors
    BY <2>1, <1>6 DEF EntryNames
  <2>4. j \in Inodes
    BY <2>3, <1>2 DEF Places
  <2>5. j \in Entries(n, up) /\ n[j].name = x
    BY <2>4, <1>5 DEF Entries
  <2>6. j = k
    BY <2>1, <2>2, <2>5 DEF IsTree
  <2>7. replaced
    BY <2>4, <2>6 DEF replaced
  <2>8. m[k].up = Nowhere
    BY <2>6, <2>7, <1>9
  <2> QED BY <2>2, <2>8
<1>16. ASSUME NEW k \in Inodes \ {Root}, m[k].up # Nowhere
       PROVE  /\ m[k].name \in Names /\ IsDir(m, m[k].up) /\ Linked(m, m[k].up)
              /\ \A l \in Entries(m, m[k].up) : m[l].name = m[k].name => l = k
  <2>1. CASE k = i
    <3>1. IsDir(m, up) /\ Linked(m, up)
      BY <1>3, <1>10, <1>11, <1>12 DEF IsDir
    <3>2. \A l \in Entries(m, up) : l # i => m[l].name # x
      BY <1>3, <1>14, <1>15 DEF Entries
    <3> QED BY <2>1, <3>1, <3>2, <1>2, <1>9
  <2>2. CASE k # i
    <3>1. ~(replaced /\ k = j) /\ m[k] = n[k]
      BY <2>2, <1>9, <1>16
    <3>2. /\ n[k].name \in Names /\ IsDir(n, n[k].up) /\ Linked(n, n[k].up)
          /\ \A l \in Entries(n, n[k].up) : n[l].name = n[k].name => l = k
      BY <3>1, <1>16 DEF IsTree
    <3>3. n[k].up \in Inodes
      BY <3>1, <1>1, <1>16 DEF Nodes
    <3>4. ~(replaced /\ n[k].up = j)
      BY <1>7 DEF Entries
    <3>5. \A l \in Entries(m, n[k].up) : l # i => l \in Entries(n, n[k].up) /\ m[l] = n[l]
      BY <3>3, <1>14 DEF Entries
    <3>6. i \in Entries(m, n[k].up) => n[k].name # x
      <4> SUFFICES ASSUME i \in Entries(m, n[k].up) PROVE n[k].name # x
        OBVIOUS
      <4>1. m[k].up = up
        BY <3>1, <1>9 DEF Entries
      <4> QED BY <4>1, <2>2, <1>15
    <3> QED BY <3>1, <3>2, <3>3, <3>4, <3>5, <3>6, <1>9, <1>12 DEF IsDir
  <2> QED BY <2>1, <2>2
<1>17. ASSUME NEW S \in SUBSET (Inodes \ {Root}), S # {} PROVE \E k \in S : m[k].up \notin S
  <2> SUFFICES ASSUME \A k \in S : m[k].up \in S PROVE FALSE
    OBVIOUS
  <2>1. \A k \in S : k # i => n[k].up \in S
    BY <1>9, <1>10, FileAssumption
  <2>2. i \in S
    BY <2>1, <1>17 DEF IsTree
  <2>3. up \in S
    BY <2>2, <1>9
  <2>4. PICK T \in SUBSET Inodes : i \in T /\ HoldsEntries(n, T) /\ up \notin T
    BY <1>3 DEF Below
  <2> DEFINE U == S \ T
  <2>5. U # {} /\ U \in SUBSET (Inodes \ {Root})
    BY <2>3, <2>4
  <2>6. \A k \in U : n[k].up \in U
    BY <2>1, <2>4 DEF HoldsEntries
  <2> HIDE DEF U
  <2> QED BY <2>5, <2>6 DEF IsTree
<1>18. \A k \in Inodes : m[k].kind = "none" => m[k].up = Nowhere
  <2>1. n[i].kind # "none"
    BY <1>4, FileAssumption DEF IsTree
  <2> QED BY <2>1, <1>9 DEF IsTree
<1> QED BY <1>9, <1>13, <1>16, <1>17, <1>18 DEF IsTree, m

-----------------------------------------------------------------------------
(* What a command has to do is well formed.                                *)

Ops == {"copyAny", "copyDir", "copyKids", "openSrc", "openDst", "pump", "unlink", "rmAny", "rmKids",
        "mkdir", "mkdirOk", "rmdir", "rmdirUp", "rename", "utime", "create", "chdir", "show"}
OfTwo == {"copyAny", "copyDir", "copyKids", "openSrc", "openDst", "pump", "rename"}
CallSet == [op : Ops, a : Seq(Names), b : Seq(Names)]
CallOK(c) == /\ c.op \notin {"chdir", "show"} => c.a # <<>>
             /\ c.op \in OfTwo => c.b # <<>>

Files0 == Places \cup {NoFile}
RunSet == [cmd : CommandLines \cup {Idle}, args : Seq(Seq(Seq(Names))), todo : Seq(CallSet),
           ret : {0, 1}, src : Files0, dst : Files0, cut : SUBSET Seq(Names)]

\* A copy has its source open from openSrc to pump, which are the call at hand.
TodoOK(todo, src) ==
  \A k \in 1..Len(todo) : /\ CallOK(todo[k])
                          /\ todo[k].op \in {"openDst", "pump"} => k = 1 /\ src \in Inodes

RunParts(r) ==
  /\ r \in RunSet
  /\ \A k \in 1..Len(r.args) : OperandOK(r.cmd, r.args[k])
  /\ r.cmd = Idle => r.args = <<>>
  /\ TodoOK(r.todo, r.src)
Closed(r) == r.src = NoFile /\ r.dst = NoFile
Copying(todo) == todo # <<>> /\ todo[1].op \in {"openDst", "pump"}
RunOK(r) == /\ RunParts(r)
            /\ r.todo = <<>> => r.args = <<>>
            /\ Closed(r) \/ Copying(r.todo)

Orderly ==
  /\ IsTree(node, Held(run, cwd))
  /\ cwd \in [Shells -> Inodes]
  /\ run \in [Shells -> RunSet] /\ \A p \in Shells : RunOK(run[p])
  /\ script \in [Shells -> Seq(CommandLines)]
  /\ \A p \in Shells : \A k \in 1..Len(script[p]) :
       \A arg \in Range(script[p][k].args) : OperandOK(script[p][k], arg)
  /\ before = [p \in Shells |-> before[p]]
  /\ alone \in [Shells -> BOOLEAN]

LEMMA OneCall ==
  ASSUME NEW c \in CallSet, CallOK(c), NEW src, c.op \in {"openDst", "pump"} => src \in Inodes
  PROVE  <<c>> \in Seq(CallSet) /\ <<c>> # <<>> /\ TodoOK(<<c>>, src) /\ Len(<<c>>) = 1 /\ <<c>>[1] = c
BY DEF TodoOK

LEMMA CallsOK ==
  ASSUME NEW c \in CommandLines, NEW arg \in Seq(Seq(Names)), OperandOK(c, arg), NEW src
  PROVE  Calls(c, arg) \in Seq(CallSet) /\ Calls(c, arg) # <<>> /\ TodoOK(Calls(c, arg), src)
<1>1. c.name \in CommandNames /\ Len(arg) \in {1, 2}
  BY DEF CommandLines, OperandOK
<1>2. arg[1] \in Seq(Names)
  BY <1>1, ElementOfSeq
<1>3. c.name \notin {"cd", "ls", "pwd"} => arg[1] # <<>>
  BY <1>1 DEF OperandOK, Range
<1>4. c.name \in {"cp", "mv"} => arg[2] \in Seq(Names) /\ arg[2] # <<>>
  <2>1. c.name \in {"cp", "mv"} => Len(arg) = 2 /\ <<>> \notin Range(arg)
    BY DEF OperandOK
  <2>2. Len(arg) = 2 => arg[2] \in Seq(Names) /\ arg[2] \in Range(arg)
    BY DEF Range
  <2> QED BY <2>1, <2>2
<1>5. <<>> \in Seq(Names)
  OBVIOUS
<1> DEFINE Fits(s) == s \in Seq(CallSet) /\ s # <<>> /\ TodoOK(s, src)
<1>6. \A op \in Ops \ {"openDst", "pump"} : \A a, b \in Seq(Names) :
        CallOK(Call(op, a, b)) => Fits(<<Call(op, a, b)>>)
  <2> TAKE op \in Ops \ {"openDst", "pump"}
  <2> TAKE a, b \in Seq(Names)
  <2> HAVE CallOK(Call(op, a, b))
  <2>1. Call(op, a, b) \in CallSet /\ Call(op, a, b).op = op
    BY DEF Call, CallSet
  <2> QED BY <2>1, OneCall
<1>7. ASSUME c.name = "mkdir" PROVE Fits(MkDirP(arg[1]))
  <2> DEFINE path == arg[1]
             s == MkDirP(path)
  <2>1. path \in Seq(Names) /\ path # <<>> /\ Len(path) \in Nat /\ Len(path) > 0
    BY <1>2, <1>3, <1>7, EmptySeq
  <2>2. s = [k \in 1..Len(path) |-> Call("mkdirOk", Upto(path, k), <<>>)]
    BY DEF MkDirP, Prefixes1, Upto
  <2>3. \A k \in 1..Len(path) : Upto(path, k) \in Seq(Names) /\ Upto(path, k) # <<>>
    BY <2>1, Prefix
  <2> HIDE DEF path, s
  <2>4. \A k \in 1..Len(path) : /\ s[k] \in CallSet /\ CallOK(s[k])
                                /\ s[k].op \notin {"openDst", "pump"}
    BY <2>2, <2>3, <1>5 DEF Call, CallSet, CallOK, Ops, OfTwo
  <2>5. s \in Seq(CallSet) /\ Len(s) = Len(path)
    BY <2>1, <2>2, <2>4
  <2>6. s # <<>>
    BY <2>1, <2>5
  <2>7. TodoOK(s, src)
    BY <2>4, <2>5 DEF TodoOK
  <2> QED BY <2>5, <2>6, <2>7 DEF s, path
<1> HIDE DEF Fits
<1>8. c.name = "cp" => Fits(CpRun(c, arg))
  BY <1>2, <1>3, <1>4, <1>6 DEF CpRun, CallOK, Call, Ops, OfTwo
<1>9. c.name = "mv" => Fits(MvRun(c, arg))
  BY <1>2, <1>3, <1>4, <1>6 DEF MvRun, CallOK, Call, Ops, OfTwo
<1>10. c.name = "rm" => Fits(RmRun(c, arg))
  BY <1>2, <1>3, <1>5, <1>6 DEF RmRun, CallOK, Call, Ops, OfTwo
<1>11. c.name = "mkdir" => Fits(MkDirRun(c, arg))
  BY <1>2, <1>3, <1>5, <1>6, <1>7 DEF MkDirRun, CallOK, Call, Ops, OfTwo
<1>12. c.name = "rmdir" => Fits(RmDirRun(c, arg))
  BY <1>2, <1>3, <1>5, <1>6 DEF RmDirRun, CallOK, Call, Ops, OfTwo
<1>13. c.name = "touch" => Fits(TouchRun(c, arg))
  BY <1>2, <1>3, <1>5, <1>6 DEF TouchRun, CallOK, Call, Ops, OfTwo
<1>14. c.name = "cd" => Fits(CdRun(c, arg))
  BY <1>2, <1>5, <1>6 DEF CdRun, CallOK, Call, Ops, OfTwo
<1>15. Fits(ReadRun(c, arg))
  BY <1>2, <1>5, <1>6 DEF ReadRun, CallOK, Call, Ops, OfTwo
<1>16. Fits(Calls(c, arg))
  BY <1>8, <1>9, <1>10, <1>11, <1>12, <1>13, <1>14, <1>15 DEF Calls
<1> QED BY <1>16 DEF Fits

LEMMA LoadOK ==
  ASSUME NEW r, RunParts(r), Closed(r) \/ Copying(r.todo)
  PROVE  /\ RunOK(Load(r)) /\ Load(r).cmd = r.cmd /\ Load(r).ret = r.ret
         /\ Load(r).src = r.src /\ Load(r).dst = r.dst
         /\ r.todo # <<>> => Load(r) = r
<1>1. CASE r.todo = <<>> /\ r.args # <<>>
  <2> DEFINE calls == Calls(r.cmd, Head(r.args))
             s == [r EXCEPT !.todo = calls, !.args = Tail(r.args)]
  <2>1. r \in RunSet /\ r.args \in Seq(Seq(Seq(Names))) /\ r.cmd \in CommandLines
    BY <1>1 DEF RunParts, RunSet
  <2>2. /\ Head(r.args) \in Seq(Seq(Names)) /\ Tail(r.args) \in Seq(Seq(Seq(Names)))
        /\ Len(Tail(r.args)) = Len(r.args) - 1 /\ Head(r.args) = r.args[1]
        /\ \A k \in 1..Len(Tail(r.args)) : Tail(r.args)[k] = r.args[k + 1]
    BY <1>1, <2>1, HeadTailProperties
  <2>3. Len(r.args) \in Nat /\ Len(r.args) > 0
    BY <1>1, <2>1, EmptySeq
  <2>4. \A k \in 1..Len(Tail(r.args)) : OperandOK(r.cmd, Tail(r.args)[k])
    <3> TAKE k \in 1..Len(Tail(r.args))
    <3>1. k + 1 \in 1..Len(r.args)
      BY <2>2, <2>3
    <3>2. OperandOK(r.cmd, r.args[k + 1])
      BY <3>1 DEF RunParts
    <3> QED BY <2>2, <3>2
  <2>5. OperandOK(r.cmd, Head(r.args))
    BY <2>2, <2>3 DEF RunParts
  <2>6. calls \in Seq(CallSet) /\ calls # <<>> /\ TodoOK(calls, r.src)
    BY <2>1, <2>2, <2>5, CallsOK
  <2> HIDE DEF calls
  <2>7. /\ s \in RunSet /\ s.todo = calls /\ s.args = Tail(r.args) /\ s.cmd = r.cmd /\ s.ret = r.ret
        /\ s.src = r.src /\ s.dst = r.dst
    BY <2>1, <2>2, <2>6 DEF RunSet
  <2>8. Load(r) = s
    BY <1>1 DEF Load, calls
  <2> HIDE DEF s
  <2>9. r.cmd # Idle
    BY <1>1 DEF RunParts
  <2>10. RunOK(s)
    <3>1. Closed(s)
      BY <1>1, <2>7 DEF Closed, Copying
    <3> QED BY <2>4, <2>6, <2>7, <2>9, <3>1 DEF RunOK, RunParts
  <2> QED BY <1>1, <2>7, <2>8, <2>10
<1>2. CASE ~(r.todo = <<>> /\ r.args # <<>>)
  BY <1>2 DEF Load, RunOK
<1> QED BY <1>1, <1>2

\* What remains to do when the call at hand is replaced by others.
LEMMA Replaced ==
  ASSUME NEW r, RunParts(r), r.todo # <<>>, NEW calls \in Seq(CallSet), TodoOK(calls, r.src)
  PROVE  LET s == [r EXCEPT !.todo = calls \o Tail(@)] IN
         /\ RunParts(s) /\ s.cmd = r.cmd /\ s.ret = r.ret /\ s.src = r.src /\ s.dst = r.dst
         /\ s.todo = calls \o Tail(r.todo) /\ s.args = r.args
         /\ calls # <<>> => s.todo # <<>> /\ s.todo[1] = calls[1]
         /\ \A k \in 1..Len(s.todo) : k > Len(calls) => s.todo[k].op \notin {"openDst", "pump"}
<1> DEFINE t == Tail(r.todo)
           u == calls \o t
           s == [r EXCEPT !.todo = calls \o Tail(@)]
<1>1. r \in RunSet /\ r.todo \in Seq(CallSet) /\ TodoOK(r.todo, r.src)
  BY DEF RunParts, RunSet
<1>2. t \in Seq(CallSet) /\ Len(t) = Len(r.todo) - 1 /\ \A k \in 1..Len(t) : t[k] = r.todo[k + 1]
  BY <1>1, HeadTailProperties
<1>3. u \in Seq(CallSet) /\ Len(u) = Len(calls) + Len(t)
      /\ \A k \in 1..(Len(calls) + Len(t)) : u[k] = IF k <= Len(calls) THEN calls[k] ELSE t[k - Len(calls)]
  <2> HIDE DEF t
  <2> QED BY <1>2, ConcatProperties
<1>4. Len(calls) \in Nat /\ Len(t) \in Nat /\ Len(r.todo) = Len(t) + 1
  <2>1. Len(r.todo) \in Nat /\ Len(t) \in Nat
    BY <1>1, <1>2, LenProperties
  <2> QED BY <1>2, <2>1
<1>5. s = [r EXCEPT !.todo = u]
  OBVIOUS
<1> HIDE DEF t, u, s
<1>6. /\ s \in RunSet /\ s.todo = u /\ s.args = r.args /\ s.cmd = r.cmd /\ s.ret = r.ret
      /\ s.src = r.src /\ s.dst = r.dst
  BY <1>1, <1>3, <1>5 DEF RunSet
<1>7. \A k \in 1..Len(t) : CallOK(t[k]) /\ t[k].op \notin {"openDst", "pump"}
  <2> TAKE k \in 1..Len(t)
  <2>1. k + 1 \in 1..Len(r.todo) /\ k + 1 # 1
    BY <1>4
  <2>2. t[k] = r.todo[k + 1]
    BY <1>2
  <2> QED BY <1>1, <2>1, <2>2 DEF TodoOK
<1>8. ASSUME NEW k \in 1..Len(u)
      PROVE  \/ k \in 1..Len(calls) /\ u[k] = calls[k]
             \/ k > Len(calls) /\ CallOK(u[k]) /\ u[k].op \notin {"openDst", "pump"}
  <2>1. CASE k <= Len(calls)
    BY <2>1, <1>3
  <2>2. CASE ~(k <= Len(calls))
    <3>1. k - Len(calls) \in 1..Len(t) /\ u[k] = t[k - Len(calls)] /\ k > Len(calls)
      BY <2>2, <1>3, <1>4
    <3> DEFINE l == k - Len(calls)
    <3>2. l \in 1..Len(t) /\ u[k] = t[l]
      BY <3>1
    <3> HIDE DEF l
    <3>3. CallOK(t[l]) /\ t[l].op \notin {"openDst", "pump"}
      BY <3>2, <1>7
    <3> QED BY <3>1, <3>2, <3>3
  <2> QED BY <2>1, <2>2
<1>9. TodoOK(u, r.src)
  BY <1>8 DEF TodoOK
<1>10. RunParts(s)
  BY <1>6, <1>9 DEF RunParts
<1>11. calls # <<>> => u # <<>> /\ u[1] = calls[1]
  <2> SUFFICES ASSUME calls # <<>> PROVE u # <<>> /\ u[1] = calls[1]
    OBVIOUS
  <2>1. Len(calls) > 0
    BY EmptySeq
  <2>2. Len(u) > 0 /\ u[1] = calls[1]
    BY <2>1, <1>3, <1>4
  <2> QED BY <2>2
<1>12. \A k \in 1..Len(u) : k > Len(calls) => u[k].op \notin {"openDst", "pump"}
  BY <1>4, <1>8
<1> QED BY <1>6, <1>10, <1>11, <1>12 DEF s, t, u

LEMMA InsteadOK ==
  ASSUME NEW r, RunOK(r), r.todo # <<>>, r.todo[1].op \notin {"openDst", "pump"},
         NEW calls \in Seq(CallSet), TodoOK(calls, r.src)
  PROVE  LET s == Instead(r, calls) IN
         /\ RunOK(s) /\ s.cmd = r.cmd /\ s.ret = r.ret /\ s.src = r.src /\ s.dst = r.dst
         /\ calls # <<>> => s = [r EXCEPT !.todo = calls \o Tail(@)]
<1> DEFINE s == [r EXCEPT !.todo = calls \o Tail(@)]
<1>1. /\ RunParts(s) /\ s.cmd = r.cmd /\ s.ret = r.ret /\ s.src = r.src /\ s.dst = r.dst
      /\ calls # <<>> => s.todo # <<>>
  BY Replaced DEF RunOK
<1>2. Instead(r, calls) = Load(s)
  BY DEF Instead
<1>. Closed(s)
  BY <1>1 DEF RunOK, Closed, Copying
<1> HIDE DEF s
<1>3. /\ RunOK(Load(s)) /\ Load(s).cmd = s.cmd /\ Load(s).ret = s.ret /\ Load(s).src = s.src
      /\ Load(s).dst = s.dst /\ (s.todo # <<>> => Load(s) = s)
  BY <1>1, LoadOK
<1> QED BY <1>1, <1>2, <1>3 DEF s

LEMMA DoneOK ==
  ASSUME NEW r, RunOK(r), r.todo # <<>>, r.todo[1].op \notin {"openDst", "pump"}
  PROVE  RunOK(Done(r)) /\ Done(r).cmd = r.cmd /\ Done(r).ret = r.ret
<1>1. <<>> \in Seq(CallSet) /\ TodoOK(<<>>, r.src)
  BY DEF TodoOK
<1> QED BY <1>1, InsteadOK DEF Done

LEMMA FailOK ==
  ASSUME NEW r, RunOK(r)
  PROVE  RunOK(Fail(r)) /\ Fail(r).cmd = r.cmd /\ Fail(r).ret = 1
<1> DEFINE s == [r EXCEPT !.todo = <<>>, !.ret = 1, !.src = NoFile, !.dst = NoFile]
<1>1. /\ s \in RunSet /\ s.todo = <<>> /\ s.args = r.args /\ s.cmd = r.cmd /\ s.ret = 1
      /\ s.src = NoFile /\ s.dst = NoFile
  <2>1. r \in RunSet /\ <<>> \in Seq(CallSet) /\ NoFile \in Files0
    BY DEF RunOK, RunParts, Files0
  <2> QED BY <2>1 DEF RunSet
<1>2. Fail(r) = Load(s)
  BY DEF Fail
<1> HIDE DEF s
<1>3. RunParts(s) /\ Closed(s)
  BY <1>1 DEF RunOK, RunParts, TodoOK, Closed, s
<1> QED BY <1>1, <1>2, <1>3, LoadOK

\* Opening the files of a copy, and closing both.
LEMMA OpensOK ==
  ASSUME NEW r, RunOK(r), r.todo # <<>>, r.todo[1].op = "openSrc", NEW i \in Inodes,
         NEW c \in CallSet, CallOK(c), c.op = "openDst"
  PROVE  RunOK([Instead(r, <<c>>) EXCEPT !.src = i])
<1> DEFINE s == [r EXCEPT !.src = i]
           u == <<c>> \o Tail(r.todo)
           t == [s EXCEPT !.todo = <<c>> \o Tail(@)]
<1>1. r \in RunSet /\ TodoOK(r.todo, r.src)
  BY DEF RunOK, RunParts
<1>2. s \in RunSet /\ s.src = i /\ s.todo = r.todo /\ s.args = r.args /\ s.cmd = r.cmd
  BY <1>1 DEF RunSet, Files0, Places
<1>3. RunParts(s)
  BY <1>1, <1>2 DEF RunOK, RunParts, TodoOK
<1>4. TodoOK(<<c>>, i) /\ <<c>> \in Seq(CallSet) /\ <<c>> # <<>> /\ <<c>>[1] = c
  BY OneCall
<1> HIDE DEF s
<1>5. RunParts(t) /\ t.todo # <<>> /\ t.todo[1] = c
  BY <1>2, <1>3, <1>4, Replaced
<1>6. t.todo = u
  BY <1>2 DEF RunSet
<1>7. Instead(r, <<c>>) = [r EXCEPT !.todo = <<c>> \o Tail(@)]
  BY <1>1, <1>5, <1>6 DEF Instead, Load, RunSet
<1>8. [Instead(r, <<c>>) EXCEPT !.src = i] = t
  <2> HIDE DEF u, t
  <2>1. [Instead(r, <<c>>) EXCEPT !.src = i] = [[r EXCEPT !.todo = u] EXCEPT !.src = i]
    BY <1>7 DEF u
  <2>2. t = [[r EXCEPT !.src = i] EXCEPT !.todo = u]
    BY <1>2 DEF t, s, u
  <2> QED BY <2>1, <2>2, <1>1 DEF RunSet
<1> HIDE DEF t
<1>9. RunOK(t)
  BY <1>5 DEF RunOK, Copying
<1> QED BY <1>8, <1>9

LEMMA WritesOK ==
  ASSUME NEW r, RunOK(r), r.todo # <<>>, r.src \in Inodes, NEW c \in CallSet, CallOK(c), c.op = "pump",
         NEW i \in Places
  PROVE  RunOK([Instead(r, <<c>>) EXCEPT !.dst = i])
<1> DEFINE s == [r EXCEPT !.todo = <<c>> \o Tail(@)]
           t == [s EXCEPT !.dst = i]
<1>1. TodoOK(<<c>>, r.src) /\ <<c>> \in Seq(CallSet) /\ <<c>> # <<>> /\ <<c>>[1] = c
  BY OneCall
<1>2. RunParts(s) /\ s.todo # <<>> /\ s.todo[1] = c
  BY <1>1, Replaced DEF RunOK
<1>3. Instead(r, <<c>>) = s
  BY <1>2 DEF Instead, Load
<1> HIDE DEF s
<1>4. t \in RunSet /\ t.todo = s.todo /\ t.args = s.args /\ t.cmd = s.cmd /\ t.src = s.src
  BY <1>2 DEF RunParts, RunSet, Files0
<1>5. RunOK(t)
  BY <1>2, <1>4 DEF RunOK, RunParts, Copying
<1> QED BY <1>3, <1>5

LEMMA ClosesOK ==
  ASSUME NEW r, RunOK(r), r.todo # <<>>
  PROVE  RunOK(Done(Shut(r)))
<1> DEFINE s == [r EXCEPT !.todo = <<>> \o Tail(@)]
           t == [s EXCEPT !.src = NoFile, !.dst = NoFile]
<1>1. <<>> \in Seq(CallSet) /\ TodoOK(<<>>, r.src) /\ Len(<<>>) = 0
  BY DEF TodoOK
<1>2. /\ RunParts(s) /\ s.cmd = r.cmd /\ s.args = r.args
      /\ \A k \in 1..Len(s.todo) : k > Len(<<>>) => s.todo[k].op \notin {"openDst", "pump"}
  BY <1>1, Replaced DEF RunOK
<1>3. r \in RunSet
  BY DEF RunOK, RunParts
<1>4. Done(Shut(r)) = Load(t)
  <2>1. [[r EXCEPT !.src = NoFile, !.dst = NoFile] EXCEPT !.todo = <<>> \o Tail(@)] = t
    BY <1>3 DEF RunSet
  <2> QED BY <2>1 DEF Done, Instead, Shut
<1> HIDE DEF s
<1>5. t \in RunSet /\ t.todo = s.todo /\ t.args = s.args /\ t.cmd = s.cmd /\ Closed(t)
  BY <1>2 DEF RunParts, RunSet, Files0, Closed
<1>6. RunParts(t)
  BY <1>1, <1>2, <1>5 DEF RunParts, TodoOK, Closed
<1> HIDE DEF t
<1> QED BY <1>4, <1>5, <1>6, LoadOK

\* The history of what a copy left out.
LEMMA CutOK ==
  ASSUME NEW r, RunOK(r), NEW path \in Seq(Names)
  PROVE  LET s == [r EXCEPT !.cut = @ \cup {path}] IN
         /\ RunOK(s) /\ s.cmd = r.cmd /\ s.args = r.args /\ s.todo = r.todo /\ s.ret = r.ret
         /\ s.src = r.src /\ s.dst = r.dst /\ s.cut = r.cut \cup {path}
<1> DEFINE s == [r EXCEPT !.cut = @ \cup {path}]
<1>1. r \in RunSet
  BY DEF RunOK, RunParts
<1>2. /\ s \in RunSet /\ s.cmd = r.cmd /\ s.args = r.args /\ s.todo = r.todo /\ s.ret = r.ret
      /\ s.src = r.src /\ s.dst = r.dst /\ s.cut = r.cut \cup {path}
  BY <1>1 DEF RunSet
<1> HIDE DEF s
<1>3. RunOK(s)
  BY <1>2 DEF RunOK, RunParts, TodoOK, Closed, Copying
<1> QED BY <1>2, <1>3 DEF s

-----------------------------------------------------------------------------
(* Every step leaves things in order.                                      *)

LEMMA InOrderAtFirst == Init => Orderly
<1> SUFFICES ASSUME Init PROVE Orderly
  OBVIOUS
<1>1. IsTree(node, {})
  BY TreesAreTrees DEF Init
<1>2. IsTree(node, Held(run, cwd))
  BY <1>1 DEF IsTree
<1>3. cwd \in [Shells -> Inodes]
  BY FileAssumption DEF Init
<1>4. \A p \in Shells : run[p] = AtRest(Idle, 0)
  BY DEF Init
<1>5. AtRest(Idle, 0) \in RunSet
  BY DEF AtRest, RunSet, Files0
<1>6. RunOK(AtRest(Idle, 0))
  BY <1>5 DEF RunOK, RunParts, AtRest, TodoOK, Closed
<1>7. run \in [Shells -> RunSet] /\ \A p \in Shells : RunOK(run[p])
  BY <1>4, <1>5, <1>6 DEF Init
<1>8. script \in [Shells -> Seq(CommandLines)]
  BY ScriptsAreLines DEF Init
<1>9. ASSUME NEW p \in Shells, NEW k \in 1..Len(script[p]), NEW arg \in Range(script[p][k].args)
      PROVE  OperandOK(script[p][k], arg)
  <2>1. script[p] \in Seq(CommandLines)
    BY <1>8
  <2>2. k \in DOMAIN script[p]
    BY <2>1
  <2> QED BY <2>2, <1>9, ScriptsAreLines DEF Init
<1>10. before = [p \in Shells |-> before[p]] /\ alone \in [Shells -> BOOLEAN]
  BY DEF Init
<1> QED BY <1>2, <1>3, <1>7, <1>8, <1>9, <1>10 DEF Orderly

LEMMA AtHand ==
  ASSUME Orderly, NEW p \in Shells, NEW op, Next1(p, op)
  PROVE  /\ RunOK(run[p]) /\ run[p].todo # <<>> /\ run[p] \in RunSet /\ op \in Ops
         /\ run[p].todo[1] = Head(run[p].todo) /\ Head(run[p].todo).op = op
         /\ A(p) \in Seq(Names) /\ B(p) \in Seq(Names)
         /\ op \notin {"chdir", "show"} => A(p) # <<>>
         /\ op \in OfTwo => B(p) # <<>>
         /\ op \in {"openDst", "pump"} => run[p].src \in Inodes
         /\ cwd[p] \in Inodes /\ cwd[p] \in Places
         /\ IsTree(node, Inodes)
         /\ Lookup(node, cwd[p], A(p)) \in Places
<1>1. run[p] \in RunSet /\ RunOK(run[p]) /\ run[p].todo # <<>> /\ Head(run[p].todo).op = op
  BY DEF Orderly, Next1, Busy
<1>2. run[p].todo \in Seq(CallSet) /\ TodoOK(run[p].todo, run[p].src)
  BY <1>1 DEF RunSet, RunOK, RunParts
<1>3. Head(run[p].todo) \in CallSet /\ Head(run[p].todo) = run[p].todo[1] /\ 1 \in 1..Len(run[p].todo)
  BY <1>1, <1>2, EmptySeq, HeadTailProperties
<1>4. CallOK(Head(run[p].todo)) /\ (op \in {"openDst", "pump"} => run[p].src \in Inodes)
  BY <1>1, <1>2, <1>3 DEF TodoOK
<1>5. cwd[p] \in Inodes /\ cwd[p] \in Places /\ IsTree(node, Inodes)
  BY AnyHeld DEF Orderly, Places
<1>6. A(p) \in Seq(Names) /\ B(p) \in Seq(Names) /\ op \in Ops
  BY <1>1, <1>3 DEF A, B, CallSet
<1> QED BY <1>1, <1>3, <1>4, <1>5, <1>6, LookupSteps DEF A, B, CallOK

LEMMA ReturnsInOrder ==
  ASSUME Orderly, NEW p \in Shells, NEW r, RunOK(r), NEW n, IsTree(n, Inodes), Returns(p, r, n)
  PROVE  Orderly'
<1>1. r \in RunSet
  BY DEF RunOK, RunParts
<1>2. run' \in [Shells -> RunSet] /\ \A q \in Shells : RunOK(run'[q])
  BY <1>1 DEF Returns, Orderly
<1>3. IsTree(node', Held(run', cwd'))
  BY TidyTree DEF Returns
<1>4. alone' \in [Shells -> BOOLEAN]
  BY DEF Returns, Orderly
<1> QED BY <1>2, <1>3, <1>4 DEF Returns, Orderly

LEMMA StartInOrder ==
  ASSUME Orderly, NEW p \in Shells, Start(p)
  PROVE  /\ Orderly'
         /\ Head(script[p]) \in CommandLines
         /\ run'[p].cmd = Head(script[p]) /\ run'[p].ret = 0
         /\ run'[p] = Load([AtRest(Head(script[p]), 0) EXCEPT !.args = Head(script[p]).args])
<1> DEFINE c == Head(script[p])
           r == [AtRest(c, 0) EXCEPT !.args = c.args]
<1>1. script[p] \in Seq(CommandLines) /\ script[p] # <<>>
  BY DEF Orderly, Start
<1>2. /\ c \in CommandLines /\ c = script[p][1] /\ 1 \in 1..Len(script[p])
      /\ Tail(script[p]) \in Seq(CommandLines) /\ Len(Tail(script[p])) = Len(script[p]) - 1
      /\ \A k \in 1..Len(Tail(script[p])) : Tail(script[p])[k] = script[p][k + 1]
  BY <1>1, EmptySeq, HeadTailProperties
<1>3. c.args \in Seq(Seq(Seq(Names)))
  BY <1>2 DEF CommandLines
<1>4. \A k \in 1..Len(c.args) : OperandOK(c, c.args[k])
  <2> TAKE k \in 1..Len(c.args)
  <2>1. c.args[k] \in Range(script[p][1].args)
    BY <1>2, <1>3 DEF Range
  <2> QED BY <1>2, <2>1 DEF Orderly
<1>5. run' = [run EXCEPT ![p] = Load(r)]
  BY DEF Start
<1> HIDE DEF c
<1>6. r \in RunSet /\ r.args = c.args /\ r.cmd = c /\ r.todo = <<>> /\ r.ret = 0
  <2>1. <<>> \in Seq(CallSet) /\ NoFile \in Files0
    BY DEF Files0
  <2>2. r = [cmd |-> c, args |-> c.args, todo |-> <<>>, ret |-> 0, src |-> NoFile, dst |-> NoFile, cut |-> {}]
    BY DEF AtRest
  <2> QED BY <1>2, <1>3, <2>1, <2>2 DEF RunSet
<1>7. c # Idle
  BY <1>2 DEF CommandLines, CommandNames, Idle
<1> HIDE DEF r
<1>8. RunParts(r) /\ Closed(r)
  BY <1>4, <1>6, <1>7 DEF RunParts, TodoOK, Closed, AtRest, r
<1>9. RunOK(Load(r)) /\ Load(r).cmd = c /\ Load(r).ret = 0 /\ Load(r).src = r.src /\ Load(r).dst = r.dst
  BY <1>6, <1>8, LoadOK
<1>10. Load(r) \in RunSet
  BY <1>9 DEF RunOK, RunParts
<1>11. run' \in [Shells -> RunSet] /\ (\A q \in Shells : RunOK(run'[q])) /\ run'[p] = Load(r)
  BY <1>5, <1>9, <1>10 DEF Orderly
<1>12. script' \in [Shells -> Seq(CommandLines)] /\ script'[p] = Tail(script[p])
       /\ \A q \in Shells : q # p => script'[q] = script[q]
  BY <1>2 DEF Orderly, Start
<1>13. ASSUME NEW q \in Shells, NEW k \in 1..Len(script'[q]), NEW arg \in Range(script'[q][k].args)
       PROVE  OperandOK(script'[q][k], arg)
  <2>1. CASE q # p
    BY <1>12, <1>13, <2>1 DEF Orderly
  <2>2. CASE q = p
    <3>1. script'[q][k] = script[p][k + 1] /\ k + 1 \in 1..Len(script[p])
      BY <1>1, <1>2, <1>12, <2>2
    <3> QED BY <1>13, <3>1 DEF Orderly
  <2> QED BY <2>1, <2>2
<1>14. before' = [q \in Shells |-> before'[q]] /\ alone' \in [Shells -> BOOLEAN]
  BY DEF Start, Orderly
<1>15. Held(run', cwd') = Held(run', cwd)
  BY DEF Start
<1>16. IsTree(node', Held(run', cwd'))
  <2>1. ASSUME NEW i \in Inodes \ {Root}, i \in Held(run, cwd) PROVE i \in Held(run', cwd)
    <3>1. PICK q \in Shells : i \in {run[q].src, run[q].dst, cwd[q]}
      BY <2>1 DEF Held
    <3>2. CASE q # p
      BY <3>1, <3>2, <1>5 DEF Held, Orderly
    <3>3. CASE q = p
      <4>1. Closed(run[p])
        BY DEF Start, Busy, Orderly, RunOK, Copying
      <4>2. i = cwd[p]
        BY <3>1, <3>3, <4>1, FileAssumption DEF Closed, NoFile
      <4> QED BY <4>2 DEF Held
    <3> QED BY <3>2, <3>3
  <2> QED BY <2>1, <1>15 DEF Start, Orderly, IsTree
<1> QED BY <1>9, <1>11, <1>12, <1>13, <1>14, <1>16, <1>2 DEF Orderly, Start, c, r

LEMMA CallIs ==
  ASSUME NEW op \in Ops, NEW a \in Seq(Names), NEW b \in Seq(Names)
  PROVE  /\ Call(op, a, b) \in CallSet /\ Call(op, a, b).op = op
         /\ Call(op, a, b).a = a /\ Call(op, a, b).b = b
BY DEF Call, CallSet

LEMMA CallOfOne ==
  ASSUME NEW op \in Ops \ OfTwo, NEW a \in Seq(Names)
  PROVE  /\ Call(op, a, <<>>) \in CallSet /\ Call(op, a, <<>>).op = op /\ Call(op, a, <<>>).a = a
         /\ a # <<>> => CallOK(Call(op, a, <<>>))
<1> DEFINE e == <<>>
<1>1. e \in Seq(Names)
  OBVIOUS
<1> HIDE DEF e
<1>2. Call(op, a, e) \in CallSet /\ Call(op, a, e).op = op /\ Call(op, a, e).a = a
  BY <1>1, CallIs
<1>3. a # <<>> => CallOK(Call(op, a, e))
  BY <1>2 DEF CallOK
<1> QED BY <1>2, <1>3 DEF e

\* One call in the place of the one at hand.
LEMMA InsteadOne ==
  ASSUME NEW r, RunOK(r), r.todo # <<>>, r.todo[1].op \notin {"openDst", "pump"},
         NEW op \in Ops \ {"openDst", "pump"}, NEW a \in Seq(Names), NEW b \in Seq(Names), a # <<>>,
         op \in OfTwo => b # <<>>
  PROVE  RunOK(Instead(r, <<Call(op, a, b)>>))
<1>1. Call(op, a, b) \in CallSet /\ CallOK(Call(op, a, b)) /\ Call(op, a, b).op = op
  BY CallIs DEF CallOK
<1>2. <<Call(op, a, b)>> \in Seq(CallSet) /\ TodoOK(<<Call(op, a, b)>>, r.src)
  BY <1>1, OneCall
<1> QED BY <1>2, InsteadOK

LEMMA InsteadOfOne ==
  ASSUME NEW r, RunOK(r), r.todo # <<>>, r.todo[1].op \notin {"openDst", "pump"},
         NEW op \in Ops \ OfTwo, NEW a \in Seq(Names), a # <<>>
  PROVE  RunOK(Instead(r, <<Call(op, a, <<>>)>>))
<1> DEFINE c == Call(op, a, <<>>)
<1>1. c \in CallSet /\ CallOK(c) /\ c.op = op /\ op \notin {"openDst", "pump"}
  BY CallOfOne DEF OfTwo
<1> HIDE DEF c
<1>2. <<c>> \in Seq(CallSet) /\ TodoOK(<<c>>, r.src)
  BY <1>1, OneCall
<1>3. RunOK(Instead(r, <<c>>))
  BY <1>2, InsteadOK
<1> QED BY <1>3 DEF c

LEMMA OrdersOfEntries ==
  ASSUME NEW n, NEW h, IsTree(n, h), NEW i \in Inodes, NEW q \in Orders(EntryNames(n, i))
  PROVE  q \in Seq(Names) /\ Range(q) = EntryNames(n, i)
<1> DEFINE S == EntryNames(n, i)
<1>1. IsFiniteSet(Entries(n, i))
  BY FileAssumption, FS_Subset DEF Entries
<1>2. IsFiniteSet(S)
  <2> DEFINE f == [j \in Entries(n, i) |-> n[j].name]
  <2>1. f \in Surjection(Entries(n, i), S)
    BY DEF EntryNames, Surjection
  <2> HIDE DEF f
  <2> QED BY <1>1, <2>1, FS_Surjection
<1>3. Cardinality(S) \in Nat
  BY <1>2, FS_CardinalityType
<1>4. S \subseteq Names
  <2> SUFFICES ASSUME NEW j \in Entries(n, i) PROVE n[j].name \in Names
    BY DEF EntryNames
  <2>1. j \in Inodes \ {Root} /\ n[j].up = i /\ i # Nowhere
    BY FileAssumption DEF Entries
  <2> QED BY <2>1 DEF IsTree
<1> HIDE DEF S
<1>5. q \in [1..Cardinality(S) -> S] /\ Range(q) = S
  BY DEF Orders, S
<1> QED BY <1>3, <1>4, <1>5 DEF S

LEMMA ChildIsPath ==
  ASSUME NEW path \in Seq(Names), NEW x \in Names
  PROVE  /\ ChildPath(path, x) \in Seq(Names) /\ ChildPath(path, x) # <<>>
         /\ Len(ChildPath(path, x)) = Len(path) + 1
         /\ Front(ChildPath(path, x)) = path /\ Last(ChildPath(path, x)) = x
         /\ \A k \in 0..Len(path) : Upto(ChildPath(path, x), k) = Upto(path, k)
<1> DEFINE c == Append(path, x)
<1>1. /\ c \in Seq(Names) /\ c # <<>> /\ Len(c) = Len(path) + 1
      /\ (\A k \in 1..Len(path) : c[k] = path[k]) /\ c[Len(path) + 1] = x
  BY AppendProperties
<1>2. Len(path) \in Nat
  OBVIOUS
<1> HIDE DEF c
<1>3. ASSUME NEW k \in 0..Len(path) PROVE Upto(c, k) = Upto(path, k)
  <2>1. Upto(c, k) \in Seq(Names) /\ Len(Upto(c, k)) = k /\ \A j \in 1..k : Upto(c, k)[j] = c[j]
    BY <1>1, <1>2, Prefix
  <2>2. Upto(path, k) \in Seq(Names) /\ Len(Upto(path, k)) = k /\ \A j \in 1..k : Upto(path, k)[j] = path[j]
    BY Prefix
  <2>3. ASSUME NEW j \in 1..k PROVE Upto(c, k)[j] = Upto(path, k)[j]
    <3>1. j \in 1..Len(path)
      BY <1>2
    <3> QED BY <1>1, <2>1, <2>2, <3>1
  <2> QED BY <2>1, <2>2, <2>3, SeqEqual
<1>4. Upto(path, Len(path)) = path
  BY SubSeqFull DEF Upto
<1>5. Front(c) = Upto(c, Len(path)) /\ Last(c) = x
  BY <1>1, <1>2 DEF Front, Last, Upto
<1> QED BY <1>1, <1>2, <1>3, <1>4, <1>5 DEF ChildPath, c

\* copyKids and rmKids: a call for each entry.
LEMMA KidsOK ==
  ASSUME NEW q \in Seq(Names), NEW op \in Ops \ {"openDst", "pump"}, NEW a \in Seq(Names),
         NEW b \in Seq(Names), NEW src
  PROVE  LET s == [k \in 1..Len(q) |-> Call(op, ChildPath(a, q[k]), ChildPath(b, q[k]))]
             t == [k \in 1..Len(q) |-> Call(op, ChildPath(a, q[k]), <<>>)]
         IN /\ s \in Seq(CallSet) /\ TodoOK(s, src)
            /\ op \notin OfTwo => t \in Seq(CallSet) /\ TodoOK(t, src) /\ Len(t) = Len(q)
<1> DEFINE s == [k \in 1..Len(q) |-> Call(op, ChildPath(a, q[k]), ChildPath(b, q[k]))]
           t == [k \in 1..Len(q) |-> Call(op, ChildPath(a, q[k]), <<>>)]
<1>1. \A k \in 1..Len(q) : /\ ChildPath(a, q[k]) \in Seq(Names) /\ ChildPath(a, q[k]) # <<>>
                           /\ ChildPath(b, q[k]) \in Seq(Names) /\ ChildPath(b, q[k]) # <<>>
  BY ElementOfSeq, ChildIsPath
<1>2. Len(q) \in Nat /\ <<>> \in Seq(Names)
  OBVIOUS
<1>3. \A k \in 1..Len(q) : s[k] \in CallSet /\ CallOK(s[k]) /\ s[k].op = op
  BY <1>1, CallIs DEF CallOK
<1>4. ASSUME NEW k \in 1..Len(q)
      PROVE  t[k] \in CallSet /\ t[k].op = op /\ (op \notin OfTwo => CallOK(t[k]))
  <2>1. t[k] = Call(op, ChildPath(a, q[k]), <<>>)
    OBVIOUS
  <2> DEFINE e == <<>>
             p == ChildPath(a, q[k])
  <2>2. p \in Seq(Names) /\ p # <<>> /\ e \in Seq(Names) /\ t[k] = Call(op, p, e)
    BY <1>1, <1>2, <2>1
  <2> HIDE DEF t, e, p
  <2>3. t[k] \in CallSet /\ t[k].op = op /\ t[k].a = p
    BY <2>2, CallIs
  <2> QED BY <2>2, <2>3 DEF CallOK
<1>5. s \in Seq(CallSet) /\ Len(s) = Len(q)
  BY <1>2, <1>3
<1>6. t \in Seq(CallSet) /\ Len(t) = Len(q)
  BY <1>2, <1>4
<1> HIDE DEF s, t
<1>7. TodoOK(s, src) /\ (op \notin OfTwo => TodoOK(t, src))
  BY <1>3, <1>4, <1>5, <1>6 DEF TodoOK
<1> QED BY <1>5, <1>6, <1>7 DEF s, t

LEMMA JoinOK ==
  ASSUME NEW s \in Seq(CallSet), NEW c \in CallSet, NEW src, TodoOK(s, src), CallOK(c),
         c.op \notin {"openDst", "pump"}
  PROVE  s \o <<c>> \in Seq(CallSet) /\ TodoOK(s \o <<c>>, src) /\ s \o <<c>> # <<>>
<1> DEFINE t == <<c>>
           u == s \o t
<1>1. t \in Seq(CallSet) /\ Len(t) = 1 /\ t[1] = c
  OBVIOUS
<1> HIDE DEF t
<1>2. /\ u \in Seq(CallSet) /\ Len(u) = Len(s) + Len(t)
      /\ \A k \in 1..(Len(s) + Len(t)) : u[k] = IF k <= Len(s) THEN s[k] ELSE t[k - Len(s)]
  BY <1>1, ConcatProperties
<1>3. Len(s) \in Nat
  OBVIOUS
<1> HIDE DEF u
<1>4. \A k \in 1..Len(u) : (k \in 1..Len(s) /\ u[k] = s[k]) \/ u[k] = c
  BY <1>1, <1>2, <1>3
<1>5. TodoOK(u, src)
  BY <1>2, <1>4 DEF TodoOK
<1>6. u # <<>>
  BY <1>1, <1>2, <1>3
<1> QED BY <1>2, <1>5, <1>6 DEF u, t

LEMMA FilesHaveNoEntries ==
  ASSUME NEW n, NEW h, IsTree(n, h), NEW i \in Inodes, ~IsDir(n, i)
  PROVE  Entries(n, i) = {}
<1>1. \A j \in Inodes \ {Root} : n[j].up # i
  BY FileAssumption DEF IsTree
<1> QED BY <1>1 DEF Entries

\* unlink and rmdir of what a path leads to.
LEMMA RemovalIsTree ==
  ASSUME Orderly, NEW p \in Shells, NEW op, Next1(p, op), op \notin {"chdir", "show"},
         Lookup(node, cwd[p], A(p)) \notin Errors, Entries(node, Lookup(node, cwd[p], A(p))) = {}
  PROVE  /\ IsTree(Unlink(node, Lookup(node, cwd[p], A(p))), Inodes)
         /\ Lookup(node, cwd[p], A(p)) \in Inodes \ {Root}
<1> DEFINE i == Lookup(node, cwd[p], A(p))
<1>1. i \in Inodes /\ Found(node, cwd[p], A(p))
  BY AtHand DEF Places, Found
<1>2. i \in Inodes \ {Root}
  BY <1>1, AtHand, FoundIsEntry
<1> QED BY <1>2, AtHand, UnlinkTree

LEMMA StepInOrder ==
  ASSUME Orderly, NEW p \in Shells, Step(p)
  PROVE  Orderly'
<1> DEFINE r == run[p]
           i == Lookup(node, cwd[p], A(p))
<1>1. i \in Places => (i \in Errors \/ i \in Inodes)
  BY DEF Places
<1>2. CASE Start(p)
  BY <1>2, StartInOrder
<1>3. CASE CopyAny(p)
  <2>1. Next1(p, "copyAny") /\ "copyAny" \in OfTwo
    BY <1>3 DEF CopyAny, OfTwo
  <2>2. \A op \in {"copyDir", "openSrc"} : RunOK(Instead(r, <<Call(op, A(p), B(p))>>))
    BY <2>1, AtHand, InsteadOne DEF Ops
  <2>3. RunOK(Fail(r))
    BY <2>1, AtHand, FailOK
  <2> DEFINE s == IF i \in Errors THEN Fail(r)
                  ELSE Instead(r, <<Call(IF IsDir(node, i) THEN "copyDir" ELSE "openSrc", A(p), B(p))>>)
  <2>4. RunOK(s)
    BY <2>2, <2>3
  <2>5. Returns(p, s, node)
    BY <1>3 DEF CopyAny
  <2> HIDE DEF s
  <2> QED BY <2>1, <2>4, <2>5, AtHand, ReturnsInOrder
<1>4. CASE CopyDir(p)
  <2>1. Next1(p, "copyDir") /\ "copyDir" \in OfTwo
    BY <1>4 DEF CopyDir, OfTwo
  <2> DEFINE s == Instead(r, <<Call("copyKids", A(p), B(p))>>)
             no == CannotCreate(node, cwd[p], B(p))
  <2>2. RunOK(s) /\ RunOK(Fail(r))
    BY <2>1, AtHand, FailOK, InsteadOne DEF Ops
  <2>3. CASE no = {}
    <3>1. IsTree(Create(node, cwd[p], B(p), "dir"), Inodes)
      BY <2>1, <2>3, AtHand, CreateTree
    <3>2. Returns(p, s, Create(node, cwd[p], B(p), "dir"))
      BY <1>4, <2>3 DEF CopyDir
    <3> QED BY <2>2, <3>1, <3>2, ReturnsInOrder
  <2>4. CASE no # {}
    <3>1. PICK t \in {s, Fail(r)} : Returns(p, t, node)
      BY <1>4, <2>4 DEF CopyDir
    <3> HIDE DEF s
    <3>2. RunOK(t)
      BY <2>2, <3>1
    <3> QED BY <2>1, <3>1, <3>2, AtHand, ReturnsInOrder
  <2> QED BY <2>3, <2>4
<1>5. CASE CopyKids(p)
  <2>1. Next1(p, "copyKids") /\ "copyKids" \in OfTwo
    BY <1>5 DEF CopyKids, OfTwo
  <2>2. RunOK(Fail(r)) /\ IsTree(node, Inodes) /\ i \in Places
    BY <2>1, AtHand, FailOK
  <2>3. CASE i \in Errors \/ ~IsDir(node, i)
    <3>1. Returns(p, Fail(r), node)
      BY <1>5, <2>3 DEF CopyKids
    <3> QED BY <2>2, <3>1, ReturnsInOrder
  <2>4. CASE ~(i \in Errors \/ ~IsDir(node, i))
    <3> DEFINE calls(q) == [k \in 1..Len(q) |-> Call("copyAny", ChildPath(A(p), q[k]), ChildPath(B(p), q[k]))]
    <3>1. PICK q \in Orders(EntryNames(node, i)) : Returns(p, Instead(r, calls(q)), node)
      BY <1>5, <2>4 DEF CopyKids
    <3>2. q \in Seq(Names)
      BY <1>1, <2>2, <2>4, OrdersOfEntries
    <3>3. calls(q) \in Seq(CallSet) /\ TodoOK(calls(q), r.src)
      <4>1. "copyAny" \in Ops \ {"openDst", "pump"}
        BY DEF Ops
      <4>2. A(p) \in Seq(Names) /\ B(p) \in Seq(Names)
        BY <2>1, AtHand
      <4> QED BY <3>2, <4>1, <4>2, KidsOK
    <3> HIDE DEF calls
    <3>4. RunOK(Instead(r, calls(q)))
      BY <2>1, <3>3, AtHand, InsteadOK
    <3> QED BY <2>2, <3>1, <3>4, ReturnsInOrder
  <2> QED BY <2>3, <2>4
<1>6. CASE OpenSrc(p)
  <2>1. Next1(p, "openSrc") /\ "openSrc" \in OfTwo
    BY <1>6 DEF OpenSrc, OfTwo
  <2> DEFINE c == Call("openDst", A(p), B(p))
             s == IF i \in Errors THEN Fail(r) ELSE [Instead(r, <<c>>) EXCEPT !.src = i]
  <2>2. c \in CallSet /\ CallOK(c) /\ c.op = "openDst"
    BY <2>1, AtHand, CallIs DEF CallOK, Ops
  <2>3. RunOK(Fail(r)) /\ i \in Places /\ RunOK(r) /\ r.todo # <<>> /\ r.todo[1].op = "openSrc"
    BY <2>1, AtHand, FailOK
  <2>4. Returns(p, s, node)
    BY <1>6 DEF OpenSrc
  <2> HIDE DEF c
  <2>5. i \in Inodes => RunOK([Instead(r, <<c>>) EXCEPT !.src = i])
    <3> HIDE DEF i, r
    <3> QED BY <2>2, <2>3, OpensOK
  <2>6. RunOK(s)
    BY <1>1, <2>3, <2>5
  <2> HIDE DEF s
  <2> QED BY <2>1, <2>4, <2>6, AtHand, ReturnsInOrder
<1>7. CASE OpenDst(p)
  <2>1. Next1(p, "openDst") /\ "openDst" \in OfTwo
    BY <1>7 DEF OpenDst, OfTwo
  <2> DEFINE j == Lookup(node, cwd[p], B(p))
             no == CannotCreate(node, cwd[p], B(p))
             n == IF no = {} THEN Create(node, cwd[p], B(p), "file") ELSE [node EXCEPT ![j].data = Empty]
             c == Call("pump", A(p), B(p))
             to == Lookup(n, cwd[p], B(p))
  <2>2. PICK t \in {<<Fail(r), node>>, <<[Instead(r, <<c>>) EXCEPT !.dst = to], n>>} : Returns(p, t[1], t[2])
    <3>1. Returns(p, Fail(r), node) \/ Returns(p, [Instead(r, <<c>>) EXCEPT !.dst = to], n)
      BY <1>7 DEF OpenDst
    <3> DEFINE s == [Instead(r, <<c>>) EXCEPT !.dst = to]
    <3> HIDE DEF s, n
    <3>2. CASE Returns(p, Fail(r), node)
      <4>1. <<Fail(r), node>>[1] = Fail(r) /\ <<Fail(r), node>>[2] = node
        OBVIOUS
      <4> QED BY <3>2, <4>1
    <3>3. CASE Returns(p, s, n)
      <4>1. <<s, n>>[1] = s /\ <<s, n>>[2] = n
        OBVIOUS
      <4> QED BY <3>3, <4>1 DEF s
    <3> QED BY <3>1, <3>2, <3>3 DEF s
  <2>3. c \in CallSet /\ CallOK(c) /\ c.op = "pump"
    BY <2>1, AtHand, CallIs DEF CallOK, Ops
  <2>4. RunOK(Fail(r)) /\ IsTree(node, Inodes) /\ r.src \in Inodes /\ RunOK(r) /\ r.todo # <<>>
    BY <2>1, AtHand, FailOK
  <2>5. IsTree(n, Inodes)
    BY <2>1, AtHand, CreateTree, DataTree, FileAssumption
  <2> HIDE DEF c, n
  <2>6. to \in Places
    BY <2>1, AtHand, LookupSteps
  <2> HIDE DEF to
  <2>7. RunOK([Instead(r, <<c>>) EXCEPT !.dst = to])
    <3> HIDE DEF r
    <3> QED BY <2>3, <2>4, <2>6, WritesOK
  <2>8. RunOK(t[1]) /\ IsTree(t[2], Inodes)
    <3> DEFINE s == [Instead(r, <<c>>) EXCEPT !.dst = to]
    <3> HIDE DEF s
    <3> QED BY <2>2, <2>4, <2>5, <2>7 DEF s
  <2> QED BY <2>2, <2>8, ReturnsInOrder
<1>8. CASE Pump(p)
  <2>1. Next1(p, "pump")
    BY <1>8 DEF Pump
  <2> DEFINE s == Done(Shut(r))
             n == IF node[r.src].kind = "file" THEN [node EXCEPT ![r.dst].data = node[r.src].data] ELSE node
  <2>2. RunOK(s)
    BY <2>1, AtHand, ClosesOK
  <2>3. node[r.src].data \in Data
    BY <2>1, AtHand DEF IsTree, Nodes
  <2>4. IsTree(n, Inodes)
    BY <2>1, <2>3, AtHand, DataTree
  <2>5. Returns(p, s, n)
    BY <1>8 DEF Pump
  <2> HIDE DEF s, n
  <2> QED BY <2>2, <2>4, <2>5, ReturnsInOrder
<1>21. ASSUME NEW t, RunOK(t), BreaksOff(p, t) PROVE Orderly'
  <2>1. Next1(p, "pump")
    BY <1>21 DEF BreaksOff
  <2>2. PICK x \in Data : Returns(p, t, [node EXCEPT ![r.dst].data = x])
    BY <1>21, FileAssumption DEF BreaksOff
  <2>3. IsTree([node EXCEPT ![r.dst].data = x], Inodes)
    BY <2>1, AtHand, DataTree
  <2> QED BY <1>21, <2>2, <2>3, ReturnsInOrder
<1>22. CASE WriteFails(p)
  <2>1. Next1(p, "pump") /\ BreaksOff(p, Fail(r))
    BY <1>22 DEF WriteFails, WriteError, BreaksOff
  <2>2. RunOK(Fail(r))
    BY <2>1, AtHand, FailOK
  <2> QED BY <1>21, <2>1, <2>2
<1>23. CASE CopyCutShort(p)
  <2> DEFINE k == [r EXCEPT !.cut = @ \cup {B(p)}]
             s == Done(Shut(k))
  <2>1. Next1(p, "pump") /\ BreaksOff(p, s)
    BY <1>23 DEF CopyCutShort, BreaksOff
  <2>2. RunOK(k) /\ k.todo # <<>>
    <3>1. RunOK(r) /\ B(p) \in Seq(Names) /\ r.todo # <<>>
      BY <2>1, AtHand
    <3> HIDE DEF r
    <3> QED BY <3>1, CutOK
  <2> HIDE DEF k
  <2>3. RunOK(s)
    BY <2>2, ClosesOK
  <2> QED BY <1>21, <2>1, <2>3
<1>9. \A t : RunOK(t) /\ Returns(p, t, node) => Orderly'
  BY AnyHeld, ReturnsInOrder DEF Orderly
<1>10. CASE RmUnlink(p)
  <2>1. Next1(p, "unlink")
    BY <1>10 DEF RmUnlink
  <2>2. RunOK(Fail(r)) /\ RunOK(Done(r))
    BY <2>1, AtHand, FailOK, DoneOK
  <2>3. CASE i \in Errors \/ IsDir(node, i)
    <3>1. Returns(p, Done(r), node) \/ Returns(p, Fail(r), node)
      BY <1>10, <2>3 DEF RmUnlink
    <3> QED BY <1>9, <2>2, <3>1
  <2>4. CASE ~(i \in Errors \/ IsDir(node, i))
    <3>1. Returns(p, Done(r), Unlink(node, i))
      BY <1>10, <2>4 DEF RmUnlink
    <3>2. Entries(node, i) = {}
      BY <2>1, <2>4, <1>1, AtHand, FilesHaveNoEntries
    <3>3. IsTree(Unlink(node, i), Inodes)
      BY <2>1, <2>4, <3>2, RemovalIsTree
    <3> QED BY <2>2, <3>1, <3>3, ReturnsInOrder
  <2> QED BY <2>3, <2>4
<1>11. CASE RmAny(p)
  <2>1. Next1(p, "rmAny")
    BY <1>11 DEF RmAny
  <2>2. RunOK(Fail(r)) /\ RunOK(Done(r))
    BY <2>1, AtHand, FailOK, DoneOK
  <2>3. \A op \in {"rmKids", "unlink"} : RunOK(Instead(r, <<Call(op, A(p), <<>>)>>))
    <3>1. {"rmKids", "unlink"} \subseteq Ops \ OfTwo
      BY DEF Ops, OfTwo
    <3> QED BY <2>1, <3>1, AtHand, InsteadOfOne
  <2>4. PICK t : Returns(p, t, node) /\ (t \in {Fail(r), Done(r)} \/ \E op \in {"rmKids", "unlink"} :
                                            t = Instead(r, <<Call(op, A(p), <<>>)>>))
    BY <1>11 DEF RmAny
  <2> QED BY <1>9, <2>2, <2>3, <2>4
<1>12. CASE RmKids(p)
  <2>1. Next1(p, "rmKids")
    BY <1>12 DEF RmKids
  <2>2. RunOK(Fail(r)) /\ IsTree(node, Inodes) /\ i \in Places
    BY <2>1, AtHand, FailOK
  <2>3. CASE i \in Errors \/ ~IsDir(node, i)
    <3>1. Returns(p, Fail(r), node)
      BY <1>12, <2>3 DEF RmKids
    <3> QED BY <1>9, <2>2, <3>1
  <2>4. CASE ~(i \in Errors \/ ~IsDir(node, i))
    <3> DEFINE kids(q) == [k \in 1..Len(q) |-> Call("rmAny", ChildPath(A(p), q[k]), <<>>)]
               c == Call("rmdir", A(p), <<>>)
    <3>1. PICK q \in Orders(EntryNames(node, i)) : Returns(p, Instead(r, kids(q) \o <<c>>), node)
      BY <1>12, <2>4 DEF RmKids
    <3>2. q \in Seq(Names)
      BY <1>1, <2>2, <2>4, OrdersOfEntries
    <3>3. kids(q) \in Seq(CallSet) /\ TodoOK(kids(q), r.src)
      <4>1. "rmAny" \in Ops \ {"openDst", "pump"} /\ "rmAny" \notin OfTwo
        BY DEF Ops, OfTwo
      <4>2. A(p) \in Seq(Names)
        BY <2>1, AtHand
      <4> QED BY <3>2, <4>1, <4>2, KidsOK
    <3>4. c \in CallSet /\ CallOK(c) /\ c.op = "rmdir"
      <4>1. "rmdir" \in Ops \ OfTwo
        BY DEF Ops, OfTwo
      <4> QED BY <2>1, <4>1, AtHand, CallOfOne
    <3> HIDE DEF kids, c
    <3>5. RunOK(Instead(r, kids(q) \o <<c>>))
      BY <2>1, <3>3, <3>4, AtHand, JoinOK, InsteadOK
    <3> QED BY <1>9, <3>1, <3>5
  <2> QED BY <2>3, <2>4
<1>13. ASSUME NEW op \in {"mkdir", "mkdirOk"}, MkDir(p, op) PROVE Orderly'
  <2>1. Next1(p, op)
    BY <1>13 DEF MkDir
  <2>2. RunOK(Fail(r)) /\ RunOK(Done(r))
    BY <2>1, AtHand, FailOK, DoneOK
  <2>3. CASE CannotCreate(node, cwd[p], A(p)) = {}
    <3>1. IsTree(Create(node, cwd[p], A(p), "dir"), Inodes)
      BY <2>1, <2>3, AtHand, CreateTree
    <3>2. Returns(p, Done(r), Create(node, cwd[p], A(p), "dir"))
      BY <1>13, <2>3 DEF MkDir
    <3> QED BY <2>2, <3>1, <3>2, ReturnsInOrder
  <2>4. CASE CannotCreate(node, cwd[p], A(p)) # {}
    <3>1. Returns(p, Done(r), node) \/ Returns(p, Fail(r), node)
      BY <1>13, <2>4 DEF MkDir
    <3> QED BY <1>9, <2>2, <3>1
  <2> QED BY <2>3, <2>4
<1>14. CASE RmDir(p)
  <2>1. Next1(p, "rmdir")
    BY <1>14 DEF RmDir
  <2>2. RunOK(Fail(r)) /\ RunOK(Done(r))
    BY <2>1, AtHand, FailOK, DoneOK
  <2>3. CASE CannotRmDir(node, i) = {}
    <3>1. Returns(p, Done(r), Unlink(node, i))
      BY <1>14, <2>3 DEF RmDir
    <3>2. i \notin Errors /\ Entries(node, i) = {}
      BY <2>3 DEF CannotRmDir
    <3>3. IsTree(Unlink(node, i), Inodes)
      BY <2>1, <3>2, RemovalIsTree
    <3> QED BY <2>2, <3>1, <3>3, ReturnsInOrder
  <2>4. CASE CannotRmDir(node, i) # {}
    <3>1. Returns(p, Fail(r), node)
      BY <1>14, <2>4 DEF RmDir
    <3> QED BY <1>9, <2>2, <3>1
  <2> QED BY <2>3, <2>4
<1>15. CASE RmDirUp(p)
  <2>1. Next1(p, "rmdirUp")
    BY <1>15 DEF RmDirUp
  <2>2. RunOK(Fail(r)) /\ RunOK(Done(r))
    BY <2>1, AtHand, FailOK, DoneOK
  <2> DEFINE up == IF Len(A(p)) > 1 THEN <<Call("rmdirUp", Front(A(p)), <<>>)>> ELSE <<>>
  <2>3. CASE CannotRmDir(node, i) = {}
    <3>1. Returns(p, Instead(r, up), Unlink(node, i))
      BY <1>15, <2>3 DEF RmDirUp
    <3>2. i \notin Errors /\ Entries(node, i) = {}
      BY <2>3 DEF CannotRmDir
    <3>3. IsTree(Unlink(node, i), Inodes)
      BY <2>1, <3>2, RemovalIsTree
    <3>4. RunOK(Instead(r, up))
      <4>1. CASE Len(A(p)) > 1
        <5>1. Front(A(p)) \in Seq(Names) /\ Front(A(p)) # <<>>
          <6>1. Front(A(p)) \in Seq(Names) /\ Len(Front(A(p))) = Len(A(p)) - 1
            BY <2>1, AtHand, LookupLast
          <6> QED BY <4>1, <6>1
        <5>2. "rmdirUp" \in Ops \ OfTwo
          BY DEF Ops, OfTwo
        <5>3. RunOK(Instead(r, <<Call("rmdirUp", Front(A(p)), <<>>)>>))
          BY <2>1, <5>1, <5>2, AtHand, InsteadOfOne
        <5> QED BY <4>1, <5>3
      <4>2. CASE ~(Len(A(p)) > 1)
        BY <4>2, <2>2 DEF Done
      <4> QED BY <4>1, <4>2
    <3> HIDE DEF up
    <3> QED BY <3>1, <3>3, <3>4, ReturnsInOrder
  <2>4. CASE CannotRmDir(node, i) # {}
    <3>1. Returns(p, Done(r), node) \/ Returns(p, Fail(r), node)
      BY <1>15, <2>4 DEF RmDirUp, GivesUp
    <3> QED BY <1>9, <2>2, <3>1
  <2> QED BY <2>3, <2>4
<1>16. CASE Rename(p)
  <2>1. Next1(p, "rename") /\ "rename" \in OfTwo
    BY <1>16 DEF Rename, OfTwo
  <2>2. RunOK(Fail(r)) /\ RunOK(Done(r))
    BY <2>1, AtHand, FailOK, DoneOK
  <2>3. CASE CannotRename(node, cwd[p], A(p), B(p)) = {}
    <3>1. Returns(p, Done(r), Renamed(node, cwd[p], A(p), B(p)))
      BY <1>16, <2>3 DEF Rename
    <3>2. IsTree(Renamed(node, cwd[p], A(p), B(p)), Inodes)
      BY <2>1, <2>3, AtHand, RenamedTree
    <3> QED BY <2>2, <3>1, <3>2, ReturnsInOrder
  <2>4. CASE CannotRename(node, cwd[p], A(p), B(p)) # {}
    <3>1. Returns(p, Fail(r), node)
      BY <1>16, <2>4 DEF Rename
    <3> QED BY <1>9, <2>2, <3>1
  <2> QED BY <2>3, <2>4
<1>17. CASE Utime(p)
  <2>1. Next1(p, "utime")
    BY <1>17 DEF Utime
  <2>2. RunOK(Fail(r)) /\ RunOK(Done(r))
    BY <2>1, AtHand, FailOK, DoneOK
  <2>3. RunOK(Instead(r, <<Call("create", A(p), <<>>)>>))
    <3>1. "create" \in Ops \ OfTwo
      BY DEF Ops, OfTwo
    <3> QED BY <2>1, <3>1, AtHand, InsteadOfOne
  <2>4. PICK t \in {Fail(r), Done(r), Instead(r, <<Call("create", A(p), <<>>)>>)} : Returns(p, t, node)
    BY <1>17 DEF Utime
  <2> QED BY <1>9, <2>2, <2>3, <2>4
<1>18. CASE TouchCreate(p)
  <2>1. Next1(p, "create")
    BY <1>18 DEF TouchCreate
  <2>2. RunOK(Fail(r)) /\ RunOK(Done(r))
    BY <2>1, AtHand, FailOK, DoneOK
  <2>3. CASE CannotCreate(node, cwd[p], A(p)) = {}
    <3>1. IsTree(Create(node, cwd[p], A(p), "file"), Inodes)
      BY <2>1, <2>3, AtHand, CreateTree
    <3>2. Returns(p, Done(r), Create(node, cwd[p], A(p), "file"))
      BY <1>18, <2>3 DEF TouchCreate
    <3> QED BY <2>2, <3>1, <3>2, ReturnsInOrder
  <2>4. CASE CannotCreate(node, cwd[p], A(p)) # {}
    <3>1. Returns(p, Done(r), node) \/ Returns(p, Fail(r), node)
      BY <1>18, <2>4 DEF TouchCreate
    <3> QED BY <1>9, <2>2, <3>1
  <2> QED BY <2>3, <2>4
<1>19. CASE ChDir(p)
  <2>1. Next1(p, "chdir")
    BY <1>19 DEF ChDir
  <2>2. RunOK(Fail(r)) /\ RunOK(Done(r)) /\ IsTree(node, Inodes)
    BY <2>1, AtHand, FailOK, DoneOK
  <2>3. cwd' \in [Shells -> Inodes]
    BY <1>19 DEF ChDir, Orderly
  <2>4. PICK t \in {Fail(r), Done(r)} : run' = [run EXCEPT ![p] = t]
    BY <1>19 DEF ChDir, Orderly
  <2>5. t \in RunSet /\ RunOK(t)
    BY <2>2, <2>4 DEF RunOK, RunParts
  <2>6. run' \in [Shells -> RunSet] /\ \A q \in Shells : RunOK(run'[q])
    BY <2>4, <2>5 DEF Orderly
  <2>7. IsTree(node', Held(run', cwd'))
    BY <1>19, <2>2, TidyTree DEF ChDir
  <2>8. alone' \in [Shells -> BOOLEAN]
    BY <1>19 DEF ChDir, Orderly
  <2> QED BY <1>19, <2>3, <2>6, <2>7, <2>8 DEF ChDir, Orderly
<1>20. CASE Show(p)
  <2>1. Next1(p, "show")
    BY <1>20 DEF Show
  <2>2. RunOK(Fail(r)) /\ RunOK(Done(r))
    BY <2>1, AtHand, FailOK, DoneOK
  <2>3. Returns(p, Done(r), node) \/ Returns(p, Fail(r), node)
    BY <1>20 DEF Show
  <2> QED BY <1>9, <2>2, <2>3
<1> QED
  BY <1>2, <1>3, <1>4, <1>5, <1>6, <1>7, <1>8, <1>10, <1>11, <1>12, <1>13, <1>14, <1>15, <1>16, <1>17,
     <1>18, <1>19, <1>20, <1>22, <1>23 DEF Step

\* The file system stays a tree, and the commands are run as they were given.
THEOREM StaysInOrder == Spec => []Orderly
<1>1. ASSUME Orderly, [Next]_vars PROVE Orderly'
  <2>1. CASE Next
    BY <1>1, <2>1, StepInOrder DEF Next
  <2>2. CASE UNCHANGED vars
    BY <1>1, <2>2 DEF vars, Orderly, Held
  <2> QED BY <1>1, <2>1, <2>2
<1> QED BY <1>1, InOrderAtFirst, PTL DEF Spec

\* Values are of their kind, and after every call, Rename and Unlink of another
\* shell's working directory included, the file system is a tree.
THEOREM TypesHold == Spec => []TypeOK
<1>1. Orderly => TypeOK
  BY DEF Orderly, TypeOK, RunSet
<1> QED BY <1>1, StaysInOrder, PTL

-----------------------------------------------------------------------------
(* rm alone tells the truth.                                               *)

Removals == {"rmAny", "unlink", "rmKids", "rmdir"}
Under(a, b) == Len(a) < Len(b) /\ a = Upto(b, Len(a))

\* The calls of remove_recursive still to make: of a directory its rmdir waits until
\* the calls for its entries are made, and the operand itself comes last.
RmStack(todo, a) ==
  /\ \A k \in 1..Len(todo) : todo[k].op \in Removals /\ (k > 1 => todo[k].op \in {"rmAny", "rmdir"})
  /\ todo[Len(todo)].a = a
  /\ \A k \in 1..Len(todo) : todo[k].op = "rmdir" \/ k = Len(todo) =>
       \A j \in 1..(k - 1) : Under(todo[k].a, todo[j].a)
  /\ \A j \in 1..(Len(todo) - 1) : \E k \in (j + 1)..Len(todo) :
       todo[k].op = "rmdir" /\ todo[k].a = Front(todo[j].a)

LEMMA StackPops ==
  ASSUME NEW todo \in Seq(CallSet), todo # <<>>, NEW a, RmStack(todo, a), Tail(todo) # <<>>
  PROVE  RmStack(Tail(todo), a) /\ Under(a, todo[1].a)
<1> DEFINE t == Tail(todo)
<1>1. t \in Seq(CallSet) /\ Len(t) = Len(todo) - 1 /\ \A k \in 1..Len(t) : t[k] = todo[k + 1]
  BY HeadTailProperties
<1>2. Len(t) \in Nat \ {0} /\ Len(todo) \in Nat
  BY <1>1, EmptySeq
<1> HIDE DEF t
<1>3. \A k \in 1..Len(t) : /\ k + 1 \in 1..Len(todo) /\ k + 1 > 1 /\ t[k] = todo[k + 1]
                           /\ k = Len(t) <=> k + 1 = Len(todo)
  BY <1>1, <1>2
<1>4. \A k \in 1..Len(t) : t[k].op \in Removals /\ t[k].op \in {"rmAny", "rmdir"}
  <2> TAKE k \in 1..Len(t)
  <2> DEFINE l == k + 1
  <2>1. l \in 1..Len(todo) /\ l > 1 /\ t[k] = todo[l]
    BY <1>3
  <2> HIDE DEF l
  <2> QED BY <2>1 DEF RmStack
<1>5. t[Len(t)].a = a
  <2>1. Len(t) \in 1..Len(t) /\ Len(t) + 1 = Len(todo)
    BY <1>1, <1>2
  <2>2. t[Len(t)] = todo[Len(todo)]
    BY <1>1, <2>1
  <2> QED BY <2>2 DEF RmStack
<1>6. ASSUME NEW k \in 1..Len(t), t[k].op = "rmdir" \/ k = Len(t), NEW j \in 1..(k - 1)
      PROVE  Under(t[k].a, t[j].a)
  <2> DEFINE l == k + 1
             i == j + 1
  <2>1. l \in 1..Len(todo) /\ i \in 1..(l - 1) /\ t[k] = todo[l] /\ t[j] = todo[i]
        /\ (k = Len(t) => l = Len(todo))
    BY <1>2, <1>3
  <2> HIDE DEF l, i
  <2> QED BY <1>6, <2>1 DEF RmStack
<1>7. ASSUME NEW j \in 1..(Len(t) - 1)
      PROVE  \E k \in (j + 1)..Len(t) : t[k].op = "rmdir" /\ t[k].a = Front(t[j].a)
  <2> DEFINE i == j + 1
  <2>1. i \in 1..(Len(todo) - 1) /\ t[j] = todo[i]
    <3>1. j \in 1..Len(t) /\ j \in Nat
      BY <1>2
    <3>2. t[j] = todo[j + 1]
      BY <1>1, <3>1
    <3> QED BY <1>1, <1>2, <3>1, <3>2
  <2> HIDE DEF i
  <2>2. PICK l \in (i + 1)..Len(todo) : todo[l].op = "rmdir" /\ todo[l].a = Front(todo[i].a)
    BY <2>1 DEF RmStack
  <2> DEFINE k == l - 1
  <2>3. k \in (j + 1)..Len(t) /\ k + 1 = l /\ k \in 1..Len(t)
    BY <1>1, <1>2, <2>1 DEF i
  <2>4. t[k] = todo[l]
    BY <1>1, <2>3
  <2> HIDE DEF k
  <2> QED BY <2>1, <2>2, <2>3, <2>4
<1>8. Under(a, todo[1].a)
  <2>1. Len(todo) \in 1..Len(todo) /\ 1 \in 1..(Len(todo) - 1)
    BY <1>1, <1>2
  <2> QED BY <2>1 DEF RmStack
<1> QED BY <1>4, <1>5, <1>6, <1>7, <1>8 DEF RmStack, t

\* The call at hand becomes another one for the same path.
LEMMA StackTurns ==
  ASSUME NEW todo \in Seq(CallSet), todo # <<>>, NEW a, RmStack(todo, a),
         NEW c \in CallSet, c.op \in Removals, c.a = todo[1].a
  PROVE  LET u == <<c>> \o Tail(todo) IN
         /\ u \in Seq(CallSet) /\ u # <<>> /\ u[1] = c /\ Len(u) = Len(todo)
         /\ \A k \in 2..Len(u) : u[k] = todo[k]
         /\ c.op # "rmdir" => RmStack(u, a)
<1> DEFINE t == Tail(todo)
           s == <<c>>
           u == s \o t
<1>1. t \in Seq(CallSet) /\ Len(t) = Len(todo) - 1 /\ \A k \in 1..Len(t) : t[k] = todo[k + 1]
  BY HeadTailProperties
<1>2. Len(t) \in Nat /\ Len(todo) = Len(t) + 1
  <2>1. Len(todo) \in Nat
    OBVIOUS
  <2> HIDE DEF t
  <2>2. Len(t) \in Nat
    BY <1>1
  <2> QED BY <1>1, <2>1, <2>2
<1>3. s \in Seq(CallSet) /\ Len(s) = 1 /\ s[1] = c
  OBVIOUS
<1> HIDE DEF t, s
<1>4. /\ u \in Seq(CallSet) /\ Len(u) = 1 + Len(t)
      /\ \A k \in 1..(1 + Len(t)) : u[k] = IF k <= 1 THEN s[k] ELSE t[k - 1]
  <2>0. s \in Seq(CallSet) /\ t \in Seq(CallSet)
    BY <1>1, <1>3
  <2>1. /\ s \o t \in Seq(CallSet) /\ Len(s \o t) = Len(s) + Len(t)
        /\ \A k \in 1..(Len(s) + Len(t)) : (s \o t)[k] = IF k <= Len(s) THEN s[k] ELSE t[k - Len(s)]
    BY <2>0, ConcatProperties, Zenon
  <2>. u = s \o t
    OBVIOUS
  <2> HIDE DEF u
  <2> QED BY <1>2, <1>3, <2>1
<1> HIDE DEF u
<1>5. Len(u) = Len(todo) /\ u[1] = c
  BY <1>2, <1>3, <1>4
<1>6. ASSUME NEW k \in 2..Len(u) PROVE u[k] = todo[k]
  <2> DEFINE l == k - 1
  <2>1. l \in 1..Len(t) /\ u[k] = t[l] /\ l + 1 = k
    BY <1>2, <1>4, <1>5
  <2> HIDE DEF l
  <2> QED BY <1>1, <2>1
<1>7. u # <<>>
  BY <1>2, <1>5
<1>8. \A k \in 1..Len(u) : u[k].a = todo[k].a /\ (k > 1 => u[k] = todo[k])
  BY <1>5, <1>6
<1>9. ASSUME c.op # "rmdir" PROVE RmStack(u, a)
  <2>1. \A k \in 1..Len(u) : u[k].op \in Removals /\ (k > 1 => u[k].op \in {"rmAny", "rmdir"})
    BY <1>5, <1>6, <1>8 DEF RmStack
  <2>2. u[Len(u)].a = a
    BY <1>2, <1>5, <1>8 DEF RmStack
  <2>3. ASSUME NEW k \in 1..Len(u), u[k].op = "rmdir" \/ k = Len(u), NEW j \in 1..(k - 1)
        PROVE  Under(u[k].a, u[j].a)
    <3>1. k > 1 /\ j \in 1..Len(u)
      OBVIOUS
    <3>2. todo[k].op = "rmdir" \/ k = Len(todo)
      BY <1>5, <1>8, <2>3, <3>1
    <3> QED BY <1>5, <1>8, <3>1, <3>2 DEF RmStack
  <2>4. ASSUME NEW j \in 1..(Len(u) - 1)
        PROVE  \E k \in (j + 1)..Len(u) : u[k].op = "rmdir" /\ u[k].a = Front(u[j].a)
    <3>1. PICK k \in (j + 1)..Len(todo) : todo[k].op = "rmdir" /\ todo[k].a = Front(todo[j].a)
      BY <1>5 DEF RmStack
    <3>2. k \in 1..Len(u) /\ k > 1 /\ j \in 1..Len(u)
      BY <1>2, <1>5
    <3> QED BY <1>5, <1>8, <3>1, <3>2
  <2> QED BY <2>1, <2>2, <2>3, <2>4 DEF RmStack
<1> QED BY <1>4, <1>5, <1>6, <1>7, <1>9 DEF t, s, u

LEMMA UnderChild ==
  ASSUME NEW a \in Seq(Names), NEW b \in Seq(Names), Under(a, b) \/ a = b, NEW x \in Names
  PROVE  Under(a, ChildPath(b, x))
<1>1. Len(ChildPath(b, x)) = Len(b) + 1 /\ \A k \in 0..Len(b) : Upto(ChildPath(b, x), k) = Upto(b, k)
  BY ChildIsPath
<1>2. Upto(b, Len(b)) = b /\ Len(a) \in Nat /\ Len(b) \in Nat
  BY SubSeqFull DEF Upto
<1> QED BY <1>1, <1>2 DEF Under

\* rmKids: calls for the entries and the rmdir go before the rest.
Grown(todo, a, q, u) ==
  /\ RmStack(u, a) /\ u \in Seq(CallSet) /\ u # <<>> /\ Len(u) = Len(q) + Len(todo)
  /\ \A k \in 1..Len(q) : u[k].op = "rmAny" /\ u[k].a = ChildPath(todo[1].a, q[k])
  /\ u[Len(q) + 1].op = "rmdir" /\ u[Len(q) + 1].a = todo[1].a
  /\ \A k \in 2..Len(todo) : u[Len(q) + k] = todo[k]

LEMMA StackGrows ==
  ASSUME NEW todo \in Seq(CallSet), todo # <<>>, NEW a, RmStack(todo, a), NEW q \in Seq(Names),
         NEW kids \in Seq(CallSet), Len(kids) = Len(q),
         \A k \in 1..Len(q) : kids[k].op = "rmAny" /\ kids[k].a = ChildPath(todo[1].a, q[k]),
         NEW c \in CallSet, c.op = "rmdir", c.a = todo[1].a
  PROVE  Grown(todo, a, q, (kids \o <<c>>) \o Tail(todo))
<1> DEFINE t == Tail(todo)
           s == kids \o <<c>>
           u == s \o t
           N == Len(q)
           P == todo[1].a
<1>1. t \in Seq(CallSet) /\ Len(t) = Len(todo) - 1 /\ \A k \in 1..Len(t) : t[k] = todo[k + 1]
  BY HeadTailProperties
<1>2. Len(t) \in Nat /\ Len(todo) = Len(t) + 1 /\ N \in Nat
  <2>1. Len(todo) \in Nat
    OBVIOUS
  <2> HIDE DEF t
  <2>2. Len(t) \in Nat
    BY <1>1
  <2> QED BY <1>1, <2>1, <2>2
<1>3. P \in Seq(Names)
  <2>1. 1 \in 1..Len(todo)
    BY <1>2
  <2>2. todo[1] \in CallSet
    BY <2>1, ElementOfSeq
  <2> QED BY <2>2 DEF CallSet
<1>4. \A k \in 1..N : q[k] \in Names
  BY ElementOfSeq
<1>5. kids \in Seq(CallSet) /\ Len(kids) = N
  OBVIOUS
<1>6. \A k \in 1..N : kids[k].op = "rmAny" /\ kids[k].a = ChildPath(P, q[k])
  OBVIOUS
<1>7. c \in CallSet /\ c.op = "rmdir" /\ c.a = P
  OBVIOUS
<1>8. <<c>> \in Seq(CallSet) /\ Len(<<c>>) = 1 /\ <<c>>[1] = c
  BY <1>7
<1> HIDE DEF t, P, N
<1>9. s \in Seq(CallSet) /\ Len(s) = N + 1 /\ s[N + 1] = c /\ \A k \in 1..N : s[k] = kids[k]
  <2> DEFINE one == <<c>>
  <2>1. one \in Seq(CallSet) /\ Len(one) = 1 /\ one[1] = c
    BY <1>8
  <2> HIDE DEF one
  <2>2. /\ kids \o one \in Seq(CallSet) /\ Len(kids \o one) = Len(kids) + Len(one)
        /\ \A k \in 1..(Len(kids) + Len(one)) :
             (kids \o one)[k] = IF k <= Len(kids) THEN kids[k] ELSE one[k - Len(kids)]
    <3>1. kids \in Seq(CallSet) /\ one \in Seq(CallSet)
      BY <2>1
    <3> QED BY <3>1, ConcatProperties, Zenon
  <2>3. s = kids \o one
    BY DEF one
  <2> HIDE DEF s
  <2>4. N + 1 \in 1..(N + 1) /\ (N + 1) - N = 1 /\ ~(N + 1 <= N)
    BY <1>2
  <2>5. Len(s) = N + 1 /\ s[N + 1] = one[(N + 1) - N]
    BY <1>5, <2>1, <2>2, <2>3, <2>4
  <2>6. \A k \in 1..N : s[k] = kids[k]
    BY <1>2, <1>5, <2>1, <2>2, <2>3
  <2> QED BY <2>1, <2>2, <2>3, <2>4, <2>5, <2>6
<1> HIDE DEF s
<1>10. /\ s \o t \in Seq(CallSet) /\ Len(s \o t) = Len(s) + Len(t)
       /\ \A k \in 1..(Len(s) + Len(t)) : (s \o t)[k] = IF k <= Len(s) THEN s[k] ELSE t[k - Len(s)]
  BY <1>1, <1>9, ConcatProperties, Zenon
<1>. u = s \o t
  OBVIOUS
<1> HIDE DEF u
<1>11. u \in Seq(CallSet) /\ Len(u) = N + Len(todo)
  BY <1>2, <1>9, <1>10
<1>12. \A k \in 1..N : u[k] = kids[k]
  BY <1>2, <1>9, <1>10
<1>13. u[N + 1] = c
  BY <1>2, <1>9, <1>10
<1>14. ASSUME NEW k \in 2..Len(todo) PROVE u[N + k] = todo[k]
  <2> DEFINE l == k - 1
             m == N + k
  <2>1. l \in 1..Len(t) /\ l + 1 = k /\ m \in 1..(Len(s) + Len(t)) /\ ~(m <= Len(s)) /\ m - Len(s) = l
    BY <1>2, <1>9
  <2> HIDE DEF l, m
  <2>2. u[m] = t[l]
    BY <1>10, <2>1
  <2>3. t[l] = todo[k]
    BY <1>1, <2>1
  <2> QED BY <2>2, <2>3 DEF m
<1>15. \A k \in 1..Len(u) : k \in 1..N \/ k = N + 1 \/ \E l \in 2..Len(todo) : k = N + l /\ u[k] = todo[l]
  <2> TAKE k \in 1..Len(u)
  <2> SUFFICES ASSUME k \notin 1..N, k # N + 1 PROVE \E l \in 2..Len(todo) : k = N + l /\ u[k] = todo[l]
    OBVIOUS
  <2> DEFINE l == k - N
  <2>1. l \in 2..Len(todo) /\ k = N + l
    BY <1>2, <1>11
  <2> HIDE DEF l
  <2> QED BY <2>1, <1>14
<1>16. \A l \in 2..Len(todo) : todo[l].op \in {"rmAny", "rmdir"}
  <2> TAKE l \in 2..Len(todo)
  <2>1. l \in 1..Len(todo) /\ l > 1
    BY <1>2
  <2> QED BY <2>1 DEF RmStack
<1>17. \A k \in 1..Len(u) : u[k].op \in {"rmAny", "rmdir"}
  BY <1>6, <1>7, <1>12, <1>13, <1>15, <1>16
<1>18. u[Len(u)].a = a
  <2>1. CASE Len(todo) = 1
    <3>1. Len(u) = N + 1 /\ P = a
      BY <1>11, <2>1 DEF RmStack, P
    <3> QED BY <3>1, <1>7, <1>13
  <2>2. CASE Len(todo) # 1
    <3>1. Len(todo) \in 2..Len(todo)
      BY <1>2, <2>2
    <3>2. u[N + Len(todo)] = todo[Len(todo)]
      BY <3>1, <1>14
    <3> QED BY <3>2, <1>11 DEF RmStack
  <2> QED BY <2>1, <2>2
<1>19. \A k \in 1..N : Under(P, u[k].a)
  <2> TAKE k \in 1..N
  <2>1. Under(P, ChildPath(P, q[k]))
    BY <1>3, <1>4, UnderChild
  <2> QED BY <2>1, <1>6, <1>12
<1>20. ASSUME NEW l \in 2..Len(todo), todo[l].op = "rmdir" \/ l = Len(todo), NEW j \in 1..(N + l - 1)
       PROVE  Under(todo[l].a, u[j].a)
  <2>1. l \in 1..Len(todo) /\ 1 \in 1..(l - 1)
    BY <1>2
  <2>2. Under(todo[l].a, P)
    BY <2>1, <1>20 DEF RmStack, P
  <2>3. todo[l].a \in Seq(Names)
    <3>1. todo[l] \in CallSet
      BY <2>1, ElementOfSeq
    <3> QED BY <3>1 DEF CallSet
  <2>4. CASE j \in 1..N
    <3>1. Under(todo[l].a, ChildPath(P, q[j]))
      BY <1>3, <1>4, <2>2, <2>3, <2>4, UnderChild
    <3> QED BY <3>1, <2>4, <1>6, <1>12
  <2>5. CASE j = N + 1
    BY <2>2, <2>5, <1>7, <1>13
  <2>6. CASE j \notin 1..N /\ j # N + 1
    <3> DEFINE i == j - N
    <3>1. i \in 2..Len(todo) /\ i \in 1..(l - 1) /\ j = N + i
      BY <1>2, <2>6
    <3> HIDE DEF i
    <3>2. u[j] = todo[i]
      BY <3>1, <1>14
    <3> QED BY <3>1, <3>2, <2>1, <1>20 DEF RmStack
  <2> QED BY <2>4, <2>5, <2>6
<1>21. ASSUME NEW k \in 1..Len(u), u[k].op = "rmdir" \/ k = Len(u), NEW j \in 1..(k - 1)
       PROVE  Under(u[k].a, u[j].a)
  <2>1. CASE k \in 1..N
    <3>1. u[k].op = "rmAny" /\ k # Len(u)
      BY <2>1, <1>2, <1>6, <1>11, <1>12
    <3> QED BY <3>1, <1>21
  <2>2. CASE k = N + 1
    <3>1. j \in 1..N
      BY <2>2, <1>2
    <3> QED BY <2>2, <3>1, <1>7, <1>13, <1>19
  <2>3. ASSUME NEW l \in 2..Len(todo), k = N + l, u[k] = todo[l] PROVE Under(u[k].a, u[j].a)
    <3>1. todo[l].op = "rmdir" \/ l = Len(todo)
      BY <1>2, <1>11, <1>21, <2>3
    <3>2. j \in 1..(N + l - 1)
      BY <1>2, <1>11, <2>3
    <3> QED BY <3>1, <3>2, <2>3, <1>20
  <2> QED BY <2>1, <2>2, <2>3, <1>15
<1>22. ASSUME NEW j \in 1..(Len(u) - 1)
       PROVE  \E k \in (j + 1)..Len(u) : u[k].op = "rmdir" /\ u[k].a = Front(u[j].a)
  <2>1. CASE j \in 1..N
    <3>1. N + 1 \in (j + 1)..Len(u)
      BY <2>1, <1>2, <1>11
    <3>2. Front(ChildPath(P, q[j])) = P
      BY <2>1, <1>3, <1>4, ChildIsPath
    <3> QED BY <2>1, <3>1, <3>2, <1>6, <1>7, <1>12, <1>13
  <2>2. ASSUME NEW i \in 1..(Len(todo) - 1), j = N + i, u[j].a = todo[i].a
        PROVE  \E k \in (j + 1)..Len(u) : u[k].op = "rmdir" /\ u[k].a = Front(u[j].a)
    <3>1. PICK l \in (i + 1)..Len(todo) : todo[l].op = "rmdir" /\ todo[l].a = Front(todo[i].a)
      BY DEF RmStack
    <3>2. l \in 2..Len(todo) /\ N + l \in (j + 1)..Len(u)
      BY <1>2, <1>11, <2>2
    <3>3. u[N + l] = todo[l]
      BY <3>2, <1>14
    <3> QED BY <2>2, <3>1, <3>2, <3>3
  <2>3. CASE j = N + 1
    <3>1. 1 \in 1..(Len(todo) - 1)
      BY <2>3, <1>2, <1>11
    <3>2. u[j].a = todo[1].a
      BY <2>3, <1>7, <1>13 DEF P
    <3> QED BY <2>2, <2>3, <3>1, <3>2
  <2>4. ASSUME NEW l \in 2..Len(todo), j = N + l, u[j] = todo[l]
        PROVE  \E k \in (j + 1)..Len(u) : u[k].op = "rmdir" /\ u[k].a = Front(u[j].a)
    <3>1. l \in 1..(Len(todo) - 1)
      BY <2>4, <1>2, <1>11
    <3> QED BY <2>2, <2>4, <3>1
  <2>5. j \in 1..Len(u)
    BY <1>2, <1>11
  <2> QED BY <2>1, <2>3, <2>4, <2>5, <1>15
<1>23. RmStack(u, a)
  BY <1>17, <1>18, <1>21, <1>22 DEF RmStack, Removals
<1>24. u # <<>>
  BY <1>2, <1>11
<1>25. /\ \A k \in 1..N : u[k].op = "rmAny" /\ u[k].a = ChildPath(P, q[k])
       /\ u[N + 1].op = "rmdir" /\ u[N + 1].a = P
  BY <1>6, <1>7, <1>12, <1>13
<1> QED BY <1>11, <1>14, <1>23, <1>24, <1>25 DEF Grown, u, s, t, N, P

-----------------------------------------------------------------------------
(* A command takes its operands in their order.                            *)

Taken(r) == Len(r.cmd.args) - Len(r.args)
Settled(r) == IF r.todo = <<>> THEN Taken(r) ELSE Taken(r) - 1
InLine(r) ==
  /\ Taken(r) \in Nat
  /\ \A k \in 1..Len(r.args) : r.args[k] = r.cmd.args[Taken(r) + k]
Now(r) == r.cmd.args[Taken(r)]

LEMMA NextInLine ==
  ASSUME NEW r, RunParts(r), Closed(r) \/ Copying(r.todo), InLine(r)
  PROVE  LET s == Load(r) IN
         /\ InLine(s) /\ s.cmd = r.cmd /\ s.ret = r.ret
         /\ Len(s.cmd.args) \in Nat /\ Taken(r) \in 0..Len(s.cmd.args)
         /\ r.todo # <<>> => s = r
         /\ r.todo = <<>> => Settled(s) = Taken(r)
         /\ r.todo = <<>> /\ s.todo = <<>> => Taken(r) = Len(r.cmd.args) /\ Taken(s) = Taken(r)
         /\ r.todo = <<>> /\ s.todo # <<>> =>
              /\ Taken(s) = Taken(r) + 1 /\ Taken(s) \in 1..Len(s.cmd.args)
              /\ s.cmd \in CommandLines /\ Now(s) \in Seq(Seq(Names)) /\ OperandOK(s.cmd, Now(s))
              /\ s.todo = Calls(s.cmd, Now(s))
<1>1. /\ r \in RunSet /\ r.args \in Seq(Seq(Seq(Names)))
      /\ r.cmd \in CommandLines \cup {Idle} /\ (r.args # <<>> => r.cmd \in CommandLines)
  BY DEF RunParts, RunSet
<1>2. r.cmd.args \in Seq(Seq(Seq(Names)))
  BY <1>1 DEF CommandLines, Idle
<1>3. Len(r.args) \in Nat /\ Len(r.cmd.args) \in Nat /\ Taken(r) \in Nat
  BY <1>1, <1>2 DEF InLine
<1>4. Taken(r) \in 0..Len(r.cmd.args) /\ (r.args = <<>> => Taken(r) = Len(r.cmd.args))
  <2> DEFINE l == Len(r.args)
             m == Len(r.cmd.args)
  <2>1. l \in Nat /\ m \in Nat /\ Taken(r) = m - l /\ Taken(r) \in Nat
    BY <1>3 DEF Taken
  <2>2. r.args = <<>> => l = 0
    OBVIOUS
  <2> HIDE DEF l, m
  <2>3. Taken(r) \in 0..m /\ (l = 0 => Taken(r) = m)
    BY <2>1
  <2> QED BY <2>2, <2>3 DEF m
<1>5. CASE r.todo = <<>> /\ r.args # <<>>
  <2> DEFINE calls == Calls(r.cmd, Head(r.args))
             s == [r EXCEPT !.todo = calls, !.args = Tail(r.args)]
  <2>1. /\ Tail(r.args) \in Seq(Seq(Seq(Names))) /\ Len(Tail(r.args)) = Len(r.args) - 1
        /\ \A k \in 1..Len(Tail(r.args)) : Tail(r.args)[k] = r.args[k + 1]
        /\ Head(r.args) = r.args[1] /\ Len(r.args) > 0
    BY <1>1, <1>5, EmptySeq, HeadTailProperties
  <2>2. Load(r) = s
    BY <1>5 DEF Load
  <2> HIDE DEF calls
  <2>3. s.args = Tail(r.args) /\ s.todo = calls /\ s.cmd = r.cmd /\ s.ret = r.ret
    BY <1>1 DEF RunSet
  <2> HIDE DEF s
  <2>4. Taken(s) = Taken(r) + 1
    <3> DEFINE l == Len(r.args)
               m == Len(r.cmd.args)
    <3>1. l \in Nat /\ m \in Nat /\ Taken(r) = m - l /\ Taken(s) = m - (l - 1)
      BY <1>3, <2>1, <2>3 DEF Taken
    <3> HIDE DEF l, m
    <3> QED BY <3>1
  <2>5. ASSUME NEW k \in 1..Len(s.args) PROVE s.args[k] = s.cmd.args[Taken(s) + k]
    <3> DEFINE l == k + 1
    <3>1. l \in 1..Len(r.args) /\ s.args[k] = r.args[l]
      BY <1>3, <2>1, <2>3
    <3>. k \in Nat /\ Taken(r) + l = Taken(s) + k
      BY <1>3, <2>4
    <3> HIDE DEF l
    <3>2. r.args[l] = r.cmd.args[Taken(r) + l]
      BY <3>1 DEF InLine
    <3> QED BY <2>3, <3>1, <3>2
  <2>6. Now(s) = Head(r.args)
    <3>1. 1 \in 1..Len(r.args)
      BY <1>3, <2>1
    <3>2. r.args[1] = r.cmd.args[Taken(r) + 1]
      BY <3>1 DEF InLine
    <3> QED BY <2>1, <2>3, <2>4, <3>2 DEF Now
  <2>7. Taken(s) \in 1..Len(s.cmd.args)
    <3>1. Taken(r) + 1 <= Len(r.cmd.args)
      BY <1>3, <2>1 DEF Taken
    <3> QED BY <1>3, <2>3, <2>4, <3>1
  <2>8. Now(s) \in Seq(Seq(Names)) /\ OperandOK(s.cmd, Now(s))
    <3>1. 1 \in 1..Len(r.args)
      BY <1>3, <2>1
    <3>2. r.args[1] \in Seq(Seq(Names)) /\ OperandOK(r.cmd, r.args[1])
      BY <1>1, <3>1, ElementOfSeq DEF RunParts
    <3> QED BY <2>1, <2>3, <2>6, <3>2
  <2>9. calls # <<>>
    <3>1. calls \in Seq(CallSet) /\ calls # <<>>
      BY <1>1, <1>5, <2>3, <2>6, <2>8, CallsOK DEF calls
    <3> QED BY <3>1
  <2>10. Settled(s) = Taken(r)
    BY <1>3, <2>3, <2>4, <2>9 DEF Settled
  <2>11. s.todo = Calls(s.cmd, Now(s))
    BY <2>3, <2>6 DEF calls
  <2>12. InLine(s)
    BY <1>3, <2>4, <2>5 DEF InLine
  <2> QED BY <1>1, <1>3, <1>4, <1>5, <2>2, <2>3, <2>4, <2>7, <2>8, <2>9, <2>10, <2>11, <2>12
<1>6. CASE ~(r.todo = <<>> /\ r.args # <<>>)
  <2>1. Load(r) = r
    BY <1>6 DEF Load
  <2> QED BY <1>3, <1>4, <1>6, <2>1 DEF Settled
<1> QED BY <1>5, <1>6

-----------------------------------------------------------------------------
(* What a removal takes away, and what tidying up does not.                *)

LEMMA TidyFinds ==
  ASSUME NEW n, IsTree(n, Inodes), NEW held, NEW d \in Inodes, NEW path \in Seq(Names)
  PROVE  /\ Found(Tidy(n, held), d, path) <=> Found(n, d, path)
         /\ Found(n, d, path) => Lookup(Tidy(n, held), d, path) = Lookup(n, d, path)
<1>1. IsTree(Tidy(n, held), held) /\ Keeps(n, Tidy(n, held)) /\ Keeps(Tidy(n, held), n)
  BY TidyTree
<1> QED BY <1>1, KeptIsFound

LEMMA Removed ==
  ASSUME NEW n, IsTree(n, Inodes), NEW d \in Inodes, NEW a \in Seq(Names), a # <<>>, Found(n, d, a),
         Entries(n, Lookup(n, d, a)) = {}
  PROVE  LET m == Unlink(n, Lookup(n, d, a)) IN
         /\ IsTree(m, Inodes) /\ ~Found(m, d, a) /\ Lookup(n, d, a) \in Inodes \ {Root}
         /\ \A q \in Seq(Names) : Found(m, d, q) => Found(n, d, q) /\ Lookup(m, d, q) = Lookup(n, d, q)
         /\ \A q \in Seq(Names) : Under(q, a) => Found(m, d, q)
<1> DEFINE i == Lookup(n, d, a)
           m == Unlink(n, i)
<1>1. i \in Inodes \ {Root}
  BY FoundIsEntry
<1>2. IsTree(m, Inodes) /\ Keeps(m, n) /\ ~Linked(m, i) /\ (\A j \in Inodes \ {i} : m[j] = n[j])
      /\ m[i].kind = n[i].kind
  BY <1>1, UnlinkTree
<1> HIDE DEF m
<1>3. \A q \in Seq(Names) : Found(m, d, q) => Found(n, d, q) /\ Lookup(m, d, q) = Lookup(n, d, q)
  BY <1>2, KeptIsFound
<1>4. ASSUME Found(m, d, a) PROVE FALSE
  <2>1. Lookup(m, d, a) = i
    BY <1>3, <1>4
  <2>2. Linked(m, Lookup(m, d, a))
    BY <1>2, <1>4, FoundIsEntry
  <2> QED BY <1>2, <2>1, <2>2
<1>5. ASSUME NEW q \in Seq(Names), Under(q, a) PROVE Found(m, d, q)
  <2> DEFINE l == Len(q)
  <2>1. l \in 0..Len(a) /\ l < Len(a) /\ q = Upto(a, l) /\ Len(a) \in 0..Len(a) /\ Upto(a, Len(a)) = a
        /\ \A k \in 0..l : Upto(q, k) = Upto(a, k) /\ k \in 0..Len(a)
    <3>1. Len(q) \in Nat /\ Len(a) \in Nat /\ Len(q) < Len(a) /\ q = Upto(a, Len(q)) /\ Upto(a, Len(a)) = a
      BY <1>5, SubSeqFull DEF Under, Upto
    <3>2. l \in 0..Len(a)
      BY <3>1
    <3>3. \A k \in 0..l : Upto(Upto(a, l), k) = Upto(a, k)
      BY <3>2, Prefix
    <3> QED BY <3>1, <3>2, <3>3
  <2> HIDE DEF l
  <2>2. Found(n, d, q)
    BY <2>1, FoundUpto
  <2>3. \A k \in 0..l : Lookup(n, d, Upto(q, k)) # i
    <3> TAKE k \in 0..l
    <3>1. k < Len(a) /\ k \in 0..Len(a)
      BY <2>1
    <3>2. Lookup(n, d, Upto(a, k)) # Lookup(n, d, Upto(a, Len(a)))
      BY <2>1, <3>1, NothingTwice
    <3> QED BY <2>1, <3>2
  <2>4. \A k \in 1..Len(q) : /\ Lookup(n, d, Upto(q, k)) \in Inodes \ {i}
                             /\ Lookup(n, d, Upto(q, k - 1)) \in Inodes \ {i}
    <3> TAKE k \in 1..Len(q)
    <3> DEFINE h == k - 1
    <3>1. k \in 0..l /\ h \in 0..l
      BY <2>1 DEF l
    <3>2. Lookup(n, d, Upto(q, k)) \in Inodes /\ Lookup(n, d, Upto(q, h)) \in Inodes
      BY <2>2, FoundParts
    <3> HIDE DEF h
    <3>3. Lookup(n, d, Upto(q, h)) # i /\ Lookup(n, d, Upto(q, k)) # i
      BY <2>3, <3>1
    <3> QED BY <3>2, <3>3 DEF h
  <2> HIDE DEF i
  <2>5. \A k \in 1..Len(q) :
          LET j == Lookup(n, d, Upto(q, k)) up == Lookup(n, d, Upto(q, k - 1)) IN
          m[j].up = n[j].up /\ m[j].name = n[j].name /\ m[up].kind = n[up].kind
    BY <1>2, <2>4
  <2>6. Lookup(m, d, q) = Lookup(n, d, q)
    BY <1>2, <2>2, <2>5, LookupKept
  <2> QED BY <2>2, <2>6 DEF Found
<1> QED BY <1>1, <1>2, <1>3, <1>4, <1>5 DEF m, i

-----------------------------------------------------------------------------
(* The call at hand is made, or fails.                                     *)

LEMMA DonePops ==
  ASSUME NEW r, RunOK(r), r.todo # <<>>, r.todo[1].op \notin {"openDst", "pump"}, InLine(r)
  PROVE  LET s == Done(r) IN
         /\ InLine(s) /\ s.cmd = r.cmd /\ s.ret = r.ret
         /\ Tail(r.todo) # <<>> => s.todo = Tail(r.todo) /\ Taken(s) = Taken(r) /\ Settled(s) = Settled(r)
         /\ Tail(r.todo) = <<>> =>
              /\ Settled(s) = Taken(r) /\ Taken(r) \in 0..Len(s.cmd.args)
              /\ s.todo = <<>> => Taken(r) = Len(s.cmd.args) /\ Taken(s) = Taken(r)
              /\ s.todo # <<>> =>
                   /\ Taken(s) = Taken(r) + 1 /\ Taken(s) \in 1..Len(s.cmd.args)
                   /\ s.cmd \in CommandLines /\ Now(s) \in Seq(Seq(Names)) /\ OperandOK(s.cmd, Now(s))
                   /\ s.todo = Calls(s.cmd, Now(s))
<1> DEFINE u == [r EXCEPT !.todo = <<>> \o Tail(@)]
<1>1. r.todo \in Seq(CallSet) /\ Tail(r.todo) \in Seq(CallSet) /\ TodoOK(<<>>, r.src)
  BY HeadTailProperties DEF RunOK, RunParts, RunSet, TodoOK
<1>2. <<>> \o Tail(r.todo) = Tail(r.todo)
  BY <1>1, ConcatEmptySeq
<1>3. /\ RunParts(u) /\ u.cmd = r.cmd /\ u.ret = r.ret /\ u.args = r.args /\ u.src = r.src /\ u.dst = r.dst
      /\ u.todo = Tail(r.todo)
  <2> DEFINE e == <<>>
             v == [r EXCEPT !.todo = e \o Tail(@)]
  <2>1. e \in Seq(CallSet) /\ TodoOK(e, r.src) /\ RunParts(r) /\ u = v
    BY <1>1 DEF RunOK
  <2>2. e \o Tail(r.todo) = Tail(r.todo)
    BY <1>2
  <2> HIDE DEF e
  <2>3. /\ RunParts(v) /\ v.cmd = r.cmd /\ v.ret = r.ret /\ v.src = r.src /\ v.dst = r.dst
        /\ v.todo = e \o Tail(r.todo) /\ v.args = r.args
    BY <2>1, Replaced
  <2> HIDE DEF u, v
  <2> QED BY <2>1, <2>2, <2>3
<1>4. Closed(u)
  BY <1>3 DEF RunOK, Closed, Copying
<1>5. Done(r) = Load(u)
  BY DEF Done, Instead
<1> HIDE DEF u
<1>6. Taken(u) = Taken(r) /\ InLine(u)
  BY <1>3 DEF Taken, InLine
<1> DEFINE s == Load(u)
<1>7. /\ InLine(s) /\ s.cmd = u.cmd /\ s.ret = u.ret
      /\ Len(s.cmd.args) \in Nat /\ Taken(u) \in 0..Len(s.cmd.args)
      /\ u.todo # <<>> => s = u
      /\ u.todo = <<>> => Settled(s) = Taken(u)
      /\ u.todo = <<>> /\ s.todo = <<>> => Taken(u) = Len(u.cmd.args) /\ Taken(s) = Taken(u)
      /\ u.todo = <<>> /\ s.todo # <<>> =>
           /\ Taken(s) = Taken(u) + 1 /\ Taken(s) \in 1..Len(s.cmd.args)
           /\ s.cmd \in CommandLines /\ Now(s) \in Seq(Seq(Names)) /\ OperandOK(s.cmd, Now(s))
           /\ s.todo = Calls(s.cmd, Now(s))
  BY <1>3, <1>4, <1>6, NextInLine
<1>8. u.todo # <<>> => Settled(s) = Settled(r)
  BY <1>6, <1>7 DEF Settled
<1> HIDE DEF s
<1> QED BY <1>3, <1>5, <1>6, <1>7, <1>8 DEF s

LEMMA FailSkips ==
  ASSUME NEW r, RunOK(r), r.todo # <<>>, InLine(r)
  PROVE  LET s == Fail(r) IN
         /\ InLine(s) /\ s.cmd = r.cmd /\ s.ret = 1 /\ Taken(r) \in 0..Len(s.cmd.args)
         /\ s.todo = <<>> => Taken(r) = Len(s.cmd.args)
         /\ s.todo # <<>> =>
              /\ Taken(s) = Taken(r) + 1 /\ Taken(s) \in 1..Len(s.cmd.args)
              /\ s.cmd \in CommandLines /\ Now(s) \in Seq(Seq(Names)) /\ OperandOK(s.cmd, Now(s))
              /\ s.todo = Calls(s.cmd, Now(s))
<1> DEFINE u == [r EXCEPT !.todo = <<>>, !.ret = 1, !.src = NoFile, !.dst = NoFile]
<1>1. /\ u \in RunSet /\ u.todo = <<>> /\ u.args = r.args /\ u.cmd = r.cmd /\ u.ret = 1
      /\ u.src = NoFile /\ u.dst = NoFile
  <2>1. r \in RunSet /\ <<>> \in Seq(CallSet) /\ NoFile \in Files0
    BY DEF RunOK, RunParts, Files0
  <2> QED BY <2>1 DEF RunSet
<1>2. Fail(r) = Load(u)
  BY DEF Fail
<1> HIDE DEF u
<1>3. RunParts(u) /\ Closed(u)
  BY <1>1 DEF RunOK, RunParts, TodoOK, Closed
<1>4. Taken(u) = Taken(r) /\ InLine(u)
  BY <1>1 DEF Taken, InLine
<1> QED BY <1>1, <1>2, <1>3, <1>4, NextInLine

LEMMA InsteadGoesOn ==
  ASSUME NEW r, RunOK(r), r.todo # <<>>, r.todo[1].op \notin {"openDst", "pump"}, InLine(r),
         NEW calls \in Seq(CallSet), TodoOK(calls, r.src), calls # <<>>
  PROVE  LET s == Instead(r, calls) IN
         /\ InLine(s) /\ s.cmd = r.cmd /\ s.ret = r.ret /\ s.todo = calls \o Tail(r.todo)
         /\ s.todo # <<>> /\ Taken(s) = Taken(r) /\ Now(s) = Now(r) /\ Settled(s) = Settled(r)
<1> DEFINE s == [r EXCEPT !.todo = calls \o Tail(@)]
<1>1. Instead(r, calls) = s
  BY InsteadOK
<1>2. s.cmd = r.cmd /\ s.ret = r.ret /\ s.args = r.args /\ s.todo = calls \o Tail(r.todo) /\ s.todo # <<>>
  BY Replaced DEF RunOK
<1> HIDE DEF s
<1> QED BY <1>1, <1>2 DEF Taken, InLine, Now, Settled

LEMMA StartsInLine ==
  ASSUME NEW c \in CommandLines, \A arg \in Range(c.args) : OperandOK(c, arg)
  PROVE  LET s == Load([AtRest(c, 0) EXCEPT !.args = c.args]) IN
         /\ InLine(s) /\ s.cmd = c /\ s.ret = 0 /\ Settled(s) = 0
         /\ s.todo = <<>> => Len(c.args) = 0 /\ Taken(s) = 0
         /\ s.todo # <<>> =>
              /\ Taken(s) = 1 /\ 1 \in 1..Len(c.args)
              /\ Now(s) \in Seq(Seq(Names)) /\ OperandOK(c, Now(s)) /\ s.todo = Calls(c, Now(s))
<1> DEFINE r == [AtRest(c, 0) EXCEPT !.args = c.args]
<1>1. /\ r = [f \in DOMAIN r |-> r[f]]
      /\ DOMAIN r = {"cmd", "args", "todo", "ret", "src", "dst", "cut"}
      /\ r.cmd = c /\ r.args = c.args /\ r.todo = <<>> /\ r.ret = 0 /\ r.src = NoFile /\ r.dst = NoFile
      /\ r.cut = {}
  BY DEF AtRest
<1> HIDE DEF r
<1>2. c.args \in Seq(Seq(Seq(Names))) /\ c # Idle
  BY DEF CommandLines, CommandNames, Idle
<1>3. RunParts(r) /\ Closed(r) /\ r.cmd = c /\ r.todo = <<>> /\ r.ret = 0 /\ r.args = c.args
  <2>1. r \in RunSet /\ r.cmd = c /\ r.todo = <<>> /\ r.ret = 0 /\ r.args = c.args
    <3>1. <<>> \in Seq(CallSet) /\ NoFile \in Files0 /\ {} \in SUBSET Seq(Names)
      BY DEF Files0
    <3> QED BY <1>1, <1>2, <3>1 DEF RunSet
  <2>2. \A k \in 1..Len(c.args) : OperandOK(c, c.args[k])
    BY <1>2 DEF Range
  <2> QED BY <1>1, <1>2, <2>1, <2>2 DEF RunParts, TodoOK, Closed
<1>4. Taken(r) = 0 /\ InLine(r)
  <2>1. Len(c.args) \in Nat
    BY <1>2
  <2>2. Taken(r) = 0
    BY <1>3, <2>1 DEF Taken
  <2>3. \A k \in 1..Len(c.args) : 0 + k = k
    OBVIOUS
  <2> QED BY <1>3, <2>2, <2>3 DEF InLine
<1>5. 0 + 1 = 1
  OBVIOUS
<1> DEFINE s == Load(r)
<1>6. /\ InLine(s) /\ s.cmd = r.cmd /\ s.ret = r.ret
      /\ r.todo = <<>> => Settled(s) = Taken(r)
      /\ r.todo = <<>> /\ s.todo = <<>> => Taken(r) = Len(r.cmd.args) /\ Taken(s) = Taken(r)
      /\ r.todo = <<>> /\ s.todo # <<>> =>
           /\ Taken(s) = Taken(r) + 1 /\ Taken(s) \in 1..Len(s.cmd.args)
           /\ s.cmd \in CommandLines /\ Now(s) \in Seq(Seq(Names)) /\ OperandOK(s.cmd, Now(s))
           /\ s.todo = Calls(s.cmd, Now(s))
  BY <1>3, <1>4, NextInLine
<1> HIDE DEF s
<1> QED BY <1>3, <1>4, <1>5, <1>6 DEF s, r

-----------------------------------------------------------------------------
(* rm alone tells the truth.                                               *)

LineOK(c) == \A k \in 1..Len(c.args) : OperandOK(c, c.args[k])
RmRuns(r, n, n0, d) ==
  /\ InLine(r) /\ LineOK(r.cmd)
  /\ r.todo # <<>> => Taken(r) \in 1..Len(r.cmd.args) /\ RmStack(r.todo, Now(r)[1])
  /\ \A path \in Seq(Names) : Found(n, d, path) => Found(n0, d, path)
  /\ r.ret = 0 => \A k \in 1..Settled(r) :
       LET a == r.cmd.args[k][1] IN ~Found(n, d, a) /\ (Found(n0, d, a) \/ Has(r.cmd, "f"))
  /\ Len(r.cmd.args) = 1 =>
       /\ r.todo # <<>> => r.ret = 0
       /\ r.todo # <<>> \/ r.ret = 1 =>
            LET a == r.cmd.args[1][1] IN Found(n0, d, a) => Found(n, d, a)

RmInv ==
  \A p \in Shells : run[p].cmd.name = "rm" /\ alone[p] => RmRuns(run[p], node, before[p], cwd[p])

LEMMA OneOperand ==
  ASSUME NEW c \in CommandLines \cup {Idle}, c.name \notin {"cp", "mv"}, LineOK(c), NEW k \in 1..Len(c.args)
  PROVE  c.args[k][1] \in Seq(Names)
<1>1. c.args \in Seq(Seq(Seq(Names)))
  BY DEF CommandLines, Idle
<1>2. c.args[k] \in Seq(Seq(Names)) /\ Len(c.args[k]) = 1
  BY <1>1, ElementOfSeq DEF LineOK, OperandOK
<1>3. 1 \in 1..Len(c.args[k])
  BY <1>2
<1> QED BY <1>2, <1>3, ElementOfSeq

LEMMA RmLoads ==
  ASSUME NEW c \in CommandLines, c.name = "rm", NEW arg \in Seq(Seq(Names)), OperandOK(c, arg)
  PROVE  RmStack(Calls(c, arg), arg[1]) /\ arg[1] \in Seq(Names) /\ Len(Calls(c, arg)) = 1
         /\ Calls(c, arg)[1].op = IF Has(c, "r") THEN "rmAny" ELSE "unlink"
<1> DEFINE op == IF Has(c, "r") THEN "rmAny" ELSE "unlink"
           x == Call(op, arg[1], <<>>)
           s == <<x>>
<1>1. 1 \in 1..Len(arg)
  BY DEF OperandOK
<1>2. arg[1] \in Seq(Names)
  BY <1>1, ElementOfSeq
<1>3. x.op = op /\ x.a = arg[1] /\ op \in {"rmAny", "unlink"}
  BY DEF Call
<1>4. Calls(c, arg) = s
  BY DEF Calls, RmRun
<1> HIDE DEF x
<1>5. Len(s) = 1 /\ s[1] = x
  OBVIOUS
<1> HIDE DEF s, op
<1>6. RmStack(s, arg[1])
  BY <1>3, <1>5 DEF RmStack, Removals
<1> QED BY <1>2, <1>3, <1>4, <1>5, <1>6 DEF op

\* Nothing is found but what was, and of the path of a removal only what is above.
LEMMA RmDone ==
  ASSUME NEW r, RunOK(r), r.cmd.name = "rm", r.todo # <<>>,
         NEW n, NEW m, NEW n0, NEW d, RmRuns(r, n, n0, d),
         \A path \in Seq(Names) : Found(m, d, path) => Found(n, d, path),
         \A path \in Seq(Names) : Under(path, r.todo[1].a) /\ Found(n, d, path) => Found(m, d, path),
         ~Found(m, d, r.todo[1].a), Found(n, d, r.todo[1].a) \/ Has(r.cmd, "f")
  PROVE  RmRuns(Done(r), m, n0, d)
<1> DEFINE s == Done(r)
           a == r.todo[1].a
           c == r.cmd
<1>1. /\ r.todo \in Seq(CallSet) /\ 1 \in 1..Len(r.todo) /\ c \in CommandLines \cup {Idle}
      /\ r.cmd.args \in Seq(Seq(Seq(Names)))
  BY EmptySeq DEF RunOK, RunParts, RunSet, CommandLines, Idle
<1>2. Taken(r) \in 1..Len(c.args) /\ RmStack(r.todo, Now(r)[1]) /\ LineOK(c) /\ InLine(r)
  BY DEF RmRuns
<1>3. r.todo[1].op \notin {"openDst", "pump"}
  BY <1>1, <1>2 DEF RmStack, Removals
<1>4. /\ InLine(s) /\ s.cmd = r.cmd /\ s.ret = r.ret
      /\ Tail(r.todo) # <<>> => s.todo = Tail(r.todo) /\ Taken(s) = Taken(r) /\ Settled(s) = Settled(r)
      /\ Tail(r.todo) = <<>> =>
           /\ Settled(s) = Taken(r) /\ Taken(r) \in 0..Len(s.cmd.args)
           /\ s.todo = <<>> => Taken(r) = Len(s.cmd.args) /\ Taken(s) = Taken(r)
           /\ s.todo # <<>> =>
                /\ Taken(s) = Taken(r) + 1 /\ Taken(s) \in 1..Len(s.cmd.args)
                /\ s.cmd \in CommandLines /\ Now(s) \in Seq(Seq(Names)) /\ OperandOK(s.cmd, Now(s))
                /\ s.todo = Calls(s.cmd, Now(s))
  BY <1>2, <1>3, DonePops
<1> HIDE DEF s
<1>5. \A k \in 1..Len(c.args) : c.args[k][1] \in Seq(Names)
  BY <1>1, <1>2, OneOperand
<1>6. \A path \in Seq(Names) : Found(m, d, path) => Found(n0, d, path)
  BY DEF RmRuns
<1>7. r.ret = 0 => \A k \in 1..Settled(r) : ~Found(m, d, c.args[k][1])
                                            /\ (Found(n0, d, c.args[k][1]) \/ Has(c, "f"))
  <2> SUFFICES ASSUME r.ret = 0, NEW k \in 1..Settled(r)
               PROVE  ~Found(m, d, c.args[k][1]) /\ (Found(n0, d, c.args[k][1]) \/ Has(c, "f"))
    OBVIOUS
  <2>1. ~Found(n, d, c.args[k][1]) /\ (Found(n0, d, c.args[k][1]) \/ Has(c, "f"))
    BY DEF RmRuns
  <2>2. k \in 1..Len(c.args)
    BY <1>2 DEF Settled
  <2> QED BY <1>5, <2>1, <2>2
<1>8. ASSUME Tail(r.todo) # <<>> PROVE RmRuns(s, m, n0, d)
  <2>1. s.todo = Tail(r.todo) /\ Taken(s) = Taken(r) /\ Settled(s) = Settled(r) /\ Now(s) = Now(r)
    BY <1>4, <1>8 DEF Now
  <2>2. RmStack(s.todo, Now(s)[1]) /\ Under(Now(r)[1], a)
    BY <1>1, <1>2, <1>8, <2>1, StackPops
  <2>3. ASSUME Len(c.args) = 1
        PROVE  r.ret = 0 /\ (Found(n0, d, c.args[1][1]) => Found(m, d, c.args[1][1]))
    <3>1. Now(r) = c.args[1]
      BY <1>2, <2>3 DEF Now
    <3>2. r.ret = 0 /\ (Found(n0, d, c.args[1][1]) => Found(n, d, c.args[1][1]))
      BY <2>3 DEF RmRuns
    <3> QED BY <1>5, <2>2, <2>3, <3>1, <3>2
  <2>4. s.todo # <<>> /\ Taken(s) \in 1..Len(s.cmd.args) /\ LineOK(s.cmd) /\ InLine(s)
    BY <1>2, <1>4, <1>8, <2>1
  <2>5. s.ret = 0 => \A k \in 1..Settled(s) :
          LET b == s.cmd.args[k][1] IN ~Found(m, d, b) /\ (Found(n0, d, b) \/ Has(s.cmd, "f"))
    BY <1>4, <1>7, <2>1
  <2>6. Len(s.cmd.args) = 1 =>
          s.ret = 0 /\ LET b == s.cmd.args[1][1] IN Found(n0, d, b) => Found(m, d, b)
    BY <1>4, <2>3
  <2> QED BY <1>6, <2>2, <2>4, <2>5, <2>6 DEF RmRuns
<1>9. ASSUME Tail(r.todo) = <<>> PROVE RmRuns(s, m, n0, d)
  <2>1. Len(r.todo) = 1
    <3>1. Len(Tail(r.todo)) = Len(r.todo) - 1
      BY <1>1, HeadTailProperties
    <3>2. Len(Tail(r.todo)) = 0
      <4>1. Len(<<>>) = 0
        OBVIOUS
      <4> QED BY <1>9, <4>1
    <3> QED BY <1>1, <3>1, <3>2
  <2>2. a = Now(r)[1]
    BY <1>2, <2>1 DEF RmStack
  <2>3. Settled(s) = Taken(r) /\ Settled(r) = Taken(r) - 1
    BY <1>4, <1>9 DEF Settled
  <2>4. a = c.args[Taken(r)][1] /\ a \in Seq(Names)
    BY <1>2, <1>5, <2>2 DEF Now
  <2>5. Found(n, d, a) => Found(n0, d, a)
    BY <2>4 DEF RmRuns
  <2>6. \A k \in 1..Settled(s) : k \in 1..Settled(r) \/ k = Taken(r)
    BY <1>2, <2>3
  <2>7. s.ret = 0 => \A k \in 1..Settled(s) : ~Found(m, d, c.args[k][1])
                                              /\ (Found(n0, d, c.args[k][1]) \/ Has(c, "f"))
    BY <1>4, <1>7, <2>4, <2>5, <2>6
  <2>8. s.todo # <<>> => RmStack(s.todo, Now(s)[1])
    BY <1>4, <1>9, RmLoads
  <2>9. ASSUME Len(c.args) = 1 PROVE s.todo = <<>> /\ s.ret = 0
    <3>1. r.ret = 0
      BY <2>9 DEF RmRuns
    <3>2. Taken(r) = 1
      BY <1>2, <2>9
    <3> QED BY <1>4, <1>9, <2>9, <3>1, <3>2
  <2>10. InLine(s) /\ LineOK(s.cmd) /\ (s.todo # <<>> => Taken(s) \in 1..Len(s.cmd.args))
    BY <1>2, <1>4, <1>9
  <2>11. s.ret = 0 => \A k \in 1..Settled(s) :
           LET b == s.cmd.args[k][1] IN ~Found(m, d, b) /\ (Found(n0, d, b) \/ Has(s.cmd, "f"))
    BY <1>4, <2>7
  <2>12. Len(s.cmd.args) = 1 => s.todo = <<>> /\ s.ret # 1
    BY <1>4, <2>9
  <2> QED BY <1>6, <2>8, <2>10, <2>11, <2>12 DEF RmRuns
<1> QED BY <1>8, <1>9 DEF s

LEMMA RmFail ==
  ASSUME NEW r, RunOK(r), r.cmd.name = "rm", r.todo # <<>>,
         NEW n, NEW m, NEW n0, NEW d, RmRuns(r, n, n0, d),
         \A path \in Seq(Names) : Found(m, d, path) <=> Found(n, d, path)
  PROVE  RmRuns(Fail(r), m, n0, d)
<1> DEFINE s == Fail(r)
           c == r.cmd
<1>1. Taken(r) \in 1..Len(c.args) /\ LineOK(c) /\ InLine(r) /\ c \in CommandLines \cup {Idle}
  BY DEF RmRuns, RunOK, RunParts, RunSet
<1>2. /\ InLine(s) /\ s.cmd = r.cmd /\ s.ret = 1 /\ Taken(r) \in 0..Len(s.cmd.args)
      /\ s.todo = <<>> => Taken(r) = Len(s.cmd.args)
      /\ s.todo # <<>> =>
           /\ Taken(s) = Taken(r) + 1 /\ Taken(s) \in 1..Len(s.cmd.args)
           /\ s.cmd \in CommandLines /\ Now(s) \in Seq(Seq(Names)) /\ OperandOK(s.cmd, Now(s))
           /\ s.todo = Calls(s.cmd, Now(s))
  BY <1>1, FailSkips
<1> HIDE DEF s
<1>3. s.todo # <<>> => RmStack(s.todo, Now(s)[1])
  BY <1>2, RmLoads
<1>4. \A path \in Seq(Names) : Found(m, d, path) => Found(n0, d, path)
  BY DEF RmRuns
<1>5. ASSUME Len(c.args) = 1
      PROVE  s.todo = <<>> /\ (Found(n0, d, c.args[1][1]) => Found(m, d, c.args[1][1]))
  <2>1. Taken(r) = 1 /\ 1 \in 1..Len(c.args)
    BY <1>1, <1>5
  <2>2. c.args[1][1] \in Seq(Names)
    BY <1>1, <2>1, OneOperand
  <2>3. Found(n0, d, c.args[1][1]) => Found(n, d, c.args[1][1])
    BY <1>5 DEF RmRuns
  <2> QED BY <1>2, <1>5, <2>1, <2>2, <2>3
<1>6. 1 # 0
  OBVIOUS
<1>7. RmRuns(s, m, n0, d)
  BY <1>1, <1>2, <1>3, <1>4, <1>5, <1>6 DEF RmRuns
<1> QED BY <1>7 DEF s

LEMMA RmGoesOn ==
  ASSUME NEW r, RunOK(r), r.cmd.name = "rm", r.todo # <<>>,
         NEW n, NEW m, NEW n0, NEW d, RmRuns(r, n, n0, d),
         \A path \in Seq(Names) : Found(m, d, path) <=> Found(n, d, path),
         NEW s, InLine(s), s.cmd = r.cmd, s.ret = r.ret, s.todo # <<>>, Taken(s) = Taken(r), Now(s) = Now(r),
         Settled(s) = Settled(r), RmStack(s.todo, Now(r)[1])
  PROVE  RmRuns(s, m, n0, d)
<1> DEFINE c == r.cmd
<1>1. Taken(r) \in 1..Len(c.args) /\ LineOK(c) /\ InLine(r) /\ c \in CommandLines \cup {Idle}
  BY DEF RmRuns, RunOK, RunParts, RunSet
<1>2. \A k \in 1..Len(c.args) : c.args[k][1] \in Seq(Names)
  BY <1>1, OneOperand
<1>3. \A k \in 1..Settled(s) : k \in 1..Len(c.args) /\ k \in 1..Settled(r)
  BY <1>1 DEF Settled
<1>4. s.ret = 0 => \A k \in 1..Settled(s) :
        LET a == c.args[k][1] IN ~Found(m, d, a) /\ (Found(n0, d, a) \/ Has(c, "f"))
  BY <1>2, <1>3 DEF RmRuns
<1>5. ASSUME Len(c.args) = 1
      PROVE  s.ret = 0 /\ (Found(n0, d, c.args[1][1]) => Found(m, d, c.args[1][1]))
  <2>1. 1 \in 1..Len(c.args)
    BY <1>5
  <2> QED BY <1>2, <1>5, <2>1 DEF RmRuns
<1>6. \A path \in Seq(Names) : Found(m, d, path) => Found(n0, d, path)
  BY DEF RmRuns
<1> QED BY <1>1, <1>4, <1>5, <1>6 DEF RmRuns

LEMMA RmStarts ==
  ASSUME NEW c \in CommandLines, c.name = "rm", \A arg \in Range(c.args) : OperandOK(c, arg), NEW n, NEW d
  PROVE  RmRuns(Load([AtRest(c, 0) EXCEPT !.args = c.args]), n, n, d)
<1> DEFINE s == Load([AtRest(c, 0) EXCEPT !.args = c.args])
<1>1. /\ InLine(s) /\ s.cmd = c /\ s.ret = 0 /\ Settled(s) = 0
      /\ s.todo = <<>> => Len(c.args) = 0 /\ Taken(s) = 0
      /\ s.todo # <<>> =>
           /\ Taken(s) = 1 /\ 1 \in 1..Len(c.args)
           /\ Now(s) \in Seq(Seq(Names)) /\ OperandOK(c, Now(s)) /\ s.todo = Calls(c, Now(s))
  BY StartsInLine
<1> HIDE DEF s
<1>2. s.todo # <<>> => RmStack(s.todo, Now(s)[1])
  BY <1>1, RmLoads
<1>3. LineOK(c)
  <2>1. c.args \in Seq(Seq(Seq(Names)))
    BY DEF CommandLines
  <2> QED BY <2>1 DEF LineOK, Range
<1>4. \A k \in 1..Settled(s) : FALSE
  BY <1>1
<1>5. RmRuns(s, n, n, d)
  BY <1>1, <1>2, <1>3, <1>4 DEF RmRuns
<1> QED BY <1>5 DEF s

-----------------------------------------------------------------------------
(* A step of a shell is a system call of its command, or starts the next.  *)

LEMMA LoadCmd ==
  ASSUME NEW r, "cmd" \in DOMAIN r
  PROVE  Load(r).cmd = r.cmd /\ "cmd" \in DOMAIN Load(r)
BY DEF Load

LEMMA CmdKept ==
  ASSUME NEW r \in RunSet
  PROVE  /\ \A calls : Instead(r, calls).cmd = r.cmd
         /\ Done(r).cmd = r.cmd /\ Fail(r).cmd = r.cmd
         /\ \A calls : \A i : [Instead(r, calls) EXCEPT !.src = i].cmd = r.cmd
         /\ \A calls : \A i : [Instead(r, calls) EXCEPT !.dst = i].cmd = r.cmd
         /\ Done(Shut(r)).cmd = r.cmd
         /\ \A i : Done(Shut([r EXCEPT !.cut = i])).cmd = r.cmd
<1>1. "cmd" \in DOMAIN r
  BY DEF RunSet
<1>2. ASSUME NEW s, "cmd" \in DOMAIN s, s.cmd = r.cmd, NEW calls
      PROVE  Instead(s, calls).cmd = r.cmd /\ "cmd" \in DOMAIN Instead(s, calls)
  <2> DEFINE u == [s EXCEPT !.todo = calls \o Tail(@)]
  <2>1. u.cmd = r.cmd /\ "cmd" \in DOMAIN u
    BY <1>2
  <2>2. Instead(s, calls) = Load(u)
    BY DEF Instead
  <2> HIDE DEF u
  <2> QED BY <2>1, <2>2, LoadCmd
<1>3. \A calls : Instead(r, calls).cmd = r.cmd /\ "cmd" \in DOMAIN Instead(r, calls)
  BY <1>1, <1>2
<1>4. Done(r).cmd = r.cmd
  BY <1>3 DEF Done
<1>5. Fail(r).cmd = r.cmd
  <2> DEFINE u == [r EXCEPT !.todo = <<>>, !.ret = 1, !.src = NoFile, !.dst = NoFile]
  <2>1. u.cmd = r.cmd /\ "cmd" \in DOMAIN u
    BY <1>1
  <2>2. Fail(r) = Load(u)
    BY DEF Fail
  <2> HIDE DEF u
  <2> QED BY <2>1, <2>2, LoadCmd
<1>6. ASSUME NEW k, "cmd" \in DOMAIN k, k.cmd = r.cmd PROVE Done(Shut(k)).cmd = r.cmd
  <2> DEFINE u == Shut(k)
  <2>1. u.cmd = r.cmd /\ "cmd" \in DOMAIN u
    BY <1>6 DEF Shut
  <2> HIDE DEF u
  <2>2. Done(u).cmd = r.cmd
    BY <2>1, <1>2 DEF Done
  <2> QED BY <2>2 DEF u
<1>8. Done(Shut(r)).cmd = r.cmd
  BY <1>1, <1>6
<1>9. ASSUME NEW i PROVE Done(Shut([r EXCEPT !.cut = i])).cmd = r.cmd
  <2> DEFINE k == [r EXCEPT !.cut = i]
  <2>1. k.cmd = r.cmd /\ "cmd" \in DOMAIN k
    BY <1>1
  <2> HIDE DEF k
  <2>2. Done(Shut(k)).cmd = r.cmd
    BY <1>6, <2>1
  <2> QED BY <2>2 DEF k
<1>7. ASSUME NEW calls, NEW i
      PROVE  /\ [Instead(r, calls) EXCEPT !.src = i].cmd = r.cmd
             /\ [Instead(r, calls) EXCEPT !.dst = i].cmd = r.cmd
  <2> DEFINE u == Instead(r, calls)
  <2>1. u.cmd = r.cmd /\ "cmd" \in DOMAIN u
    BY <1>3
  <2> HIDE DEF u
  <2>2. [u EXCEPT !.src = i].cmd = r.cmd /\ [u EXCEPT !.dst = i].cmd = r.cmd
    BY <2>1
  <2> QED BY <2>2 DEF u
<1> QED BY <1>3, <1>4, <1>5, <1>7, <1>8, <1>9

\* What a call returns to its command, and the file system it leaves.
Makes(p, op) ==
  /\ Next1(p, op) /\ op \in Ops
  /\ \E s, n : s.cmd = run[p].cmd /\ (Returns(p, s, n) \/ (op = "chdir" /\ run' = [run EXCEPT ![p] = s]))

OtherOps == Ops \ {"unlink", "rmAny", "rmKids", "rmdir", "mkdirOk", "mkdir", "utime", "create", "chdir"}

LEMMA StepMakes ==
  ASSUME Orderly, NEW p \in Shells, Step(p)
  PROVE  \/ Start(p)
         \/ RmUnlink(p) /\ Makes(p, "unlink")
         \/ RmAny(p) /\ Makes(p, "rmAny")
         \/ RmKids(p) /\ Makes(p, "rmKids")
         \/ RmDir(p) /\ Makes(p, "rmdir")
         \/ MkDir(p, "mkdirOk") /\ Makes(p, "mkdirOk")
         \/ MkDir(p, "mkdir") /\ Makes(p, "mkdir")
         \/ Utime(p) /\ Makes(p, "utime")
         \/ TouchCreate(p) /\ Makes(p, "create")
         \/ ChDir(p) /\ Makes(p, "chdir")
         \/ \E op \in OtherOps : Makes(p, op)
<1> DEFINE r == run[p]
<1>1. r \in RunSet
  BY DEF Orderly
<1>2. /\ \A calls : Instead(r, calls).cmd = r.cmd
      /\ Done(r).cmd = r.cmd /\ Fail(r).cmd = r.cmd
      /\ \A calls : \A i : [Instead(r, calls) EXCEPT !.src = i].cmd = r.cmd
      /\ \A calls : \A i : [Instead(r, calls) EXCEPT !.dst = i].cmd = r.cmd
      /\ Done(Shut(r)).cmd = r.cmd
      /\ \A i : Done(Shut([r EXCEPT !.cut = i])).cmd = r.cmd
  BY <1>1, CmdKept
<1>3. \A s : \A n : \A op \in Ops : Next1(p, op) /\ s.cmd = r.cmd /\ Returns(p, s, n) => Makes(p, op)
  BY DEF Makes
<1> HIDE DEF r
<1>4. CopyAny(p) => Makes(p, "copyAny") /\ "copyAny" \in OtherOps
  BY <1>2, <1>3 DEF CopyAny, OtherOps, Ops, r
<1>5. CopyDir(p) => Makes(p, "copyDir") /\ "copyDir" \in OtherOps
  BY <1>2, <1>3 DEF CopyDir, OtherOps, Ops, r
<1>6. CopyKids(p) => Makes(p, "copyKids") /\ "copyKids" \in OtherOps
  BY <1>2, <1>3 DEF CopyKids, OtherOps, Ops, r
<1>7. OpenSrc(p) => Makes(p, "openSrc") /\ "openSrc" \in OtherOps
  BY <1>2, <1>3 DEF OpenSrc, OtherOps, Ops, r
<1>8. OpenDst(p) => Makes(p, "openDst") /\ "openDst" \in OtherOps
  BY <1>2, <1>3 DEF OpenDst, OtherOps, Ops, r
<1>9. Pump(p) => Makes(p, "pump") /\ "pump" \in OtherOps
  BY <1>2, <1>3 DEF Pump, OtherOps, Ops, r
<1>22. WriteFails(p) => Makes(p, "pump") /\ "pump" \in OtherOps
  BY <1>2, <1>3 DEF WriteFails, WriteError, BreaksOff, OtherOps, Ops, r
<1>23. CopyCutShort(p) => Makes(p, "pump") /\ "pump" \in OtherOps
  BY <1>2, <1>3 DEF CopyCutShort, BreaksOff, OtherOps, Ops, r
<1>10. RmUnlink(p) => Makes(p, "unlink")
  BY <1>2, <1>3 DEF RmUnlink, Ops, r
<1>11. RmAny(p) => Makes(p, "rmAny")
  BY <1>2, <1>3 DEF RmAny, Ops, r
<1>12. RmKids(p) => Makes(p, "rmKids")
  BY <1>2, <1>3 DEF RmKids, Ops, r
<1>13. MkDir(p, "mkdir") => Makes(p, "mkdir")
  BY <1>2, <1>3 DEF MkDir, Ops, r
<1>14. MkDir(p, "mkdirOk") => Makes(p, "mkdirOk")
  BY <1>2, <1>3 DEF MkDir, Ops, r
<1>15. RmDir(p) => Makes(p, "rmdir")
  BY <1>2, <1>3 DEF RmDir, Ops, r
<1>16. RmDirUp(p) => Makes(p, "rmdirUp") /\ "rmdirUp" \in OtherOps
  BY <1>2, <1>3 DEF RmDirUp, GivesUp, OtherOps, Ops, r
<1>17. Rename(p) => Makes(p, "rename") /\ "rename" \in OtherOps
  BY <1>2, <1>3 DEF Rename, OtherOps, Ops, r
<1>18. Utime(p) => Makes(p, "utime")
  BY <1>2, <1>3 DEF Utime, Ops, r
<1>19. TouchCreate(p) => Makes(p, "create")
  BY <1>2, <1>3 DEF TouchCreate, Ops, r
<1>20. ChDir(p) => Makes(p, "chdir")
  <2> SUFFICES ASSUME ChDir(p) PROVE Makes(p, "chdir")
    OBVIOUS
  <2>1. Next1(p, "chdir") /\ "chdir" \in Ops
    BY DEF ChDir, Ops
  <2>2. PICK s \in {Done(r), Fail(r)} : run' = [run EXCEPT ![p] = s]
    BY DEF ChDir, r
  <2>3. s.cmd = r.cmd
    BY <1>2, <2>2
  <2> QED BY <2>1, <2>2, <2>3 DEF Makes, r
<1>21. Show(p) => Makes(p, "show") /\ "show" \in OtherOps
  BY <1>2, <1>3 DEF Show, OtherOps, Ops, r
<1> QED BY <1>4, <1>5, <1>6, <1>7, <1>8, <1>9, <1>10, <1>11, <1>12, <1>13, <1>14, <1>15, <1>16, <1>17,
           <1>18, <1>19, <1>20, <1>21, <1>22, <1>23 DEF Step

\* What stays as it is, whatever the call.
LEMMA OthersWait ==
  ASSUME Orderly, NEW p \in Shells, Step(p)
  PROVE  /\ \A q \in Shells \ {p} : run'[q] = run[q] /\ script'[q] = script[q] /\ before'[q] = before[q]
                                   /\ cwd'[q] = cwd[q] /\ (alone'[q] => Start(p) /\ alone[q])
         /\ Start(p) \/ /\ run[p].todo # <<>> /\ run'[p].cmd = run[p].cmd /\ script' = script
                        /\ before' = before /\ alone'[p] = alone[p]
         /\ ~ChDir(p) => cwd' = cwd
         /\ Start(p) => node' = node /\ script[p] # <<>> /\ script'[p] = Tail(script[p]) /\ run[p].todo = <<>>
                        /\ before'[p] = node /\ alone'[p]
<1>1. /\ cwd = [q \in Shells |-> cwd[q]] /\ run = [q \in Shells |-> run[q]]
      /\ script = [q \in Shells |-> script[q]] /\ before = [q \in Shells |-> before[q]]
      /\ alone = [q \in Shells |-> alone[q]]
  BY DEF Orderly
<1>2. CASE Start(p)
  BY <1>1, <1>2 DEF Start, Busy
<1>3. CASE ChDir(p)
  <2>1. /\ \A q \in Shells \ {p} : run'[q] = run[q] /\ cwd'[q] = cwd[q] /\ ~alone'[q]
        /\ script' = script /\ before' = before /\ alone'[p] = alone[p] /\ run[p].todo # <<>>
    BY <1>1, <1>3 DEF ChDir, Next1, Busy
  <2>2. run'[p].cmd = run[p].cmd
    <3>1. run[p] \in RunSet
      BY DEF Orderly
    <3>2. run'[p] \in {Done(run[p]), Fail(run[p])}
      BY <1>1, <1>3 DEF ChDir
    <3> QED BY <3>1, <3>2, CmdKept
  <2> QED BY <1>3, <2>1, <2>2 DEF Start, Busy
<1>4. ASSUME NEW op, Makes(p, op), ~Start(p), ~ChDir(p) 
      PROVE  /\ \A q \in Shells \ {p} : run'[q] = run[q] /\ ~alone'[q]
             /\ script' = script /\ before' = before /\ cwd' = cwd /\ alone'[p] = alone[p] /\ run[p].todo # <<>>
             /\ run'[p].cmd = run[p].cmd
  <2>1. op # "chdir"
    <3>1. ~Next1(p, "chdir")
      BY <1>4, StepMakes DEF Makes, Next1, OtherOps, Ops
    <3> QED BY <1>4, <3>1 DEF Makes
  <2>2. PICK s, n : s.cmd = run[p].cmd /\ Returns(p, s, n)
    BY <1>4, <2>1 DEF Makes
  <2>3. run' = [run EXCEPT ![p] = s] /\ alone' = [q \in Shells |-> IF q = p THEN alone[q] ELSE FALSE]
        /\ script' = script /\ before' = before /\ cwd' = cwd
    BY <2>2 DEF Returns
  <2>4. run[p].todo # <<>>
    BY <1>4 DEF Makes, Next1, Busy
  <2> QED BY <1>1, <2>2, <2>3, <2>4
<1>5. CASE ~Start(p) /\ ~ChDir(p)
  <2>1. PICK op : Makes(p, op)
    BY <1>5, StepMakes
  <2> QED BY <1>4, <1>5, <2>1
<1> QED BY <1>2, <1>3, <1>5

\* The calls of rm, and the paths they leave to be found.
LEMMA SameFound ==
  ASSUME Orderly, NEW p \in Shells, NEW s, Returns(p, s, node), NEW d \in Inodes, NEW path \in Seq(Names)
  PROVE  /\ Found(node', d, path) <=> Found(node, d, path)
         /\ Found(node, d, path) => Lookup(node', d, path) = Lookup(node, d, path)
<1>1. IsTree(node, Inodes) /\ node' = Tidy(node, Held(run', cwd))
  BY AnyHeld DEF Orderly, Returns
<1> DEFINE h == Held(run', cwd)
<1> HIDE DEF h
<1>2. node' = Tidy(node, h)
  BY <1>1 DEF h
<1> QED BY <1>1, <1>2, TidyFinds

LEMMA GoneAfter ==
  ASSUME Orderly, NEW p \in Shells, NEW s, NEW d \in Inodes, NEW a \in Seq(Names), a # <<>>,
         Found(node, d, a), Entries(node, Lookup(node, d, a)) = {},
         Returns(p, s, Unlink(node, Lookup(node, d, a)))
  PROVE  /\ ~Found(node', d, a)
         /\ \A q \in Seq(Names) : Found(node', d, q) => Found(node, d, q) /\ Lookup(node', d, q) = Lookup(node, d, q)
         /\ \A q \in Seq(Names) : Under(q, a) => Found(node', d, q)
<1> DEFINE m == Unlink(node, Lookup(node, d, a))
           h == Held(run', cwd)
<1>1. IsTree(node, Inodes)
  BY AnyHeld DEF Orderly
<1>2. /\ IsTree(m, Inodes) /\ ~Found(m, d, a)
      /\ \A q \in Seq(Names) : Found(m, d, q) => Found(node, d, q) /\ Lookup(m, d, q) = Lookup(node, d, q)
      /\ \A q \in Seq(Names) : Under(q, a) => Found(m, d, q)
  BY <1>1, Removed
<1>3. node' = Tidy(m, h)
  BY DEF Returns
<1> HIDE DEF m, h
<1>4. \A q \in Seq(Names) : /\ Found(node', d, q) <=> Found(m, d, q)
                            /\ Found(m, d, q) => Lookup(node', d, q) = Lookup(m, d, q)
  BY <1>2, <1>3, TidyFinds
<1> QED BY <1>2, <1>4

LEMMA RmActs ==
  ASSUME Orderly, NEW p \in Shells, run[p].cmd.name = "rm", NEW n0, RmRuns(run[p], node, n0, cwd[p]),
         RmUnlink(p) \/ RmAny(p) \/ RmKids(p) \/ RmDir(p)
  PROVE  RmRuns(run'[p], node', n0, cwd[p])
<1> DEFINE r == run[p]
           d == cwd[p]
           i == Lookup(node, d, A(p))
<1>1. PICK op \in Removals : Next1(p, op)
  BY DEF RmUnlink, RmAny, RmKids, RmDir, Removals
<1>2. /\ RunOK(r) /\ r.todo # <<>> /\ r \in RunSet /\ r.todo[1].op = op /\ A(p) = r.todo[1].a
      /\ A(p) \in Seq(Names) /\ A(p) # <<>> /\ d \in Inodes /\ IsTree(node, Inodes) /\ i \in Places
      /\ r.todo \in Seq(CallSet) /\ r.cmd.name = "rm" /\ RmRuns(r, node, n0, d)
  <2>1. op \notin {"chdir", "show"}
    BY <1>1 DEF Removals
  <2> QED BY <1>1, <2>1, AtHand DEF A, RunSet
<1>3. i \in Errors <=> ~Found(node, d, A(p))
  BY <1>2, NoErrorIsFound DEF Found
<1>4. run = [q \in Shells |-> run[q]]
  BY DEF Orderly
<1>5. \A s, n : Returns(p, s, n) => run'[p] = s
  BY <1>4 DEF Returns
<1>6. InLine(r) /\ Taken(r) \in 1..Len(r.cmd.args) /\ RmStack(r.todo, Now(r)[1])
  BY <1>2 DEF RmRuns
<1>7. r.todo[1].op \notin {"openDst", "pump"}
  BY <1>1, <1>2 DEF Removals
<1> HIDE DEF r, d, i
<1>8. ASSUME Returns(p, Fail(r), node) PROVE RmRuns(run'[p], node', n0, d)
  <2>1. \A path \in Seq(Names) : Found(node', d, path) <=> Found(node, d, path)
    BY <1>2, <1>8, SameFound
  <2> QED BY <1>2, <1>5, <1>8, <2>1, RmFail
<1>9. ASSUME Returns(p, Done(r), node), i \in Errors, Has(r.cmd, "f") PROVE RmRuns(run'[p], node', n0, d)
  <2>1. \A path \in Seq(Names) : Found(node', d, path) <=> Found(node, d, path)
    BY <1>2, <1>9, SameFound
  <2>2. ~Found(node', d, r.todo[1].a)
    BY <1>2, <1>3, <1>9, <2>1
  <2>3. RmRuns(Done(r), node', n0, d)
    BY <1>2, <1>9, <2>1, <2>2, RmDone
  <2> QED BY <1>5, <1>9, <2>3
<1>10. ASSUME Returns(p, Done(r), Unlink(node, i)), i \notin Errors, Entries(node, i) = {}
       PROVE  RmRuns(run'[p], node', n0, d)
  <2>1. Found(node, d, A(p))
    BY <1>3, <1>10
  <2>2. /\ ~Found(node', d, A(p))
        /\ \A q \in Seq(Names) : Found(node', d, q) => Found(node, d, q)
        /\ \A q \in Seq(Names) : Under(q, A(p)) => Found(node', d, q)
    BY <1>2, <1>10, <2>1, GoneAfter DEF i
  <2>3. RmRuns(Done(r), node', n0, d)
    BY <1>2, <2>1, <2>2, RmDone
  <2> QED BY <1>5, <1>10, <2>3
<1>11. ASSUME NEW c \in CallSet, CallOK(c), c.op \in Removals \ {"rmdir"}, c.a = A(p),
              Returns(p, Instead(r, <<c>>), node)
       PROVE  RmRuns(run'[p], node', n0, d)
  <2> DEFINE cs == <<c>>
             s == Instead(r, cs)
  <2>1. cs \in Seq(CallSet) /\ TodoOK(cs, r.src) /\ cs # <<>>
    BY <1>11, OneCall DEF Removals
  <2>2. RmStack(cs \o Tail(r.todo), Now(r)[1])
    BY <1>2, <1>6, <1>11, StackTurns
  <2>3. Returns(p, s, node)
    BY <1>11
  <2> HIDE DEF cs
  <2>4. /\ InLine(s) /\ s.cmd = r.cmd /\ s.ret = r.ret /\ s.todo = cs \o Tail(r.todo)
        /\ s.todo # <<>> /\ Taken(s) = Taken(r) /\ Now(s) = Now(r) /\ Settled(s) = Settled(r)
    BY <1>2, <1>6, <1>7, <2>1, InsteadGoesOn
  <2> HIDE DEF s
  <2>5. \A path \in Seq(Names) : Found(node', d, path) <=> Found(node, d, path)
    BY <1>2, <2>3, SameFound
  <2>6. RmRuns(s, node', n0, d)
    BY <1>2, <2>2, <2>4, <2>5, RmGoesOn
  <2> QED BY <1>5, <2>3, <2>6
<1>12. CASE RmUnlink(p)
  <2>1. \/ Returns(p, Fail(r), node)
        \/ Returns(p, Done(r), node) /\ i \in Errors /\ Has(r.cmd, "f")
        \/ Returns(p, Done(r), Unlink(node, i)) /\ i \notin Errors /\ ~IsDir(node, i)
    BY <1>12 DEF RmUnlink, ForceCovers, r, d, i
  <2>2. i \notin Errors /\ ~IsDir(node, i) => Entries(node, i) = {}
    BY <1>2, NoErrorIsFound, FilesHaveNoEntries
  <2> QED BY <1>8, <1>9, <1>10, <2>1, <2>2 DEF d
<1>13. CASE RmAny(p)
  <2>1. \/ Returns(p, Fail(r), node)
        \/ Returns(p, Done(r), node) /\ i \in Errors /\ Has(r.cmd, "f")
        \/ \E o \in {"rmKids", "unlink"} : Returns(p, Instead(r, <<Call(o, A(p), <<>>)>>), node)
    BY <1>13 DEF RmAny, ForceCovers, r, d, i
  <2>2. ASSUME NEW o \in {"rmKids", "unlink"}, Returns(p, Instead(r, <<Call(o, A(p), <<>>)>>), node)
        PROVE  RmRuns(run'[p], node', n0, d)
    <3> DEFINE c == Call(o, A(p), <<>>)
    <3>1. o \in Ops \ OfTwo /\ o \in Removals \ {"rmdir"}
      BY DEF Ops, OfTwo, Removals
    <3>2. c \in CallSet /\ CallOK(c) /\ c.op = o /\ c.a = A(p)
      BY <1>2, <3>1, CallOfOne
    <3>3. Returns(p, Instead(r, <<c>>), node)
      BY <2>2
    <3> HIDE DEF c
    <3> QED BY <1>11, <3>1, <3>2, <3>3
  <2> QED BY <1>8, <1>9, <2>1, <2>2 DEF d
<1>14. CASE RmKids(p)
  <2> DEFINE kids(q) == [k \in 1..Len(q) |-> Call("rmAny", ChildPath(A(p), q[k]), <<>>)]
             calls(q) == kids(q) \o <<Call("rmdir", A(p), <<>>)>>
  <2>1. \/ Returns(p, Fail(r), node)
        \/ /\ i \notin Errors
           /\ \E q \in Orders(EntryNames(node, i)) : Returns(p, Instead(r, calls(q)), node)
    BY <1>14 DEF RmKids, r, d, i
  <2>2. ASSUME i \notin Errors, NEW q \in Orders(EntryNames(node, i)), Returns(p, Instead(r, calls(q)), node)
        PROVE  RmRuns(run'[p], node', n0, d)
    <3> DEFINE cs == calls(q)
               s == Instead(r, cs)
    <3>1. q \in Seq(Names)
      BY <1>2, <2>2, NoErrorIsFound, OrdersOfEntries
    <3>2. cs \in Seq(CallSet) /\ TodoOK(cs, r.src) /\ cs # <<>>
      <4>1. "rmAny" \in Ops \ {"openDst", "pump"} /\ "rmAny" \notin OfTwo /\ "rmdir" \in Ops \ OfTwo
        BY DEF Ops, OfTwo
      <4>2. kids(q) \in Seq(CallSet) /\ TodoOK(kids(q), r.src)
        BY <1>2, <3>1, <4>1, KidsOK
      <4>3. Call("rmdir", A(p), <<>>) \in CallSet /\ CallOK(Call("rmdir", A(p), <<>>))
            /\ Call("rmdir", A(p), <<>>).op = "rmdir"
        BY <1>2, <4>1, CallOfOne
      <4> DEFINE c == Call("rmdir", A(p), <<>>)
                 ks == kids(q)
      <4>4. ks \in Seq(CallSet) /\ TodoOK(ks, r.src) /\ c \in CallSet /\ CallOK(c) /\ c.op = "rmdir"
        BY <4>2, <4>3
      <4>5. cs = ks \o <<c>>
        OBVIOUS
      <4> HIDE DEF ks, c, cs
      <4> QED BY <4>4, <4>5, JoinOK
    <3>3. RmStack(cs \o Tail(r.todo), Now(r)[1]) /\ cs \o Tail(r.todo) # <<>>
      <4>1. "rmAny" \in Ops \ {"openDst", "pump"} /\ "rmAny" \notin OfTwo /\ "rmdir" \in Ops \ OfTwo
        BY DEF Ops, OfTwo
      <4> DEFINE c == Call("rmdir", A(p), <<>>)
                 ks == kids(q)
      <4>2. ks \in Seq(CallSet) /\ Len(ks) = Len(q)
            /\ \A k \in 1..Len(q) : ks[k].op = "rmAny" /\ ks[k].a = ChildPath(A(p), q[k])
        <5>1. ks \in Seq(CallSet) /\ Len(ks) = Len(q)
          BY <1>2, <3>1, <4>1, KidsOK
        <5>2. \A k \in 1..Len(q) : ks[k].op = "rmAny" /\ ks[k].a = ChildPath(A(p), q[k])
          BY DEF Call
        <5> QED BY <5>1, <5>2
      <4>3. c \in CallSet /\ c.op = "rmdir" /\ c.a = A(p)
        BY <1>2, <4>1, CallOfOne
      <4>4. cs = ks \o <<c>>
        OBVIOUS
      <4> DEFINE todo == r.todo
                 top == Now(r)[1]
      <4>5. /\ todo \in Seq(CallSet) /\ todo # <<>> /\ RmStack(todo, top) /\ A(p) = todo[1].a
        BY <1>2, <1>6
      <4> HIDE DEF ks, c, cs, todo, top
      <4>6. /\ \A k \in 1..Len(q) : ks[k].op = "rmAny" /\ ks[k].a = ChildPath(todo[1].a, q[k])
            /\ c.a = todo[1].a
        BY <4>2, <4>3, <4>5
      <4>7. Grown(todo, top, q, (ks \o <<c>>) \o Tail(todo))
        BY <3>1, <4>2, <4>3, <4>5, <4>6, StackGrows
      <4> QED BY <4>4, <4>7 DEF Grown, todo, top
    <3>4. Returns(p, s, node)
      BY <2>2
    <3> HIDE DEF cs, calls, kids
    <3>5. /\ InLine(s) /\ s.cmd = r.cmd /\ s.ret = r.ret /\ s.todo = cs \o Tail(r.todo)
          /\ s.todo # <<>> /\ Taken(s) = Taken(r) /\ Now(s) = Now(r) /\ Settled(s) = Settled(r)
      BY <1>2, <1>6, <1>7, <3>2, InsteadGoesOn
    <3> HIDE DEF s
    <3>6. \A path \in Seq(Names) : Found(node', d, path) <=> Found(node, d, path)
      BY <1>2, <3>4, SameFound
    <3>7. RmRuns(s, node', n0, d)
      BY <1>2, <3>3, <3>5, <3>6, RmGoesOn
    <3> QED BY <1>5, <3>4, <3>7
  <2> HIDE DEF kids, calls
  <2> QED BY <1>8, <2>1, <2>2 DEF d
<1>15. CASE RmDir(p)
  <2>1. \/ Returns(p, Fail(r), node)
        \/ Returns(p, Done(r), Unlink(node, i)) /\ CannotRmDir(node, i) = {}
    BY <1>15 DEF RmDir, r, d, i
  <2>2. CannotRmDir(node, i) = {} => i \notin Errors /\ Entries(node, i) = {}
    BY DEF CannotRmDir
  <2> QED BY <1>8, <1>10, <2>1, <2>2 DEF d
<1> QED BY <1>12, <1>13, <1>14, <1>15

LEMMA RmStep ==
  ASSUME Orderly, RmInv, NEW p \in Shells, Step(p)
  PROVE  RmInv'
<1> SUFFICES ASSUME NEW q \in Shells, run'[q].cmd.name = "rm", alone'[q]
             PROVE  RmRuns(run'[q], node', before'[q], cwd'[q])
  BY DEF RmInv
<1>1. /\ \A o \in Shells \ {p} : run'[o] = run[o] /\ before'[o] = before[o]
                               /\ cwd'[o] = cwd[o] /\ (alone'[o] => Start(p) /\ alone[o])
      /\ Start(p) \/ /\ run[p].todo # <<>> /\ run'[p].cmd = run[p].cmd
                     /\ before' = before /\ alone'[p] = alone[p]
      /\ ~ChDir(p) => cwd' = cwd
      /\ Start(p) => node' = node /\ before'[p] = node
  BY OthersWait
<1>2. CASE q # p
  <2>1. run'[q] = run[q] /\ before'[q] = before[q] /\ cwd'[q] = cwd[q] /\ alone[q] /\ node' = node
    BY <1>1, <1>2
  <2>2. RmRuns(run[q], node, before[q], cwd[q])
    BY <2>1 DEF RmInv
  <2> QED BY <2>1, <2>2
<1>3. CASE q = p /\ Start(p)
  <2> DEFINE c == Head(script[p])
  <2>1. c \in CommandLines /\ run'[p].cmd = c
        /\ run'[p] = Load([AtRest(c, 0) EXCEPT !.args = c.args])
    BY <1>3, StartInOrder
  <2>2. \A arg \in Range(c.args) : OperandOK(c, arg)
    <3>1. script[p] # <<>> /\ script[p] \in Seq(CommandLines)
      BY <1>3 DEF Start, Orderly
    <3>2. c = script[p][1] /\ 1 \in 1..Len(script[p])
      BY <3>1, EmptySeq, HeadTailProperties
    <3> QED BY <3>2 DEF Orderly
  <2> HIDE DEF c
  <2>3. RmRuns(run'[p], node, node, cwd'[p])
    BY <1>3, <2>1, <2>2, RmStarts
  <2> QED BY <1>1, <1>3, <2>3
<1>4. CASE q = p /\ ~Start(p)
  <2>1. run[p].cmd.name = "rm" /\ before'[p] = before[p] /\ alone[p] /\ run[p].todo # <<>>
    BY <1>1, <1>4
  <2>2. RmRuns(run[p], node, before[p], cwd[p])
    BY <2>1 DEF RmInv
  <2>3. run[p].todo[1].op \in Removals
    <3>1. run[p].todo \in Seq(CallSet)
      BY DEF Orderly, RunSet
    <3>2. 1 \in 1..Len(run[p].todo)
      BY <2>1, <3>1, EmptySeq
    <3> QED BY <2>1, <2>2, <3>2 DEF RmRuns, RmStack
  <2>4. \A op : Makes(p, op) => op \in Removals
    BY <2>3, AtHand DEF Makes
  <2>5. RmUnlink(p) \/ RmAny(p) \/ RmKids(p) \/ RmDir(p)
    BY <1>4, <2>4, StepMakes DEF OtherOps, Removals
  <2>6. ~ChDir(p)
    <3>1. ~Next1(p, "chdir")
      BY <2>3, AtHand DEF Removals
    <3> QED BY <3>1 DEF ChDir
  <2>7. RmRuns(run'[p], node', before[p], cwd[p])
    BY <2>1, <2>2, <2>5, RmActs
  <2> QED BY <1>1, <1>4, <2>1, <2>6, <2>7
<1> QED BY <1>2, <1>3, <1>4

LEMMA RmTells ==
  ASSUME Orderly, RmInv
  PROVE  RmTellsTheTruth
<1> SUFFICES ASSUME NEW p \in Shells, Ended(p), alone[p], Is(p, "rm", {})
             PROVE  LET was(a) == Found(before[p], cwd[p], a[1])
                        is(a) == Found(node, cwd[p], a[1])
                    IN IF run[p].ret = 0
                       THEN \A a \in Operands(p) : ~is(a) /\ (was(a) \/ Has(run[p].cmd, "f"))
                       ELSE Len(run[p].cmd.args) = 1 => \A a \in Operands(p) : is(a) \/ ~was(a)
  BY Zenon DEF RmTellsTheTruth
<1> DEFINE r == run[p]
           c == r.cmd
<1>1. RmRuns(r, node, before[p], cwd[p]) /\ r \in RunSet /\ RunOK(r)
  BY DEF RmInv, Is, Orderly
<1>2. r.todo = <<>> /\ r.args = <<>>
  BY <1>1 DEF Ended, Busy, RunOK
<1>3. c.args \in Seq(Seq(Seq(Names)))
  <2>1. c \in CommandLines \cup {Idle}
    BY <1>1 DEF RunSet
  <2> HIDE DEF c
  <2>2. c \in CommandLines => c.args \in Seq(Seq(Seq(Names)))
    BY DEF CommandLines
  <2>3. Idle.args = <<>> /\ <<>> \in Seq(Seq(Seq(Names)))
    BY DEF Idle
  <2> QED BY <2>1, <2>2, <2>3
<1>4. Settled(r) = Len(c.args) /\ Len(c.args) \in Nat
  BY <1>2, <1>3 DEF Settled, Taken
<1>5. \A a \in Operands(p) : \E k \in 1..Len(c.args) : a = c.args[k]
  BY <1>3 DEF Operands, Range
<1>6. r.ret \in {0, 1}
  BY <1>1 DEF RunSet
<1> HIDE DEF r
<1>7. r.ret = 0 => \A k \in 1..Len(c.args) :
        ~Found(node, cwd[p], c.args[k][1]) /\ (Found(before[p], cwd[p], c.args[k][1]) \/ Has(c, "f"))
  BY <1>1, <1>4 DEF RmRuns
<1>8. r.ret = 1 /\ Len(c.args) = 1 => \A k \in 1..Len(c.args) :
        Found(before[p], cwd[p], c.args[k][1]) => Found(node, cwd[p], c.args[k][1])
  BY <1>1 DEF RmRuns
<1> QED BY <1>5, <1>6, <1>7, <1>8 DEF r

\* rm that no other shell has disturbed reports what it did.
THEOREM RmIsTruthful == Spec => []RmTellsTheTruth
<1>1. Init => RmInv
  BY DEF Init, RmInv, AtRest, Idle
<1>2. ASSUME Orderly, RmInv, [Next]_vars PROVE RmInv'
  <2>1. CASE Next
    BY <1>2, <2>1, RmStep DEF Next
  <2>2. CASE UNCHANGED vars
    BY <1>2, <2>2 DEF vars, RmInv
  <2> QED BY <1>2, <2>1, <2>2
<1> QED BY <1>1, <1>2, RmTells, StaysInOrder, PTL DEF Spec

-----------------------------------------------------------------------------
(* Several rm -rf of one tree remove it between them.                      *)

\* What is in a directory still to be removed is in the calls before its rmdir.
Covered(todo, n) ==
  \A k \in 1..Len(todo) : todo[k].op = "rmdir" /\ Found(n, Root, todo[k].a) =>
    \A i \in Entries(n, Lookup(n, Root, todo[k].a)) :
      \E j \in 1..(k - 1) : todo[j].a = ChildPath(todo[k].a, n[i].name)

\* What the calls are about is there, and of the kind they expect.
Unhindered(todo, n) ==
  \A k \in 1..Len(todo) : todo[k].op # "rmAny" =>
    /\ Found(n, Root, todo[k].a)
    /\ IsDir(n, Lookup(n, Root, todo[k].a)) <=> todo[k].op # "unlink"

LEMMA NoMore ==
  ASSUME NEW r, RunOK(r), r.args = <<>>, r.todo # <<>>, r.todo[1].op \notin {"openDst", "pump"}
  PROVE  /\ Done(r).todo = Tail(r.todo) /\ Done(r).args = <<>>
         /\ Fail(r).todo = <<>> /\ Fail(r).args = <<>>
         /\ \A calls \in Seq(CallSet) : TodoOK(calls, r.src) /\ calls # <<>> =>
              Instead(r, calls).todo = calls \o Tail(r.todo) /\ Instead(r, calls).args = <<>>
<1>1. r \in RunSet /\ r.todo \in Seq(CallSet) /\ Tail(r.todo) \in Seq(CallSet)
  BY HeadTailProperties DEF RunOK, RunParts, RunSet
<1>2. Done(r).todo = Tail(r.todo) /\ Done(r).args = <<>>
  <2> DEFINE t == <<>> \o Tail(r.todo)
             u == [r EXCEPT !.todo = <<>> \o Tail(@)]
  <2>1. t = Tail(r.todo)
    BY <1>1, ConcatEmptySeq
  <2>2. u = [r EXCEPT !.todo = t]
    OBVIOUS
  <2> HIDE DEF t
  <2>3. u.todo = t /\ u.args = <<>>
    BY <1>1, <2>2 DEF RunSet
  <2>4. Done(r) = Load(u)
    BY DEF Done, Instead
  <2> HIDE DEF u
  <2> QED BY <2>1, <2>3, <2>4 DEF Load
<1>3. Fail(r).todo = <<>> /\ Fail(r).args = <<>>
  <2> DEFINE u == [r EXCEPT !.todo = <<>>, !.ret = 1, !.src = NoFile, !.dst = NoFile]
  <2>1. u.todo = <<>> /\ u.args = <<>>
    BY <1>1 DEF RunSet
  <2>2. Fail(r) = Load(u)
    BY DEF Fail
  <2> HIDE DEF u
  <2> QED BY <2>1, <2>2 DEF Load
<1>4. ASSUME NEW calls \in Seq(CallSet), TodoOK(calls, r.src), calls # <<>>
      PROVE  Instead(r, calls).todo = calls \o Tail(r.todo) /\ Instead(r, calls).args = <<>>
  <2> DEFINE s == [r EXCEPT !.todo = calls \o Tail(@)]
  <2>1. Instead(r, calls) = s
    BY <1>4, InsteadOK
  <2>2. s.todo = calls \o Tail(r.todo) /\ s.args = r.args
    BY <1>4, Replaced DEF RunOK
  <2> HIDE DEF s
  <2> QED BY <2>1, <2>2
<1> QED BY <1>2, <1>3, <1>4

LEMMA KeepsOn ==
  ASSUME NEW n, NEW m, NEW k, Keeps(n, m), Keeps(m, k)
  PROVE  Keeps(n, k)
BY DEF Keeps, Linked

LEMMA CallsHavePaths ==
  ASSUME NEW todo \in Seq(CallSet)
  PROVE  \A k \in 1..Len(todo) : todo[k] \in CallSet /\ todo[k].a \in Seq(Names)
<1> TAKE k \in 1..Len(todo)
<1>1. todo[k] \in CallSet
  BY ElementOfSeq
<1> QED BY <1>1 DEF CallSet

\* What becomes of the cover when entries go, calls are made, and directories read.
LEMMA CoveredShrinks ==
  ASSUME NEW n, NEW m, NEW g, NEW h, IsTree(n, g), IsTree(m, h), Keeps(m, n),
         NEW todo \in Seq(CallSet), Covered(todo, n)
  PROVE  Covered(todo, m)
<1> SUFFICES ASSUME NEW k \in 1..Len(todo), todo[k].op = "rmdir", Found(m, Root, todo[k].a),
                    NEW i \in Entries(m, Lookup(m, Root, todo[k].a))
             PROVE  \E j \in 1..(k - 1) : todo[j].a = ChildPath(todo[k].a, m[i].name)
  BY DEF Covered
<1>1. todo[k].a \in Seq(Names) /\ Root \in Inodes
  BY CallsHavePaths, FileAssumption
<1>2. Lookup(n, Root, todo[k].a) = Lookup(m, Root, todo[k].a) /\ Found(n, Root, todo[k].a)
  BY <1>1, KeptIsFound
<1>3. i \in Inodes \ {Root} /\ m[i].up = Lookup(m, Root, todo[k].a) /\ m[i].up \in Inodes
  BY DEF Entries, Found
<1>4. Linked(m, i)
  BY <1>3, FileAssumption DEF Linked
<1>5. n[i].up = m[i].up /\ n[i].name = m[i].name
  BY <1>3, <1>4 DEF Keeps
<1>6. i \in Entries(n, Lookup(n, Root, todo[k].a))
  BY <1>2, <1>3, <1>5 DEF Entries
<1> QED BY <1>2, <1>5, <1>6 DEF Covered

LEMMA EntryIsFound ==
  ASSUME NEW n, NEW path \in Seq(Names), Found(n, Root, path), NEW x \in Names,
         IsDir(n, Lookup(n, Root, path)), x \in EntryNames(n, Lookup(n, Root, path))
  PROVE  Found(n, Root, ChildPath(path, x))
<1> DEFINE q == ChildPath(path, x)
           d == Lookup(n, Root, path)
<1>1. q \in Seq(Names) /\ q # <<>> /\ Front(q) = path /\ Last(q) = x
  BY ChildIsPath
<1>2. Root \in Places /\ d \in Inodes /\ d \in Places
  BY FileAssumption DEF Places, Found
<1> HIDE DEF q
<1>3. Lookup(n, Root, q) = Component(n, d, x)
  BY <1>1, <1>2, LookupLast DEF Parent
<1> HIDE DEF d
<1>4. Component(n, d, x) \in Inodes
  BY <1>2, ComponentIsPlace DEF d
<1> QED BY <1>3, <1>4 DEF Found, q

LEMMA CoveredPops ==
  ASSUME NEW n, NEW h, IsTree(n, h), NEW todo \in Seq(CallSet), todo # <<>>, Covered(todo, n),
         ~Found(n, Root, todo[1].a)
  PROVE  Covered(Tail(todo), n)
<1> DEFINE t == Tail(todo)
<1>1. t \in Seq(CallSet) /\ Len(t) = Len(todo) - 1 /\ \A k \in 1..Len(t) : t[k] = todo[k + 1]
  BY HeadTailProperties
<1> HIDE DEF t
<1> SUFFICES ASSUME NEW k \in 1..Len(t), t[k].op = "rmdir", Found(n, Root, t[k].a),
                    NEW i \in Entries(n, Lookup(n, Root, t[k].a))
             PROVE  \E j \in 1..(k - 1) : t[j].a = ChildPath(t[k].a, n[i].name)
  BY DEF Covered, t
<1> DEFINE l == k + 1
<1>2. l \in 1..Len(todo) /\ t[k] = todo[l] /\ l - 1 = k /\ k \in Nat /\ Len(t) \in Nat
  BY <1>1
<1> HIDE DEF l
<1>3. PICK j \in 1..(l - 1) : todo[j].a = ChildPath(todo[l].a, n[i].name)
  BY <1>2 DEF Covered
<1>4. t[k].a \in Seq(Names) /\ Lookup(n, Root, t[k].a) \in Inodes
  BY <1>1, CallsHavePaths DEF Found
<1>5. n[i].name \in Names /\ IsDir(n, Lookup(n, Root, t[k].a)) /\ n[i].name \in EntryNames(n, Lookup(n, Root, t[k].a))
  BY <1>4, FileAssumption DEF IsTree, Entries, EntryNames
<1>6. Found(n, Root, ChildPath(t[k].a, n[i].name))
  BY <1>4, <1>5, EntryIsFound
<1>7. j # 1
  BY <1>2, <1>3, <1>6
<1> DEFINE o == j - 1
<1>8. o \in 1..(k - 1) /\ o + 1 = j /\ o \in 1..Len(t)
  BY <1>2, <1>3, <1>7
<1> HIDE DEF o
<1>9. t[o] = todo[j]
  BY <1>1, <1>8
<1> QED BY <1>2, <1>3, <1>8, <1>9

LEMMA CoveredTurns ==
  ASSUME NEW n, NEW todo \in Seq(CallSet), Covered(todo, n), NEW u \in Seq(CallSet), Len(u) = Len(todo),
         u[1].op # "rmdir", u[1].a = todo[1].a, \A k \in 2..Len(u) : u[k] = todo[k]
  PROVE  Covered(u, n)
<1> SUFFICES ASSUME NEW k \in 1..Len(u), u[k].op = "rmdir", Found(n, Root, u[k].a),
                    NEW i \in Entries(n, Lookup(n, Root, u[k].a))
             PROVE  \E j \in 1..(k - 1) : u[j].a = ChildPath(u[k].a, n[i].name)
  BY DEF Covered
<1>1. k # 1 /\ k \in 2..Len(u) /\ k \in 1..Len(todo)
  OBVIOUS
<1>2. u[k] = todo[k]
  BY <1>1
<1>3. PICK j \in 1..(k - 1) : todo[j].a = ChildPath(todo[k].a, n[i].name)
  BY <1>1, <1>2 DEF Covered
<1>4. u[j].a = todo[j].a
  <2>1. j = 1 \/ j \in 2..Len(u)
    OBVIOUS
  <2> QED BY <2>1
<1> QED BY <1>2, <1>3, <1>4

LEMMA CoveredGrows ==
  ASSUME NEW n, NEW h, IsTree(n, h), NEW todo \in Seq(CallSet), todo # <<>>, Covered(todo, n),
         NEW q \in Seq(Names), EntryNames(n, Lookup(n, Root, todo[1].a)) \subseteq Range(q),
         NEW u \in Seq(CallSet), Len(u) = Len(q) + Len(todo),
         \A k \in 1..Len(q) : u[k].op = "rmAny" /\ u[k].a = ChildPath(todo[1].a, q[k]),
         u[Len(q) + 1].a = todo[1].a, \A k \in 2..Len(todo) : u[Len(q) + k] = todo[k]
  PROVE  Covered(u, n)
<1> DEFINE N == Len(q)
<1>0. N \in Nat /\ Len(todo) \in Nat
  OBVIOUS
<1> HIDE DEF N
<1> SUFFICES ASSUME NEW k \in 1..Len(u), u[k].op = "rmdir", Found(n, Root, u[k].a),
                    NEW i \in Entries(n, Lookup(n, Root, u[k].a))
             PROVE  \E j \in 1..(k - 1) : u[j].a = ChildPath(u[k].a, n[i].name)
  BY DEF Covered
<1>1. k \notin 1..N
  <2>1. \A j \in 1..N : u[j].op = "rmAny"
    BY DEF N
  <2> QED BY <2>1
<1>2. CASE k = N + 1
  <2>1. u[k].a = todo[1].a
    BY <1>2 DEF N
  <2>2. n[i].name \in Range(q)
    <3>1. i \in Entries(n, Lookup(n, Root, todo[1].a))
      BY <2>1
    <3>2. n[i].name \in EntryNames(n, Lookup(n, Root, todo[1].a))
      BY <3>1 DEF EntryNames
    <3> QED BY <3>2
  <2>3. PICK j \in 1..N : q[j] = n[i].name
    <3>1. DOMAIN q = 1..N
      BY DEF N
    <3>2. PICK j \in DOMAIN q : q[j] = n[i].name
      BY <2>2, Zenon DEF Range
    <3> QED BY <3>1, <3>2
  <2>4. u[j].a = ChildPath(todo[1].a, q[j])
    BY <2>3 DEF N
  <2>5. j \in 1..(k - 1)
    BY <1>0, <1>2, <2>3
  <2> QED BY <2>1, <2>3, <2>4, <2>5
<1>3. CASE k # N + 1
  <2> DEFINE l == k - N
  <2>1. l \in 2..Len(todo) /\ l \in 1..Len(todo) /\ k = N + l
    BY <1>0, <1>1, <1>3 DEF N
  <2> HIDE DEF l
  <2>2. u[k] = todo[l]
    BY <2>1 DEF N
  <2>3. PICK j \in 1..(l - 1) : todo[j].a = ChildPath(todo[l].a, n[i].name)
    BY <2>1, <2>2 DEF Covered
  <2>4. u[N + j].a = todo[j].a
    <3>1. j = 1 \/ j \in 2..Len(todo)
      BY <1>0, <2>1, <2>3
    <3> QED BY <3>1 DEF N
  <2> DEFINE o == N + j
  <2>5. o \in 1..(k - 1)
    BY <1>0, <2>1, <2>3
  <2>6. u[o].a = ChildPath(u[k].a, n[i].name)
    BY <2>2, <2>3, <2>4
  <2> HIDE DEF o
  <2> QED BY <2>5, <2>6
<1> QED BY <1>2, <1>3

LEMMA UnhinderedStays ==
  ASSUME NEW n, NEW m, NEW g, NEW h, IsTree(n, g), IsTree(m, h), Keeps(n, m),
         NEW todo \in Seq(CallSet), Unhindered(todo, n)
  PROVE  Unhindered(todo, m)
<1> SUFFICES ASSUME NEW k \in 1..Len(todo), todo[k].op # "rmAny"
             PROVE  /\ Found(m, Root, todo[k].a)
                    /\ IsDir(m, Lookup(m, Root, todo[k].a)) <=> todo[k].op # "unlink"
  BY DEF Unhindered
<1> DEFINE a == todo[k].a
           i == Lookup(n, Root, a)
<1>1. a \in Seq(Names) /\ Root \in Inodes
  BY CallsHavePaths, FileAssumption
<1>2. Found(n, Root, a) /\ (IsDir(n, i) <=> todo[k].op # "unlink")
  BY DEF Unhindered
<1>3. Found(m, Root, a) /\ Lookup(m, Root, a) = i
  BY <1>1, <1>2, KeptIsFound
<1>4. Linked(n, i) /\ i \in Inodes
  <2>1. CASE a = <<>>
    <3>1. Root \in Places
      BY <1>1 DEF Places
    <3>2. Lookup(n, Root, <<>>) = Root
      BY <1>1, <3>1, LookupSteps
    <3> QED BY <1>1, <2>1, <3>2 DEF Linked
  <2>2. CASE a # <<>>
    BY <1>1, <1>2, <2>2, FoundIsEntry
  <2> QED BY <2>1, <2>2
<1>5. m[i].kind = n[i].kind
  BY <1>4 DEF Keeps
<1> QED BY <1>2, <1>3, <1>5 DEF IsDir

LEMMA UnhinderedPops ==
  ASSUME NEW n, NEW todo \in Seq(CallSet), todo # <<>>, Unhindered(todo, n)
  PROVE  Unhindered(Tail(todo), n)
<1> DEFINE t == Tail(todo)
<1>1. t \in Seq(CallSet) /\ Len(t) = Len(todo) - 1 /\ \A k \in 1..Len(t) : t[k] = todo[k + 1]
  BY HeadTailProperties
<1> HIDE DEF t
<1>2. ASSUME NEW k \in 1..Len(t), t[k].op # "rmAny"
      PROVE  Found(n, Root, t[k].a) /\ (IsDir(n, Lookup(n, Root, t[k].a)) <=> t[k].op # "unlink")
  <2> DEFINE l == k + 1
  <2>1. l \in 1..Len(todo) /\ t[k] = todo[l]
    BY <1>1
  <2> HIDE DEF l
  <2> QED BY <1>2, <2>1 DEF Unhindered
<1> QED BY <1>2 DEF Unhindered, t

LEMMA UnhinderedTurns ==
  ASSUME NEW n, NEW todo \in Seq(CallSet), Unhindered(todo, n), NEW u \in Seq(CallSet), Len(u) = Len(todo),
         Found(n, Root, u[1].a), IsDir(n, Lookup(n, Root, u[1].a)) <=> u[1].op # "unlink",
         \A k \in 2..Len(u) : u[k] = todo[k]
  PROVE  Unhindered(u, n)
<1>1. \A k \in 1..Len(u) : k = 1 \/ (k \in 2..Len(u) /\ k \in 1..Len(todo))
  OBVIOUS
<1> QED BY <1>1 DEF Unhindered

LEMMA UnhinderedGrows ==
  ASSUME NEW n, NEW todo \in Seq(CallSet), todo # <<>>, Unhindered(todo, n), NEW N \in Nat,
         NEW u \in Seq(CallSet), Len(u) = N + Len(todo),
         \A k \in 1..N : u[k].op = "rmAny", u[N + 1].op = "rmdir",
         Found(n, Root, u[N + 1].a), IsDir(n, Lookup(n, Root, u[N + 1].a)),
         \A k \in 2..Len(todo) : u[N + k] = todo[k]
  PROVE  Unhindered(u, n)
<1> SUFFICES ASSUME NEW k \in 1..Len(u), u[k].op # "rmAny"
             PROVE  Found(n, Root, u[k].a) /\ (IsDir(n, Lookup(n, Root, u[k].a)) <=> u[k].op # "unlink")
  BY DEF Unhindered
<1>1. k \notin 1..N
  OBVIOUS
<1>2. CASE k = N + 1
  BY <1>2
<1>3. CASE k # N + 1
  <2> DEFINE l == k - N
  <2>1. l \in 2..Len(todo) /\ l \in 1..Len(todo) /\ k = N + l
    <3>1. Len(todo) \in Nat
      OBVIOUS
    <3> QED BY <1>1, <1>3, <3>1
  <2> HIDE DEF l
  <2>2. u[k] = todo[l]
    BY <2>1
  <2> QED BY <2>1, <2>2 DEF Unhindered
<1> QED BY <1>2, <1>3

LEMMA StackFirst ==
  ASSUME NEW todo \in Seq(CallSet), todo # <<>>, NEW a, RmStack(todo, a)
  PROVE  /\ todo[1].op \in Removals
         /\ Tail(todo) = <<>> => todo[1].a = a
         /\ todo[1].a = a \/ \E k \in 2..Len(todo) : todo[k].op = "rmdir" /\ todo[k].a = Front(todo[1].a)
<1>1. 1 \in 1..Len(todo) /\ Len(todo) \in Nat
  BY EmptySeq
<1>2. Tail(todo) = <<>> => Len(todo) = 1
  <2>1. Len(Tail(todo)) = Len(todo) - 1
    BY HeadTailProperties
  <2>2. Len(<<>>) = 0
    OBVIOUS
  <2> QED BY <1>1, <2>1, <2>2
<1>3. CASE Len(todo) = 1
  BY <1>1, <1>3 DEF RmStack
<1>4. CASE Len(todo) # 1
  <2>1. 1 \in 1..(Len(todo) - 1)
    <3> DEFINE L == Len(todo)
    <3>1. L \in Nat /\ 1 \in 1..L /\ L # 1
      BY <1>1, <1>4
    <3> HIDE DEF L
    <3>2. 1 \in 1..(L - 1)
      BY <3>1
    <3> QED BY <3>2 DEF L
  <2>2. PICK k \in (1 + 1)..Len(todo) : todo[k].op = "rmdir" /\ todo[k].a = Front(todo[1].a)
    BY <2>1 DEF RmStack
  <2>3. k \in 2..Len(todo)
    OBVIOUS
  <2>4. todo[1].op \in Removals
    BY <1>1 DEF RmStack
  <2> QED BY <1>2, <1>4, <2>2, <2>3, <2>4
<1> QED BY <1>3, <1>4

\* Unhindered, the call at hand does not fail, but for a file that is not there.
LEMMA Unstopped ==
  ASSUME NEW n, NEW h, IsTree(n, h), NEW a \in Seq(Names), Found(n, Root, a),
         NEW todo \in Seq(CallSet), todo # <<>>, todo[1].a # <<>>, RmStack(todo, a), Covered(todo, n),
         Unhindered(todo, n)
  PROVE  LET i == Lookup(n, Root, todo[1].a) op == todo[1].op IN
         /\ op # "rmAny" => i \in Inodes /\ (IsDir(n, i) <=> op # "unlink")
         /\ op = "rmAny" => i \in Inodes \/ i = "ENOENT"
         /\ op = "rmdir" => Entries(n, i) = {}
<1> DEFINE P == todo[1].a
           i == Lookup(n, Root, P)
<1>1. 1 \in 1..Len(todo) /\ P \in Seq(Names) /\ Root \in Places
  <2>1. 1 \in 1..Len(todo)
    BY EmptySeq
  <2> QED BY <2>1, CallsHavePaths, FileAssumption DEF Places
<1>2. todo[1].op # "rmAny" => i \in Inodes /\ (IsDir(n, i) <=> todo[1].op # "unlink")
  BY <1>1 DEF Unhindered, Found
<1>3. ASSUME todo[1].op = "rmAny" PROVE i \in Inodes \/ i = "ENOENT"
  <2>1. CASE P = a
    BY <2>1 DEF Found
  <2>2. CASE P # a
    <3>1. PICK k \in 2..Len(todo) : todo[k].op = "rmdir" /\ todo[k].a = Front(P)
      BY <2>2, StackFirst
    <3>2. k \in 1..Len(todo)
      OBVIOUS
    <3> DEFINE d == Lookup(n, Root, Front(P))
    <3>3. d \in Inodes /\ IsDir(n, d)
      BY <3>1, <3>2 DEF Unhindered, Found
    <3>4. Lookup(n, Root, P) = Component(n, d, Last(P)) /\ d \in Places
      BY <1>1, LookupLast DEF Parent
    <3> HIDE DEF d
    <3>5. \/ Component(n, d, Last(P)) = "ENOENT"
          \/ Component(n, d, Last(P)) \in Inodes
      BY <3>3, <3>4, ComponentIsPlace
    <3> QED BY <3>4, <3>5
  <2> QED BY <2>1, <2>2
<1>4. ASSUME todo[1].op = "rmdir" PROVE Entries(n, i) = {}
  <2>1. Found(n, Root, P)
    BY <1>2, <1>4 DEF Found
  <2>2. \A e \in Entries(n, i) : \E j \in 1..(1 - 1) : todo[j].a = ChildPath(todo[1].a, n[e].name)
    BY <1>1, <1>4, <2>1 DEF Covered
  <2> QED BY <2>2
<1> QED BY <1>2, <1>3, <1>4

LEMMA ReturnKeeps ==
  ASSUME Orderly, NEW p \in Shells, NEW s, Returns(p, s, node)
  PROVE  Keeps(node, node') /\ Keeps(node', node)
<1> DEFINE h == Held(run', cwd)
<1>1. IsTree(node, Inodes) /\ node' = Tidy(node, h)
  BY AnyHeld DEF Orderly, Returns
<1> HIDE DEF h
<1> QED BY <1>1, TidyTree

LEMMA RemovalKeeps ==
  ASSUME Orderly, NEW p \in Shells, NEW s, NEW a \in Seq(Names), a # <<>>, Found(node, Root, a),
         Entries(node, Lookup(node, Root, a)) = {}, Returns(p, s, Unlink(node, Lookup(node, Root, a)))
  PROVE  Keeps(node', node)
<1> DEFINE h == Held(run', cwd)
           i == Lookup(node, Root, a)
           m == Unlink(node, i)
<1>1. IsTree(node, Inodes) /\ node' = Tidy(m, h) /\ Root \in Inodes
  BY AnyHeld, FileAssumption DEF Orderly, Returns
<1>2. i \in Inodes \ {Root}
  BY <1>1, FoundIsEntry
<1>3. IsTree(m, Inodes) /\ Keeps(m, node)
  BY <1>1, <1>2, UnlinkTree
<1> HIDE DEF h, m
<1>4. Keeps(Tidy(m, h), m)
  BY <1>3, TidyTree
<1> QED BY <1>1, <1>3, <1>4, KeepsOn

TeamRun(r, a, n) ==
  /\ r.args = <<>>
  /\ r.todo # <<>> => RmStack(r.todo, a) /\ Covered(r.todo, n)

\* A shell of the team goes on unhindered, or it was hindered and has changed
\* nothing; or what all are to remove is gone.
TeamActs(p, a) ==
  /\ TeamRun(run'[p], a, node') /\ Keeps(node', node)
  /\ \/ ~Found(node', Root, a)
     \/ run'[p].todo # <<>> /\ Unhindered(run'[p].todo, node')
     \/ Keeps(node, node') /\ ~(Found(node, Root, a) /\ Unhindered(run[p].todo, node))

LEMMA TeamStep ==
  ASSUME Orderly, NEW p \in Shells, NEW a \in Seq(Names), cwd[p] = Root,
         TeamRun(run[p], a, node), Has(run[p].cmd, "f"),
         RmUnlink(p) \/ RmAny(p) \/ RmKids(p) \/ RmDir(p)
  PROVE  TeamActs(p, a)
<1> DEFINE r == run[p]
           d == cwd[p]
           P == A(p)
           i == Lookup(node, d, P)
<1>1. PICK op \in Removals : Next1(p, op)
  BY DEF RmUnlink, RmAny, RmKids, RmDir, Removals
<1>2. /\ RunOK(r) /\ r.todo # <<>> /\ r \in RunSet /\ r.todo[1].op = op /\ P = r.todo[1].a
      /\ P \in Seq(Names) /\ P # <<>> /\ d \in Inodes /\ IsTree(node, Inodes) /\ i \in Places
      /\ r.todo \in Seq(CallSet) /\ r.args = <<>> /\ RmStack(r.todo, a) /\ Covered(r.todo, node)
      /\ d = Root /\ Has(r.cmd, "f")
  <2>1. op \notin {"chdir", "show"}
    BY <1>1 DEF Removals
  <2> QED BY <1>1, <2>1, AtHand DEF A, RunSet, TeamRun
<1>3. (i \in Errors <=> ~Found(node, Root, P)) /\ (i \in Inodes <=> i \notin Errors)
  BY <1>2, NoErrorIsFound DEF Found
<1>4. run = [q \in Shells |-> run[q]]
  BY DEF Orderly
<1>5. \A s, n : Returns(p, s, n) => run'[p] = s
  BY <1>4 DEF Returns
<1>6. r.todo[1].op \notin {"openDst", "pump"}
  BY <1>1, <1>2 DEF Removals
<1>7. IsTree(node', Inodes)
  <2>1. Step(p)
    BY DEF Step
  <2> QED BY <2>1, StepInOrder, AnyHeld DEF Orderly
<1>8. Tail(r.todo) \in Seq(CallSet)
  BY <1>2, HeadTailProperties
<1>9. Found(node, Root, a) /\ Unhindered(r.todo, node) =>
        /\ op # "rmAny" => i \in Inodes /\ (IsDir(node, i) <=> op # "unlink")
        /\ op = "rmAny" => i \in Inodes \/ i = "ENOENT"
        /\ op = "rmdir" => Entries(node, i) = {}
  BY <1>2, Unstopped
<1> DEFINE Smooth == Found(node, Root, a) /\ Unhindered(r.todo, node)
<1> HIDE DEF r, d, i, P, Smooth
<1>10. ASSUME Returns(p, Fail(r), node), ~Smooth PROVE TeamActs(p, a)
  <2>1. run'[p] = Fail(r) /\ Fail(r).todo = <<>> /\ Fail(r).args = <<>>
    BY <1>2, <1>5, <1>6, <1>10, NoMore
  <2>2. Keeps(node, node') /\ Keeps(node', node)
    BY <1>10, ReturnKeeps
  <2> QED BY <1>10, <2>1, <2>2 DEF TeamActs, TeamRun, Smooth, r
<1>11. ASSUME Returns(p, Done(r), node), i \in Errors PROVE TeamActs(p, a)
  <2>1. run'[p] = Done(r) /\ Done(r).todo = Tail(r.todo) /\ Done(r).args = <<>>
    BY <1>2, <1>5, <1>6, <1>11, NoMore
  <2>2. Keeps(node, node') /\ Keeps(node', node)
    BY <1>11, ReturnKeeps
  <2>3. Tail(r.todo) # <<>> => RmStack(Tail(r.todo), a)
    BY <1>2, StackPops
  <2>4. Covered(Tail(r.todo), node')
    <3>1. Covered(Tail(r.todo), node)
      BY <1>2, <1>3, <1>11, CoveredPops
    <3> QED BY <1>2, <1>7, <1>8, <2>2, <3>1, CoveredShrinks
  <2>5. Tail(r.todo) = <<>> => ~Found(node', Root, a)
    <3>1. Tail(r.todo) = <<>> => P = a
      BY <1>2, StackFirst
    <3>2. ~Found(node', Root, P)
      BY <1>2, <1>3, <1>7, <1>11, <2>2, KeptIsFound, FileAssumption
    <3> QED BY <3>1, <3>2
  <2>6. Smooth => Unhindered(Tail(r.todo), node')
    <3>1. Smooth => Unhindered(Tail(r.todo), node)
      BY <1>2, UnhinderedPops DEF Smooth
    <3> QED BY <1>2, <1>7, <1>8, <2>2, <3>1, UnhinderedStays
  <2> QED BY <2>1, <2>2, <2>3, <2>4, <2>5, <2>6 DEF TeamActs, TeamRun, Smooth, r
<1>12. ASSUME Returns(p, Done(r), Unlink(node, i)), i \notin Errors, Entries(node, i) = {}
       PROVE  TeamActs(p, a)
  <2>1. run'[p] = Done(r) /\ Done(r).todo = Tail(r.todo) /\ Done(r).args = <<>>
    BY <1>2, <1>5, <1>6, <1>12, NoMore
  <2>2. Found(node, Root, P) /\ i = Lookup(node, Root, P) /\ Root \in Inodes
    BY <1>2, <1>3, <1>12 DEF i
  <2>3. Keeps(node', node)
    BY <1>2, <1>12, <2>2, RemovalKeeps
  <2>4. /\ ~Found(node', Root, P)
        /\ \A q \in Seq(Names) : Found(node', Root, q) => Found(node, Root, q) /\ Lookup(node', Root, q) = Lookup(node, Root, q)
        /\ \A q \in Seq(Names) : Under(q, P) => Found(node', Root, q)
    <3>1. Returns(p, Done(r), Unlink(node, Lookup(node, Root, P))) /\ Entries(node, Lookup(node, Root, P)) = {}
      BY <1>12, <2>2
    <3>2. P \in Seq(Names) /\ P # <<>>
      BY <1>2
    <3> QED BY <2>2, <3>1, <3>2, GoneAfter, Zenon
  <2>5. Tail(r.todo) # <<>> => RmStack(Tail(r.todo), a)
    BY <1>2, StackPops
  <2>6. Covered(Tail(r.todo), node')
    <3>1. Covered(r.todo, node')
      BY <1>2, <1>7, <2>3, CoveredShrinks
    <3> QED BY <1>2, <1>7, <2>4, <3>1, CoveredPops
  <2>7. Tail(r.todo) = <<>> => ~Found(node', Root, a)
    BY <1>2, <2>4, StackFirst
  <2> DEFINE t == Tail(r.todo)
  <2>8. /\ t \in Seq(CallSet) /\ Len(t) = Len(r.todo) - 1 /\ \A k \in 1..Len(t) : t[k] = r.todo[k + 1]
    BY <1>2, HeadTailProperties
  <2> HIDE DEF t
  <2>9. ASSUME NEW k \in 1..Len(t), t[k].op # "rmAny"
        PROVE  Found(node', Root, t[k].a) /\ (IsDir(node', Lookup(node', Root, t[k].a)) <=> t[k].op # "unlink")
    <3> DEFINE l == k + 1
    <3>1. l \in 1..Len(r.todo) /\ l > 1 /\ t[k] = r.todo[l] /\ 1 \in 1..(l - 1)
      BY <2>8
    <3> HIDE DEF l
    <3>2. t[k].op = "rmdir" /\ Under(t[k].a, P)
      BY <1>2, <2>9, <3>1 DEF RmStack
    <3>3. t[k].a \in Seq(Names)
      BY <2>8, CallsHavePaths
    <3> DEFINE q == t[k].a
               j == Lookup(node, Root, q)
    <3>4. Found(node', Root, q) /\ Found(node, Root, q) /\ Lookup(node', Root, q) = j
      BY <2>4, <3>2, <3>3
    <3>5. Len(q) \in 0..Len(P) /\ Len(q) < Len(P) /\ q = Upto(P, Len(q))
      BY <1>2, <3>2, <3>3 DEF Under
    <3>6. IsDir(node, j)
      BY <1>2, <2>2, <3>5, FoundUpto
    <3>7. j \in Inodes /\ Linked(node', j)
      <4>1. CASE q = <<>>
        <5>1. Root \in Places
          BY <2>2 DEF Places
        <5>2. Lookup(node, Root, <<>>) = Root
          BY <2>2, <5>1, LookupSteps
        <5> QED BY <2>2, <4>1, <5>2 DEF Linked
      <4>2. CASE q # <<>>
        BY <1>7, <2>2, <3>3, <3>4, <4>2, FoundIsEntry DEF Found
      <4> QED BY <4>1, <4>2
    <3>8. node'[j].kind = node[j].kind
      BY <2>3, <3>7 DEF Keeps
    <3> QED BY <3>2, <3>4, <3>6, <3>8 DEF IsDir
  <2>10. Unhindered(t, node')
    BY <2>9 DEF Unhindered
  <2> QED BY <2>1, <2>3, <2>5, <2>6, <2>7, <2>10 DEF TeamActs, TeamRun, t
<1>13. ASSUME NEW c \in CallSet, CallOK(c), c.op \in Removals \ {"rmdir", "rmAny"}, c.a = P, i \in Inodes,
              IsDir(node, i) <=> c.op # "unlink", Returns(p, Instead(r, <<c>>), node)
       PROVE  TeamActs(p, a)
  <2> DEFINE cs == <<c>>
             u == cs \o Tail(r.todo)
             s == Instead(r, cs)
  <2>1. cs \in Seq(CallSet) /\ TodoOK(cs, r.src) /\ cs # <<>>
    BY <1>13, OneCall DEF Removals
  <2>2. /\ RmStack(u, a) /\ u \in Seq(CallSet) /\ u # <<>> /\ u[1] = c /\ Len(u) = Len(r.todo)
        /\ \A k \in 2..Len(u) : u[k] = r.todo[k]
    BY <1>2, <1>13, StackTurns
  <2>3. Returns(p, s, node)
    BY <1>13
  <2> HIDE DEF cs
  <2>4. run'[p] = s /\ s.todo = u /\ s.args = <<>>
    BY <1>2, <1>5, <1>6, <2>1, <2>3, NoMore
  <2> HIDE DEF u, s
  <2>5. Keeps(node, node') /\ Keeps(node', node)
    BY <2>3, ReturnKeeps
  <2>6. Covered(u, node)
    BY <1>2, <1>13, <2>2, CoveredTurns
  <2>7. Covered(u, node')
    BY <1>2, <1>7, <2>2, <2>5, <2>6, CoveredShrinks
  <2>8. Smooth => Unhindered(u, node)
    <3>1. Found(node, Root, u[1].a) /\ (IsDir(node, Lookup(node, Root, u[1].a)) <=> u[1].op # "unlink")
      BY <1>2, <1>3, <1>13, <2>2 DEF i
    <3> QED BY <1>2, <2>2, <3>1, UnhinderedTurns DEF Smooth
  <2>9. Smooth => Unhindered(u, node')
    BY <1>2, <1>7, <2>2, <2>5, <2>8, UnhinderedStays
  <2> QED BY <2>2, <2>4, <2>5, <2>7, <2>9 DEF TeamActs, TeamRun, Smooth, r
<1>14. CASE RmUnlink(p)
  <2>0. op = "unlink"
    BY <1>1, <1>14 DEF RmUnlink, Next1
  <2>1. \/ Returns(p, Fail(r), node) /\ (i \in Errors \/ IsDir(node, i))
        \/ Returns(p, Done(r), node) /\ i \in Errors
        \/ Returns(p, Done(r), Unlink(node, i)) /\ i \notin Errors /\ ~IsDir(node, i)
    BY <1>14 DEF RmUnlink, ForceCovers, r, d, i, P
  <2>2. i \notin Errors /\ ~IsDir(node, i) => Entries(node, i) = {}
    BY <1>2, <1>3, FilesHaveNoEntries
  <2>3. Smooth => ~(i \in Errors \/ IsDir(node, i))
    BY <1>3, <1>9, <2>0 DEF Smooth
  <2> QED BY <1>10, <1>11, <1>12, <2>1, <2>2, <2>3
<1>15. CASE RmAny(p)
  <2>0. op = "rmAny"
    BY <1>1, <1>15 DEF RmAny, Next1
  <2>1. \/ Returns(p, Fail(r), node) /\ i \in Errors /\ i # "ENOENT"
        \/ Returns(p, Done(r), node) /\ i \in Errors
        \/ /\ i \notin Errors
           /\ Returns(p, Instead(r, <<Call(IF IsDir(node, i) THEN "rmKids" ELSE "unlink", P, <<>>)>>), node)
    BY <1>2, <1>15 DEF RmAny, ForceCovers, r, d, i, P
  <2>2. ASSUME NEW o \in {"rmKids", "unlink"}, IsDir(node, i) <=> o # "unlink", i \notin Errors,
               Returns(p, Instead(r, <<Call(o, P, <<>>)>>), node)
        PROVE  TeamActs(p, a)
    <3> DEFINE c == Call(o, P, <<>>)
    <3>1. o \in Ops \ OfTwo /\ o \in Removals \ {"rmdir", "rmAny"}
      BY DEF Ops, OfTwo, Removals
    <3>2. c \in CallSet /\ CallOK(c) /\ c.op = o /\ c.a = P
      BY <1>2, <3>1, CallOfOne
    <3>3. Returns(p, Instead(r, <<c>>), node)
      BY <2>2
    <3> HIDE DEF c
    <3> QED BY <1>3, <1>13, <2>2, <3>1, <3>2, <3>3
  <2>3. Smooth => ~(i \in Errors /\ i # "ENOENT")
    BY <1>3, <1>9, <2>0 DEF Smooth
  <2>4. i \notin Errors /\ Returns(p, Instead(r, <<Call(IF IsDir(node, i) THEN "rmKids" ELSE "unlink", P, <<>>)>>), node)
        => TeamActs(p, a)
    <3>1. CASE IsDir(node, i)
      BY <2>2, <3>1
    <3>2. CASE ~IsDir(node, i)
      BY <2>2, <3>2
    <3> QED BY <3>1, <3>2
  <2> QED BY <1>10, <1>11, <2>1, <2>3, <2>4
<1>16. CASE RmKids(p)
  <2> DEFINE kids(q) == [k \in 1..Len(q) |-> Call("rmAny", ChildPath(P, q[k]), <<>>)]
             calls(q) == kids(q) \o <<Call("rmdir", P, <<>>)>>
  <2>0. op = "rmKids"
    BY <1>1, <1>16 DEF RmKids, Next1
  <2>1. \/ Returns(p, Fail(r), node) /\ (i \in Errors \/ ~IsDir(node, i))
        \/ /\ i \notin Errors /\ IsDir(node, i)
           /\ \E q \in Orders(EntryNames(node, i)) : Returns(p, Instead(r, calls(q)), node)
    BY <1>16 DEF RmKids, r, d, i, P
  <2>2. ASSUME i \notin Errors, IsDir(node, i), NEW q \in Orders(EntryNames(node, i)),
               Returns(p, Instead(r, calls(q)), node)
        PROVE  TeamActs(p, a)
    <3> DEFINE cs == calls(q)
               u == cs \o Tail(r.todo)
               s == Instead(r, cs)
    <3>1. q \in Seq(Names) /\ Range(q) = EntryNames(node, i) /\ i \in Inodes
      BY <1>2, <1>3, <2>2, OrdersOfEntries
    <3>2. cs \in Seq(CallSet) /\ TodoOK(cs, r.src) /\ cs # <<>>
      <4>1. "rmAny" \in Ops \ {"openDst", "pump"} /\ "rmAny" \notin OfTwo /\ "rmdir" \in Ops \ OfTwo
        BY DEF Ops, OfTwo
      <4> DEFINE c == Call("rmdir", P, <<>>)
                 ks == kids(q)
      <4>2. ks \in Seq(CallSet) /\ TodoOK(ks, r.src)
        BY <1>2, <3>1, <4>1, KidsOK
      <4>3. c \in CallSet /\ CallOK(c) /\ c.op = "rmdir"
        BY <1>2, <4>1, CallOfOne
      <4>4. cs = ks \o <<c>>
        OBVIOUS
      <4> HIDE DEF ks, c, cs
      <4> QED BY <4>2, <4>3, <4>4, JoinOK
    <3>3. /\ RmStack(u, a) /\ u \in Seq(CallSet) /\ u # <<>> /\ Len(u) = Len(q) + Len(r.todo)
          /\ \A k \in 1..Len(q) : u[k].op = "rmAny" /\ u[k].a = ChildPath(r.todo[1].a, q[k])
          /\ u[Len(q) + 1].op = "rmdir" /\ u[Len(q) + 1].a = r.todo[1].a
          /\ \A k \in 2..Len(r.todo) : u[Len(q) + k] = r.todo[k]
      <4>1. "rmAny" \in Ops \ {"openDst", "pump"} /\ "rmAny" \notin OfTwo /\ "rmdir" \in Ops \ OfTwo
        BY DEF Ops, OfTwo
      <4> DEFINE c == Call("rmdir", P, <<>>)
                 ks == kids(q)
                 todo == r.todo
      <4>2. ks \in Seq(CallSet) /\ Len(ks) = Len(q)
            /\ \A k \in 1..Len(q) : ks[k].op = "rmAny" /\ ks[k].a = ChildPath(P, q[k])
        <5>1. ks \in Seq(CallSet) /\ Len(ks) = Len(q)
          BY <1>2, <3>1, <4>1, KidsOK
        <5>2. \A k \in 1..Len(q) : ks[k].op = "rmAny" /\ ks[k].a = ChildPath(P, q[k])
          BY DEF Call
        <5> QED BY <5>1, <5>2
      <4>3. c \in CallSet /\ c.op = "rmdir" /\ c.a = P
        BY <1>2, <4>1, CallOfOne
      <4>4. u = (ks \o <<c>>) \o Tail(todo)
        OBVIOUS
      <4>5. todo \in Seq(CallSet) /\ todo # <<>> /\ RmStack(todo, a) /\ P = todo[1].a
        BY <1>2
      <4> HIDE DEF ks, c, cs, u, todo
      <4>6. /\ \A k \in 1..Len(q) : ks[k].op = "rmAny" /\ ks[k].a = ChildPath(todo[1].a, q[k])
            /\ c.a = todo[1].a
        BY <4>2, <4>3, <4>5
      <4>7. Grown(todo, a, q, (ks \o <<c>>) \o Tail(todo))
        BY <3>1, <4>2, <4>3, <4>5, <4>6, StackGrows
      <4>8. Grown(todo, a, q, u)
        BY <4>4, <4>7
      <4> QED BY <4>8 DEF Grown, todo
    <3>4. Returns(p, s, node)
      BY <2>2
    <3> HIDE DEF cs, calls, kids
    <3>5. run'[p] = s /\ s.todo = u /\ s.args = <<>>
      BY <1>2, <1>5, <1>6, <3>2, <3>4, NoMore
    <3> HIDE DEF u, s
    <3>6. Keeps(node, node') /\ Keeps(node', node)
      BY <3>4, ReturnKeeps
    <3>7. Lookup(node, Root, r.todo[1].a) = i /\ Found(node, Root, r.todo[1].a)
      BY <1>2, <3>1 DEF i, Found
    <3>8. Covered(u, node)
      BY <1>2, <3>1, <3>3, <3>7, CoveredGrows
    <3>9. Covered(u, node')
      BY <1>2, <1>7, <3>3, <3>6, <3>8, CoveredShrinks
    <3>10. Smooth => Unhindered(u, node)
      <4>1. Len(q) \in Nat
        BY <3>1
      <4> QED BY <1>2, <2>2, <3>3, <3>7, <4>1, UnhinderedGrows DEF Smooth
    <3>11. Smooth => Unhindered(u, node')
      BY <1>2, <1>7, <3>3, <3>6, <3>10, UnhinderedStays
    <3> QED BY <3>3, <3>5, <3>6, <3>9, <3>11 DEF TeamActs, TeamRun, Smooth, r
  <2> HIDE DEF kids, calls
  <2>3. Smooth => ~(i \in Errors \/ ~IsDir(node, i))
    BY <1>3, <1>9, <2>0 DEF Smooth
  <2> QED BY <1>10, <2>1, <2>2, <2>3
<1>17. CASE RmDir(p)
  <2>0. op = "rmdir"
    BY <1>1, <1>17 DEF RmDir, Next1
  <2>1. \/ Returns(p, Fail(r), node) /\ CannotRmDir(node, i) # {}
        \/ Returns(p, Done(r), Unlink(node, i)) /\ CannotRmDir(node, i) = {}
    BY <1>17 DEF RmDir, r, d, i, P
  <2>2. CannotRmDir(node, i) = {} => i \notin Errors /\ Entries(node, i) = {}
    BY DEF CannotRmDir
  <2>3. Smooth => CannotRmDir(node, i) = {}
    BY <1>3, <1>9, <2>0 DEF Smooth, CannotRmDir
  <2> QED BY <1>10, <1>12, <2>1, <2>2, <2>3
<1> QED BY <1>14, <1>15, <1>16, <1>17

\* Each shell runs one command at most.
OneEach ==
  \A p \in Shells : /\ script[p] = <<>> \/ (run[p].cmd = Idle /\ Len(script[p]) = 1)
                    /\ run[p].cmd = Idle => run[p].todo = <<>>
                    /\ LineOK(run[p].cmd)
CommandOf(p) == IF script[p] = <<>> THEN run[p].cmd ELSE Head(script[p])

OneCommandEach == \A p \in Shells : Len(script[p]) <= 1

LEMMA NotIdle ==
  ASSUME NEW c \in CommandLines
  PROVE  c # Idle
BY DEF CommandLines, CommandNames, Idle

LEMMA OneAtFirst ==
  ASSUME Init, OneCommandEach
  PROVE  OneEach /\ \A p \in Shells : cwd[p] = Root /\ run[p] = AtRest(Idle, 0)
<1>1. Orderly
  BY InOrderAtFirst
<1>2. \A p \in Shells : cwd[p] = Root /\ run[p] = AtRest(Idle, 0)
  BY DEF Init
<1>3. AtRest(Idle, 0).cmd = Idle /\ AtRest(Idle, 0).todo = <<>> /\ LineOK(Idle)
  BY DEF AtRest, LineOK, Idle
<1>4. ASSUME NEW p \in Shells PROVE script[p] = <<>> \/ Len(script[p]) = 1
  <2>1. script[p] \in Seq(CommandLines) /\ Len(script[p]) <= 1
    BY <1>1 DEF Orderly, OneCommandEach
  <2> DEFINE s == script[p]
             L == Len(s)
  <2>2. s \in Seq(CommandLines)
    BY <2>1
  <2>3. L \in Nat /\ L <= 1 /\ (L = 0 => s = <<>>)
    BY <2>1, <2>2, EmptySeq
  <2>4. L = 0 \/ L = 1
    <3> HIDE DEF s, L
    <3> QED BY <2>3
  <2> QED BY <2>3, <2>4
<1> QED BY <1>2, <1>3, <1>4 DEF OneEach

LEMMA CommandStays ==
  ASSUME Orderly, OneEach, NEW p \in Shells, Step(p)
  PROVE  /\ OneEach'
         /\ \A q \in Shells : CommandOf(q)' = CommandOf(q)
         /\ Start(p) => script'[p] = <<>> /\ CommandOf(p) = Head(script[p])
         /\ ~Start(p) => script' = script /\ script[p] = <<>>
<1>1. /\ \A q \in Shells \ {p} : run'[q] = run[q] /\ script'[q] = script[q]
      /\ Start(p) \/ /\ run[p].todo # <<>> /\ run'[p].cmd = run[p].cmd /\ script' = script
      /\ Start(p) => script[p] # <<>> /\ script'[p] = Tail(script[p])
  BY OthersWait
<1>2. \A q \in Shells : CommandOf(q)' = IF script'[q] = <<>> THEN run'[q].cmd ELSE Head(script'[q])
  BY DEF CommandOf
<1>3. \A q \in Shells \ {p} : CommandOf(q)' = CommandOf(q)
  BY <1>1, <1>2 DEF CommandOf
<1>4. CASE Start(p)
  <2> DEFINE c == Head(script[p])
  <2>1. c \in CommandLines /\ run'[p].cmd = c
    BY <1>4, StartInOrder
  <2>2. script[p] # <<>> /\ script[p] \in Seq(CommandLines) /\ Len(script[p]) = 1
    BY <1>1, <1>4 DEF OneEach, Orderly
  <2>3. script'[p] = <<>>
    <3>1. Tail(script[p]) \in Seq(CommandLines) /\ Len(Tail(script[p])) = Len(script[p]) - 1
      BY <2>2, HeadTailProperties
    <3>2. Len(Tail(script[p])) = 0
      BY <2>2, <3>1
    <3> QED BY <1>1, <1>4, <3>1, <3>2, EmptySeq
  <2>4. LineOK(c)
    <3>1. c = script[p][1] /\ 1 \in 1..Len(script[p])
      BY <2>2, HeadTailProperties
    <3>2. \A arg \in Range(c.args) : OperandOK(c, arg)
      BY <3>1 DEF Orderly
    <3>3. c.args \in Seq(Seq(Seq(Names)))
      BY <2>1 DEF CommandLines
    <3> QED BY <3>2, <3>3 DEF LineOK, Range
  <2>5. CommandOf(p)' = CommandOf(p) /\ CommandOf(p) = c
    BY <1>2, <2>1, <2>2, <2>3 DEF CommandOf
  <2> HIDE DEF c
  <2>6. c # Idle
    BY <2>1, NotIdle
  <2>7. OneEach'
    BY <1>1, <2>1, <2>3, <2>4, <2>6 DEF OneEach
  <2> QED BY <1>3, <1>4, <2>3, <2>5, <2>7 DEF c
<1>5. CASE ~Start(p)
  <2>1. run[p].todo # <<>> /\ run'[p].cmd = run[p].cmd /\ script' = script /\ run[p].cmd # Idle /\ script[p] = <<>>
    BY <1>1, <1>5 DEF OneEach
  <2>2. CommandOf(p)' = CommandOf(p)
    BY <1>2, <2>1 DEF CommandOf
  <2>3. OneEach'
    BY <1>1, <2>1 DEF OneEach
  <2> QED BY <1>3, <1>5, <2>1, <2>2, <2>3
<1> QED BY <1>4, <1>5

TeamOf(a) ==
  \A p \in Shells : /\ CommandOf(p).name = "rm" /\ {"r", "f"} \subseteq CommandOf(p).opts
                    /\ CommandOf(p).args = <<<<a>>>>
Team(a) ==
  /\ \A p \in Shells : cwd[p] = Root /\ TeamRun(run[p], a, node)
  /\ Shells # {} /\ Found(node, Root, a) =>
       \E p \in Shells : script[p] # <<>> \/ (run[p].todo # <<>> /\ Unhindered(run[p].todo, node))
TeamInv == \A a \in Seq(Names) \ {<<>>} : TeamOf(a) => Team(a)

LEMMA TeamAtFirst ==
  ASSUME Init, OneCommandEach
  PROVE  TeamInv
<1> SUFFICES ASSUME NEW a \in Seq(Names) \ {<<>>}, TeamOf(a) PROVE Team(a)
  BY DEF TeamInv
<1>1. OneEach /\ \A p \in Shells : cwd[p] = Root /\ run[p] = AtRest(Idle, 0)
  BY OneAtFirst
<1>2. AtRest(Idle, 0).cmd = Idle /\ AtRest(Idle, 0).todo = <<>> /\ AtRest(Idle, 0).args = <<>> /\ Idle.name # "rm"
  BY DEF AtRest, Idle
<1>3. \A p \in Shells : cwd[p] = Root /\ TeamRun(run[p], a, node)
  BY <1>1, <1>2 DEF TeamRun
<1>4. \A p \in Shells : script[p] # <<>>
  BY <1>1, <1>2 DEF TeamOf, CommandOf
<1> QED BY <1>3, <1>4 DEF Team

LEMMA TeamStarts ==
  ASSUME Orderly, NEW p \in Shells, Start(p), NEW a \in Seq(Names) \ {<<>>},
         Head(script[p]).name = "rm", {"r", "f"} \subseteq Head(script[p]).opts, Head(script[p]).args = <<<<a>>>>,
         NEW n
  PROVE  TeamRun(run'[p], a, n) /\ run'[p].todo # <<>> /\ Unhindered(run'[p].todo, n)
<1> DEFINE c == Head(script[p])
           s == run'[p]
           arg == <<a>>
<1>1. c \in CommandLines /\ s = Load([AtRest(c, 0) EXCEPT !.args = c.args])
  BY StartInOrder
<1>2. \A x \in Range(c.args) : OperandOK(c, x)
  <2>1. script[p] # <<>> /\ script[p] \in Seq(CommandLines)
    BY DEF Start, Orderly
  <2>2. c = script[p][1] /\ 1 \in 1..Len(script[p])
    BY <2>1, EmptySeq, HeadTailProperties
  <2> QED BY <2>2 DEF Orderly
<1>3. c.name = "rm" /\ Has(c, "r") /\ c.args = <<arg>>
  BY DEF Has
<1>4. arg[1] = a /\ Len(<<arg>>) = 1 /\ <<arg>>[1] = arg
  OBVIOUS
<1>5. s \in RunSet
  <2>1. Orderly'
    BY StartInOrder
  <2> QED BY <2>1 DEF Orderly
<1> HIDE DEF c, s, arg
<1>6. /\ s.cmd = c
      /\ s.todo = <<>> => Len(c.args) = 0
      /\ s.todo # <<>> => Taken(s) = 1 /\ Now(s) \in Seq(Seq(Names)) /\ OperandOK(c, Now(s))
                          /\ s.todo = Calls(c, Now(s))
  BY <1>1, <1>2, StartsInLine
<1>7. Len(c.args) = 1 /\ c.args[1] = arg
  BY <1>3, <1>4
<1>8. s.todo # <<>> /\ Taken(s) = 1
  BY <1>6, <1>7
<1>9. Now(s) = arg
  BY <1>6, <1>7, <1>8 DEF Now
<1>10. s.args = <<>>
  <2>1. s.args \in Seq(Seq(Seq(Names)))
    BY <1>5 DEF RunSet
  <2>2. Len(s.args) = 0
    BY <1>6, <1>7, <1>8, <2>1 DEF Taken
  <2> QED BY <2>1, <2>2, EmptySeq
<1>11. RmStack(s.todo, a) /\ Len(s.todo) = 1 /\ s.todo[1].op = "rmAny"
  <2>1. RmStack(Calls(c, arg), arg[1]) /\ Len(Calls(c, arg)) = 1
        /\ Calls(c, arg)[1].op = IF Has(c, "r") THEN "rmAny" ELSE "unlink"
    BY <1>1, <1>3, <1>6, <1>8, <1>9, RmLoads
  <2> QED BY <1>3, <1>4, <1>6, <1>8, <1>9, <2>1
<1>12. \A k \in 1..Len(s.todo) : s.todo[k].op = "rmAny"
  BY <1>11
<1>13. Covered(s.todo, n) /\ Unhindered(s.todo, n)
  BY <1>12 DEF Covered, Unhindered
<1>14. TeamRun(s, a, n) /\ s.todo # <<>> /\ Unhindered(s.todo, n)
  BY <1>8, <1>10, <1>11, <1>13 DEF TeamRun
<1> QED BY <1>14 DEF s

LEMMA TeamGoesOn ==
  ASSUME Orderly, OneEach, TeamInv, NEW p \in Shells, Step(p)
  PROVE  TeamInv'
<1> SUFFICES ASSUME NEW a \in Seq(Names) \ {<<>>}, TeamOf(a)' PROVE Team(a)'
  BY DEF TeamInv
<1>1. /\ \A q \in Shells : CommandOf(q)' = CommandOf(q)
      /\ Start(p) => CommandOf(p) = Head(script[p])
      /\ ~Start(p) => script' = script /\ script[p] = <<>>
  BY CommandStays
<1>2. TeamOf(a)
  BY <1>1 DEF TeamOf
<1>3. Team(a)
  BY <1>2 DEF TeamInv
<1>4. /\ \A q \in Shells \ {p} : run'[q] = run[q] /\ script'[q] = script[q]
      /\ Start(p) \/ run[p].todo # <<>>
      /\ ~ChDir(p) => cwd' = cwd
      /\ Start(p) => node' = node
  BY OthersWait
<1>5. run \in [Shells -> RunSet] /\ IsTree(node, Inodes) /\ IsTree(node', Inodes) /\ Root \in Inodes
  BY StepInOrder, AnyHeld, FileAssumption DEF Orderly
<1>6. SUFFICES /\ \A q \in Shells : cwd'[q] = Root /\ TeamRun(run'[q], a, node')
               /\ Found(node', Root, a) =>
                    \E q \in Shells : script'[q] # <<>> \/ (run'[q].todo # <<>> /\ Unhindered(run'[q].todo, node'))
  BY DEF Team
<1>7. CASE Start(p)
  <2>1. TeamRun(run'[p], a, node') /\ run'[p].todo # <<>> /\ Unhindered(run'[p].todo, node')
    BY <1>1, <1>2, <1>7, TeamStarts DEF TeamOf
  <2>2. cwd' = cwd
    BY <1>7 DEF Start
  <2> QED BY <1>3, <1>4, <1>7, <2>1, <2>2 DEF Team
<1>8. CASE ~Start(p)
  <2>1. run[p].todo # <<>> /\ script[p] = <<>> /\ script' = script
    BY <1>1, <1>4, <1>8
  <2>2. Has(run[p].cmd, "f")
    BY <1>2, <2>1 DEF TeamOf, CommandOf, Has
  <2>3. TeamRun(run[p], a, node) /\ cwd[p] = Root
    BY <1>3 DEF Team
  <2>4. run[p].todo[1].op \in Removals
    <3>1. run[p].todo \in Seq(CallSet)
      BY <1>5 DEF RunSet
    <3> QED BY <2>1, <2>3, <3>1, StackFirst DEF TeamRun
  <2>5. RmUnlink(p) \/ RmAny(p) \/ RmKids(p) \/ RmDir(p)
    <3>1. \A op : Makes(p, op) => op \in Removals
      BY <2>4, AtHand DEF Makes
    <3> QED BY <1>8, <3>1, StepMakes DEF OtherOps, Removals
  <2>6. cwd' = cwd
    <3>1. ~Next1(p, "chdir")
      BY <2>4, AtHand DEF Removals
    <3> QED BY <1>4, <3>1 DEF ChDir
  <2>7. TeamActs(p, a)
    BY <2>2, <2>3, <2>5, TeamStep
  <2>8. Keeps(node', node) /\ TeamRun(run'[p], a, node')
    BY <2>7 DEF TeamActs
  <2>9. ASSUME NEW q \in Shells \ {p} PROVE TeamRun(run'[q], a, node')
    <3>1. TeamRun(run[q], a, node) /\ run'[q] = run[q]
      BY <1>3, <1>4 DEF Team
    <3>2. run[q].todo \in Seq(CallSet)
      BY <1>5 DEF RunSet
    <3> QED BY <1>5, <2>8, <3>1, <3>2, CoveredShrinks DEF TeamRun
  <2>10. \A q \in Shells : cwd'[q] = Root
    BY <1>3, <2>6 DEF Team
  <2>11. ASSUME Found(node', Root, a)
         PROVE  \E q \in Shells : script'[q] # <<>> \/ (run'[q].todo # <<>> /\ Unhindered(run'[q].todo, node'))
    <3>1. CASE run'[p].todo # <<>> /\ Unhindered(run'[p].todo, node')
      BY <3>1
    <3>2. CASE Keeps(node, node') /\ ~(Found(node, Root, a) /\ Unhindered(run[p].todo, node))
      <4>1. Found(node, Root, a)
        BY <1>5, <2>8, <2>11, KeptIsFound
      <4>2. PICK q \in Shells : script[q] # <<>> \/ (run[q].todo # <<>> /\ Unhindered(run[q].todo, node))
        BY <1>3, <4>1 DEF Team
      <4>3. q # p
        BY <2>1, <3>2, <4>1, <4>2
      <4>4. script'[q] = script[q] /\ run'[q] = run[q] /\ run[q].todo \in Seq(CallSet)
        BY <1>4, <1>5, <4>3 DEF RunSet
      <4>5. Unhindered(run[q].todo, node) => Unhindered(run[q].todo, node')
        BY <1>5, <3>2, <4>4, UnhinderedStays
      <4> QED BY <4>2, <4>4, <4>5
    <3> QED BY <2>7, <2>11, <3>1, <3>2 DEF TeamActs
  <2> QED BY <2>8, <2>9, <2>10, <2>11
<1> QED BY <1>7, <1>8

LEMMA TeamIsDone ==
  ASSUME Orderly, OneEach, TeamInv
  PROVE  RemovedBetweenThem
<1> SUFFICES ASSUME AllOver, \A p \in Shells : Is(p, "rm", {"r", "f"}) /\ Len(run[p].cmd.args) = 1,
                    NEW p \in Shells, NEW arg \in Operands(p), \A q \in Shells : arg \in Operands(q)
             PROVE  ~Found(node, cwd[p], arg[1])
  BY DEF RemovedBetweenThem
<1> DEFINE a == arg[1]
<1>1. ASSUME NEW q \in Shells
      PROVE  /\ run[q].cmd.args = <<arg>> /\ arg \in Seq(Seq(Names)) /\ Len(arg) = 1 /\ <<>> \notin Range(arg)
             /\ run[q].todo = <<>> /\ script[q] = <<>> /\ run[q].cmd.name = "rm"
             /\ {"r", "f"} \subseteq run[q].cmd.opts
  <2> DEFINE c == run[q].cmd
             s == c.args
  <2>1. c \in CommandLines \cup {Idle} /\ c.name = "rm" /\ {"r", "f"} \subseteq c.opts /\ Len(s) = 1 /\ LineOK(c)
    BY DEF Orderly, RunSet, Is, OneEach
  <2>2. c \in CommandLines
    BY <2>1 DEF Idle
  <2>3. run[q].todo = <<>> /\ script[q] = <<>>
    BY DEF AllOver, Busy
  <2>4. arg \in Range(s)
    BY DEF Operands
  <2> HIDE DEF c
  <2>5. s \in Seq(Seq(Seq(Names)))
    BY <2>2 DEF CommandLines
  <2> HIDE DEF s
  <2>6. 1 \in 1..Len(s) /\ arg = s[1] /\ s = <<arg>>
    BY <2>1, <2>4, <2>5 DEF Range
  <2>7. arg \in Seq(Seq(Names))
    BY <2>5, <2>6, ElementOfSeq
  <2>8. OperandOK(c, arg)
    BY <2>1, <2>6 DEF LineOK, s
  <2> QED BY <2>1, <2>3, <2>6, <2>7, <2>8 DEF OperandOK, c, s
<1>2. arg \in Seq(Seq(Names)) /\ Len(arg) = 1 /\ <<>> \notin Range(arg)
  BY <1>1
<1>3. a \in Seq(Names) \ {<<>>} /\ arg = <<a>>
  <2>1. 1 \in DOMAIN arg /\ arg[1] \in Range(arg)
    BY <1>2 DEF Range
  <2> QED BY <1>2, <2>1
<1>4. TeamOf(a)
  BY <1>1, <1>3 DEF TeamOf, CommandOf
<1>5. Team(a)
  BY <1>3, <1>4 DEF TeamInv
<1>6. cwd[p] = Root /\ ~Found(node, Root, a)
  BY <1>1, <1>5 DEF Team
<1> QED BY <1>6

\* Whatever order the calls of several rm -rf of one tree come in, it is removed.
THEOREM TogetherTheyRemove == Spec /\ OneCommandEach => []RemovedBetweenThem
<1>1. Init /\ OneCommandEach => OneEach /\ TeamInv
  BY OneAtFirst, TeamAtFirst
<1>2. ASSUME Orderly, OneEach /\ TeamInv, [Next]_vars PROVE (OneEach /\ TeamInv)'
  <2>1. CASE Next
    BY <1>2, <2>1, CommandStays, TeamGoesOn DEF Next
  <2>2. CASE UNCHANGED vars
    BY <1>2, <2>2 DEF vars, OneEach, TeamInv, TeamOf, CommandOf, Team
  <2> QED BY <1>2, <2>1, <2>2
<1>3. Orderly /\ OneEach /\ TeamInv => RemovedBetweenThem
  BY TeamIsDone
<1> QED BY <1>1, <1>2, <1>3, StaysInOrder, PTL DEF Spec

-----------------------------------------------------------------------------
(* Two paths from a directory.                                             *)

LEMMA JoinedPath ==
  ASSUME NEW a \in Seq(Names), NEW q \in Seq(Names)
  PROVE  /\ a \o q \in Seq(Names) /\ Len(a \o q) = Len(a) + Len(q)
         /\ Upto(a \o q, Len(a)) = a /\ a \o <<>> = a
         /\ a # <<>> => a \o q # <<>>
         /\ \A k \in 1..Len(a) : (a \o q)[k] = a[k]
         /\ \A k \in 1..Len(q) : (a \o q)[Len(a) + k] = q[k]
<1> DEFINE s == a \o q
<1>1. /\ s \in Seq(Names) /\ Len(s) = Len(a) + Len(q)
      /\ \A i \in 1 .. Len(a) + Len(q) : s[i] = IF i <= Len(a) THEN a[i] ELSE q[i - Len(a)]
  BY ConcatProperties
<1>2. Len(a) \in Nat /\ Len(q) \in Nat
  OBVIOUS
<1> HIDE DEF s
<1>3. \A k \in 1..Len(a) : s[k] = a[k]
  BY <1>1, <1>2
<1>4. \A k \in 1..Len(q) : s[Len(a) + k] = q[k]
  BY <1>1, <1>2
<1>5. Len(a) \in 0..Len(s)
  BY <1>1, <1>2
<1>6. /\ Upto(s, Len(a)) \in Seq(Names) /\ Len(Upto(s, Len(a))) = Len(a)
      /\ \A j \in 1..Len(a) : Upto(s, Len(a))[j] = s[j]
  BY <1>1, <1>5, Prefix
<1>7. Upto(s, Len(a)) = a
  BY <1>3, <1>6, SeqEqual
<1>8. a # <<>> => s # <<>>
  BY <1>1, <1>2, EmptySeq
<1>9. a \o <<>> = a
  BY ConcatEmptySeq
<1> QED BY <1>1, <1>3, <1>4, <1>7, <1>8, <1>9 DEF s

\* What an entry of a directory below the source is called.
LEMMA JoinedChild ==
  ASSUME NEW a \in Seq(Names), NEW q \in Seq(Names), NEW x \in Names
  PROVE  /\ Append(q, x) \in Seq(Names)
         /\ ChildPath(a \o q, x) = a \o Append(q, x)
         /\ Upto(a \o Append(q, x), Len(a \o q)) = a \o q
<1>1. <<x>> \in Seq(Names) /\ a \o q \in Seq(Names) /\ Append(q, x) \in Seq(Names)
  BY JoinedPath
<1>2. Append(q, x) = q \o <<x>> /\ Append(a \o q, x) = (a \o q) \o <<x>>
  BY <1>1, AppendIsConcat
<1>3. (a \o q) \o <<x>> = a \o (q \o <<x>>)
  BY <1>1, ConcatAssociative
<1>4. Upto((a \o q) \o <<x>>, Len(a \o q)) = a \o q
  BY <1>1, JoinedPath
<1> QED BY <1>1, <1>2, <1>3, <1>4 DEF ChildPath

\* A path that goes on has a next component.
LEMMA GoesOn ==
  ASSUME NEW u \in Seq(Names), NEW v \in Seq(Names), v # <<>>
  PROVE  LET x == Head(v) IN
         x \in Names /\ Tail(v) \in Seq(Names) /\ u \o v = Append(u, x) \o Tail(v)
<1> DEFINE x == Head(v)
           t == Tail(v)
<1>1. x \in Names /\ t \in Seq(Names) /\ Len(t) = Len(v) - 1 /\ \A k \in 1..Len(t) : t[k] = v[k + 1]
  BY HeadTailProperties
<1>2. Len(v) \in Nat /\ Len(v) > 0 /\ x = v[1]
  BY EmptySeq
<1> HIDE DEF t, x
<1> DEFINE w == <<x>> \o t
<1>3. <<x>> \in Seq(Names) /\ Len(<<x>>) = 1 /\ <<x>>[1] = x
  BY <1>1
<1>4. w \in Seq(Names) /\ Len(w) = 1 + Len(t)
      /\ \A k \in 1..1 + Len(t) : w[k] = IF k <= 1 THEN <<x>>[k] ELSE t[k - 1]
  BY <1>1, <1>3, ConcatProperties
<1> HIDE DEF w
<1>5. Len(t) \in Nat
  BY <1>1, LenProperties
<1>6. ASSUME NEW k \in 1..Len(w) PROVE w[k] = v[k]
  <2>1. CASE k = 1
    BY <2>1, <1>2, <1>3, <1>4, <1>5
  <2>2. CASE k # 1
    <3>1. k - 1 \in 1..Len(t) /\ w[k] = t[k - 1] /\ (k - 1) + 1 = k
      BY <2>2, <1>4, <1>5
    <3> QED BY <3>1, <1>1
  <2> QED BY <2>1, <2>2
<1>7. w = v
  BY <1>1, <1>2, <1>4, <1>5, <1>6, SeqEqual
<1>8. (u \o <<x>>) \o t = u \o (<<x>> \o t)
  BY <1>1, <1>3, ConcatAssociative
<1>9. Append(u, x) = u \o <<x>>
  BY <1>1, AppendIsConcat
<1> QED BY <1>1, <1>7, <1>8, <1>9 DEF w, t, x

\* Two paths of which one is met on the way along the other have a common start.
LEMMA CommonStart ==
  ASSUME NEW a \in Seq(Names), NEW q \in Seq(Names), NEW b \in Seq(Names), NEW u \in Seq(Names),
         NEW k \in 0..Len(a \o q), Upto(a \o q, k) = b \o u
  PROVE  IsPrefix(a, b) \/ IsPrefix(b, a)
<1> DEFINE s == a \o q
           t == b \o u
<1>1. s \in Seq(Names) /\ Len(s) = Len(a) + Len(q) /\ Upto(s, Len(a)) = a
  BY JoinedPath
<1>2. t \in Seq(Names) /\ Len(t) = Len(b) + Len(u) /\ Upto(t, Len(b)) = b
  BY JoinedPath
<1>3. /\ Len(a) \in Nat /\ Len(q) \in Nat /\ Len(b) \in Nat /\ Len(u) \in Nat
      /\ k \in 0..Len(s) /\ Upto(s, k) = t
  OBVIOUS
<1> HIDE DEF s, t
<1>4. Len(t) = k /\ \A j \in 0..k : Upto(t, j) = Upto(s, j)
  BY <1>1, <1>3, Prefix
<1>5. Len(b) \in 0..k /\ Len(a) \in 0..Len(s) /\ Len(b) \in 0..Len(s)
  BY <1>1, <1>2, <1>3, <1>4
<1>6. Upto(s, Len(b)) = b
  BY <1>2, <1>4, <1>5
<1>7. CASE Len(a) <= Len(b)
  <2>1. Len(a) \in 0..Len(b)
    BY <1>3, <1>7
  <2>2. Upto(Upto(s, Len(b)), Len(a)) = Upto(s, Len(a))
    BY <2>1, <1>1, <1>5, Prefix
  <2>3. Upto(b, Len(a)) = a
    BY <2>2, <1>1, <1>6
  <2>4. Upto(a, Len(a)) = a
    BY SubSeqFull DEF Upto
  <2> QED BY <1>7, <2>3, <2>4 DEF IsPrefix, Upto
<1>8. CASE ~(Len(a) <= Len(b))
  <2>1. Len(b) \in 0..Len(a) /\ Len(b) <= Len(a)
    BY <1>3, <1>8
  <2>2. Upto(Upto(s, Len(a)), Len(b)) = Upto(s, Len(b))
    BY <2>1, <1>1, <1>5, Prefix
  <2>3. Upto(a, Len(b)) = b
    BY <2>2, <1>1, <1>6
  <2>4. Upto(b, Len(b)) = b
    BY SubSeqFull DEF Upto
  <2> QED BY <2>1, <2>3, <2>4 DEF IsPrefix, Upto
<1> QED BY <1>7, <1>8

\* There is one path to what can be found.
LEMMA OnePath ==
  ASSUME NEW n, NEW h, IsTree(n, h), NEW d \in Inodes, NEW s \in Seq(Names), NEW t \in Seq(Names),
         Found(n, d, s), Found(n, d, t), Lookup(n, d, s) = Lookup(n, d, t)
  PROVE  s = t
<1> DEFINE Twin(x, y) == Found(n, d, x) /\ Found(n, d, y) /\ Lookup(n, d, x) = Lookup(n, d, y) /\ x # y
           Bad == {k \in Nat : \E x \in Seq(Names) : \E y \in Seq(Names) : Len(x) = k /\ Twin(x, y)}
<1> SUFFICES ASSUME s # t PROVE FALSE
  OBVIOUS
<1>1. Len(s) \in Bad
  <2>1. Len(s) \in Nat /\ Twin(s, t)
    OBVIOUS
  <2> HIDE DEF Twin
  <2> QED BY <2>1
<1>2. PICK m \in Bad : \A k \in Bad : m <= k
  <2>1. Bad \subseteq Nat /\ Bad # {}
    BY <1>1
  <2> HIDE DEF Bad
  <2> QED BY <2>1, LeastExists
<1>3. PICK x \in Seq(Names) : \E y \in Seq(Names) : Len(x) = m /\ Twin(x, y)
  BY <1>2
<1>4. PICK y \in Seq(Names) : Len(x) = m /\ Twin(x, y)
  BY <1>3
<1>5. \A z \in Seq(Names) : z # <<>> /\ Found(n, d, z) => Lookup(n, d, z) # d
  <2> SUFFICES ASSUME NEW z \in Seq(Names), z # <<>>, Found(n, d, z), Lookup(n, d, z) = d PROVE FALSE
    OBVIOUS
  <2>1. Len(z) \in Nat /\ 0 \in 0..Len(z) /\ Len(z) \in 0..Len(z) /\ 0 < Len(z)
    BY EmptySeq
  <2>2. Lookup(n, d, Upto(z, 0)) # Lookup(n, d, Upto(z, Len(z)))
    BY <2>1, NothingTwice
  <2>3. d \in Places
    BY DEF Places
  <2> QED BY <2>2, <2>3, LookupSteps
<1>6. Lookup(n, d, <<>>) = d
  <2>1. d \in Places
    BY DEF Places
  <2> QED BY <2>1, LookupSteps
<1>7. x # <<>> /\ y # <<>>
  BY <1>4, <1>5, <1>6
<1>8. /\ Found(n, d, Front(x)) /\ Lookup(n, d, Front(x)) = n[Lookup(n, d, x)].up
      /\ n[Lookup(n, d, x)].name = Last(x)
  BY <1>4, <1>7, FoundIsEntry DEF Parent
<1>9. /\ Found(n, d, Front(y)) /\ Lookup(n, d, Front(y)) = n[Lookup(n, d, y)].up
      /\ n[Lookup(n, d, y)].name = Last(y)
  BY <1>4, <1>7, FoundIsEntry DEF Parent
<1>10. /\ Front(x) \in Seq(Names) /\ Len(Front(x)) = m - 1
       /\ Front(y) \in Seq(Names) /\ Len(Front(y)) = Len(y) - 1
  <2>1. d \in Places
    BY DEF Places
  <2> QED BY <2>1, <1>4, <1>7, LookupLast
<1>11. Front(x) = Front(y)
  <2> SUFFICES ASSUME Front(x) # Front(y) PROVE FALSE
    OBVIOUS
  <2>1. Twin(Front(x), Front(y))
    BY <1>4, <1>8, <1>9
  <2>2. m \in Nat /\ m - 1 \in Nat
    BY <1>4, <1>10, LenProperties
  <2> HIDE DEF Twin
  <2>3. m - 1 \in Bad
    BY <2>1, <2>2, <1>10
  <2> HIDE DEF Bad
  <2> QED BY <1>2, <2>2, <2>3
<1>12. x = y
  <2>1. Len(x) \in Nat /\ Len(y) \in Nat /\ Len(x) = Len(y) /\ Len(x) > 0
    BY <1>7, <1>10, <1>11, <1>4, EmptySeq
  <2>2. x[Len(x)] = y[Len(y)]
    BY <1>4, <1>8, <1>9 DEF Last
  <2>3. \A k \in 1..Len(x) - 1 : x[k] = y[k]
    <3>1. Front(x) = SubSeq(x, 1, Len(x) - 1) /\ Front(y) = SubSeq(y, 1, Len(y) - 1)
      BY DEF Front
    <3>2. \A k \in 1..Len(x) - 1 : SubSeq(x, 1, Len(x) - 1)[k] = x[k]
      BY <2>1
    <3>3. \A k \in 1..Len(x) - 1 : SubSeq(y, 1, Len(y) - 1)[k] = y[k]
      BY <2>1
    <3> QED BY <3>1, <3>2, <3>3, <1>11
  <2>4. \A k \in 1..Len(x) : x[k] = y[k]
    BY <2>1, <2>2, <2>3
  <2> QED BY <2>1, <2>4, SeqEqual
<1> QED BY <1>4, <1>12

-----------------------------------------------------------------------------
(* cp alone copies the whole of its source.                                *)

IsFile(n, d, path) == Found(n, d, path) /\ n[Lookup(n, d, path)].kind = "file"

\* What a copy may do at a path: entries stay, and so do contents elsewhere; what
\* is new is there, or below.
WritesAt(n, m, d, t) ==
  /\ Keeps(n, m)
  /\ \A path \in Seq(Names) :
       Found(m, d, path) => Found(n, d, path) \/ \E k \in 0..Len(path) : Upto(path, k) = t
  /\ \A path \in Seq(Names) :
       Found(n, d, path) /\ path \notin {<<>>, t} => m[Lookup(n, d, path)].data = n[Lookup(n, d, path)].data

LEMMA CreatesAt ==
  ASSUME NEW n, IsTree(n, Inodes), NEW d \in Inodes, NEW t \in Seq(Names), t # <<>>,
         CannotCreate(n, d, t) = {}, NEW kind \in {"dir", "file"}
  PROVE  LET m == Create(n, d, t, kind) IN
         /\ IsTree(m, Inodes) /\ WritesAt(n, m, d, t)
         /\ Found(m, d, t) /\ m[Lookup(m, d, t)].kind = kind
<1> DEFINE m == Create(n, d, t, kind)
           f == Lookup(m, d, t)
<1>1. /\ IsTree(m, Inodes) /\ Keeps(n, m) /\ f \in Free(n) /\ Found(m, d, t)
      /\ m[f].kind = kind /\ \A j \in Inodes : j # f => m[j] = n[j]
  BY CreateTree
<1>2. f \in Inodes \ {Root} /\ ~Linked(n, f)
  BY <1>1, UnusedIsNode DEF Free, Linked
<1> HIDE DEF m
<1>3. ASSUME NEW path \in Seq(Names), Found(m, d, path)
      PROVE  Found(n, d, path) \/ \E k \in 0..Len(path) : Upto(path, k) = t
  <2> SUFFICES ASSUME \A k \in 0..Len(path) : Upto(path, k) # t PROVE Found(n, d, path)
    OBVIOUS
  <2>1. ASSUME NEW k \in 1..Len(path)
        PROVE  LET i == Lookup(m, d, Upto(path, k)) up == Lookup(m, d, Upto(path, k - 1)) IN
               n[i].up = m[i].up /\ n[i].name = m[i].name /\ n[up].kind = m[up].kind
    <3> DEFINE i == Lookup(m, d, Upto(path, k))
               up == Lookup(m, d, Upto(path, k - 1))
    <3>1. k \in 0..Len(path) /\ k - 1 \in 0..Len(path)
      OBVIOUS
    <3>2. /\ Found(m, d, Upto(path, k)) /\ Upto(path, k) \in Seq(Names)
          /\ Found(m, d, Upto(path, k - 1)) /\ Upto(path, k - 1) \in Seq(Names)
      BY <1>1, <1>3, <3>1, FoundUpto, Prefix
    <3>3. i # f /\ up # f
      BY <1>1, <3>1, <3>2, OnePath
    <3>4. i \in Inodes /\ up \in Inodes
      BY <3>2 DEF Found
    <3> QED BY <1>1, <3>3, <3>4
  <2>2. Lookup(n, d, path) = Lookup(m, d, path)
    BY <1>1, <1>3, <2>1, LookupKept
  <2> QED BY <1>3, <2>2 DEF Found
<1>4. ASSUME NEW path \in Seq(Names), Found(n, d, path), path # t
      PROVE  m[Lookup(n, d, path)].data = n[Lookup(n, d, path)].data
  <2>1. Lookup(m, d, path) = Lookup(n, d, path) /\ Found(m, d, path)
    BY <1>1, <1>4, KeptIsFound
  <2>2. Lookup(m, d, path) # f
    BY <1>1, <1>4, <2>1, OnePath
  <2> QED BY <1>1, <1>4, <2>1, <2>2 DEF Found
<1>5. WritesAt(n, m, d, t)
  BY <1>1, <1>3, <1>4 DEF WritesAt
<1> QED BY <1>1, <1>5 DEF m

LEMMA FillsAt ==
  ASSUME NEW n, IsTree(n, Inodes), NEW d \in Inodes, NEW t \in Seq(Names), Found(n, d, t),
         NEW x \in Data
  PROVE  LET m == [n EXCEPT ![Lookup(n, d, t)].data = x] IN
         /\ IsTree(m, Inodes) /\ WritesAt(n, m, d, t)
         /\ Found(m, d, t) /\ Lookup(m, d, t) = Lookup(n, d, t)
         /\ m[Lookup(n, d, t)].data = x
<1> DEFINE i == Lookup(n, d, t)
           m == [n EXCEPT ![Lookup(n, d, t)].data = x]
<1>1. n \in [Inodes -> Nodes] /\ i \in Inodes
  BY DEF IsTree, Found
<1>2. IsTree(m, Inodes)
  BY DataTree
<1>3. /\ \A j \in Inodes : m[j].up = n[j].up /\ m[j].name = n[j].name /\ m[j].kind = n[j].kind
      /\ \A j \in Inodes : j # i => m[j] = n[j]
      /\ m[i].data = x
  BY <1>1 DEF Nodes
<1> HIDE DEF m
<1>4. Keeps(n, m) /\ Keeps(m, n)
  BY <1>3 DEF Keeps
<1>5. \A path \in Seq(Names) : Found(m, d, path) => Found(n, d, path)
  BY <1>2, <1>4, KeptIsFound
<1>6. ASSUME NEW path \in Seq(Names), Found(n, d, path), path # t
      PROVE  m[Lookup(n, d, path)].data = n[Lookup(n, d, path)].data
  <2>1. Lookup(n, d, path) # i
    BY <1>6, OnePath
  <2> QED BY <1>3, <1>6, <2>1 DEF Found
<1>7. WritesAt(n, m, d, t)
  BY <1>4, <1>5, <1>6 DEF WritesAt
<1>8. Lookup(m, d, t) = i /\ Found(m, d, t)
  BY <1>2, <1>4, KeptIsFound
<1> QED BY <1>2, <1>3, <1>7, <1>8 DEF m

Filled(n, i, x) == [n EXCEPT ![i].data = x]
LEMMA FillsThere ==
  ASSUME NEW n, IsTree(n, Inodes), NEW d \in Inodes, NEW t \in Seq(Names), Found(n, d, t),
         NEW x \in Data, NEW i, i = Lookup(n, d, t)
  PROVE  LET m == Filled(n, i, x) IN
         /\ IsTree(m, Inodes) /\ WritesAt(n, m, d, t)
         /\ Found(m, d, t) /\ Lookup(m, d, t) = i /\ m[i].data = x
<1> DEFINE o == [n EXCEPT ![Lookup(n, d, t)].data = x]
<1>1. Filled(n, i, x) = o
  BY DEF Filled
<1>2. /\ IsTree(o, Inodes) /\ WritesAt(n, o, d, t)
      /\ Found(o, d, t) /\ Lookup(o, d, t) = Lookup(n, d, t)
      /\ o[Lookup(n, d, t)].data = x
  BY FillsAt
<1> HIDE DEF o
<1> QED BY <1>1, <1>2

LEMMA WritesNothing ==
  ASSUME NEW n, NEW d, NEW t
  PROVE  WritesAt(n, n, d, t)
BY DEF WritesAt, Keeps

\* The return of a call tidies up, which takes away nothing that can be found.
LEMMA TidiesAt ==
  ASSUME NEW n, NEW m, IsTree(n, Inodes), IsTree(m, Inodes), NEW d \in Inodes, NEW t,
         WritesAt(n, m, d, t), NEW held
  PROVE  WritesAt(n, Tidy(m, held), d, t)
<1> DEFINE k == Tidy(m, held)
<1>1. /\ IsTree(k, held) /\ Keeps(m, k) /\ Keeps(k, m)
      /\ \A i \in Inodes : Linked(m, i) => k[i] = m[i]
  BY TidyTree
<1>2. \A path \in Seq(Names) : Found(k, d, path) <=> Found(m, d, path)
  BY TidyFinds
<1>3. \A i \in Inodes : Linked(n, i) => Linked(m, i)
  BY DEF WritesAt, Keeps, Linked
<1> HIDE DEF k
<1>4. Keeps(n, k)
  BY <1>1, KeepsOn DEF WritesAt
<1>5. ASSUME NEW path \in Seq(Names), Found(n, d, path), path \notin {<<>>, t}
      PROVE  k[Lookup(n, d, path)].data = n[Lookup(n, d, path)].data
  <2> DEFINE i == Lookup(n, d, path)
  <2>1. m[i].data = n[i].data /\ i \in Inodes
    BY <1>5 DEF WritesAt, Found
  <2>2. Linked(n, i)
    BY <1>5, FoundIsEntry
  <2> QED BY <1>1, <1>3, <2>1, <2>2
<1>6. WritesAt(n, k, d, t)
  BY <1>2, <1>4, <1>5 DEF WritesAt
<1> QED BY <1>6 DEF k

CopyOps == {"copyAny", "copyDir", "copyKids", "openSrc", "openDst", "pump"}
FileOps == {"openSrc", "openDst", "pump"}

\* A call about what the path q leads to, from the source and from the destination.
About(c, a, b, q) == c.a = a \o q /\ c.b = b \o q

\* A call that will see to the file at q: a copy of it, or of a directory above it.
SeesTo(c, a, b, q) ==
  IF c.op \in FileOps THEN About(c, a, b, q)
  ELSE \E u \in Seq(Names) : \E v \in Seq(Names) : q = u \o v /\ About(c, a, b, u)

\* What is at or below a path, entries and contents, is as it was.
KeptBelow(n0, n, d, a) ==
  \A q \in Seq(Names) :
    /\ Found(n, d, a \o q) => Found(n0, d, a \o q)
    /\ Found(n0, d, a \o q) => n[Lookup(n0, d, a \o q)].data = n0[Lookup(n0, d, a \o q)].data

Copied(n0, n, d, a, b, q) ==
  IsFile(n, d, b \o q) /\ n[Lookup(n, d, b \o q)].data = n0[Lookup(n0, d, a \o q)].data

\* Every file of the source has been copied, or a call to come will see to it, or it
\* is among those that were cut short.
Covers(todo, cut, n0, n, d, a, b) ==
  \A q \in Seq(Names) : IsFile(n0, d, a \o q) /\ b \o q \notin cut =>
    Copied(n0, n, d, a, b, q) \/ \E c \in Range(todo) : SeesTo(c, a, b, q)

Opened(r, n, d) ==
  /\ Copying(r.todo) => r.src = Lookup(n, d, r.todo[1].a)
  /\ r.todo # <<>> /\ r.todo[1].op = "pump" =>
       r.dst = Lookup(n, d, r.todo[1].b) /\ r.dst \in Inodes /\ ~IsDir(n, r.dst)

\* A copy from a to b, of what the file system n0 has at a.
CpRuns(r, n, n0, d, a, b) ==
  /\ IsTree(n0, Inodes) /\ Keeps(n0, n) /\ KeptBelow(n0, n, d, a)
  /\ r.args = <<>>
  /\ \A c \in Range(r.todo) : c.op \in CopyOps /\ \E q \in Seq(Names) : About(c, a, b, q)
  /\ Opened(r, n, d)
  /\ r.ret = 0 /\ (IsDir(n0, Lookup(n0, d, a)) => Has(r.cmd, "r")) => Covers(r.todo, r.cut, n0, n, d, a, b)

AreApart(a, b) == a # <<>> /\ b # <<>> /\ ~IsPrefix(a, b) /\ ~IsPrefix(b, a)

\* The destination is not in the source, so writing to it leaves the source alone.
LEMMA SourceStays ==
  ASSUME NEW n0, IsTree(n0, Inodes), NEW n, IsTree(n, Inodes), NEW m, IsTree(m, Inodes), NEW d \in Inodes,
         NEW a \in Seq(Names), NEW b \in Seq(Names), AreApart(a, b), NEW u \in Seq(Names),
         Keeps(n0, n), KeptBelow(n0, n, d, a), WritesAt(n, m, d, b \o u)
  PROVE  Keeps(n0, m) /\ KeptBelow(n0, m, d, a)
<1>1. Keeps(n0, m)
  BY KeepsOn DEF WritesAt
<1>2. ASSUME NEW q \in Seq(Names)
      PROVE  /\ a \o q \in Seq(Names) /\ a \o q # <<>>
             /\ \A k \in 0..Len(a \o q) : Upto(a \o q, k) # b \o u
  BY JoinedPath, CommonStart DEF AreApart
<1>3. ASSUME NEW q \in Seq(Names), Found(m, d, a \o q) PROVE Found(n0, d, a \o q)
  BY <1>2, <1>3 DEF WritesAt, KeptBelow
<1>4. ASSUME NEW q \in Seq(Names), Found(n0, d, a \o q)
      PROVE  m[Lookup(n0, d, a \o q)].data = n0[Lookup(n0, d, a \o q)].data
  <2> DEFINE path == a \o q
  <2>1. path \in Seq(Names) /\ path # <<>> /\ Upto(path, Len(path)) = path /\ Len(path) \in 0..Len(path)
    BY <1>2, SubSeqFull DEF Upto
  <2>2. path # b \o u
    BY <1>2, <2>1
  <2>3. Lookup(n, d, path) = Lookup(n0, d, path) /\ Found(n, d, path)
    BY <1>4, <2>1, KeptIsFound
  <2>4. m[Lookup(n, d, path)].data = n[Lookup(n, d, path)].data
    BY <2>1, <2>2, <2>3 DEF WritesAt
  <2>5. n[Lookup(n0, d, path)].data = n0[Lookup(n0, d, path)].data
    BY <1>4 DEF KeptBelow
  <2> QED BY <2>3, <2>4, <2>5
<1> QED BY <1>1, <1>3, <1>4 DEF KeptBelow

LEMMA CopyStays ==
  ASSUME NEW n0, NEW n, IsTree(n, Inodes), NEW m, IsTree(m, Inodes), NEW d \in Inodes, NEW a,
         NEW b \in Seq(Names), b # <<>>, NEW u \in Seq(Names), NEW q \in Seq(Names), q # u,
         WritesAt(n, m, d, b \o u), Copied(n0, n, d, a, b, q)
  PROVE  Copied(n0, m, d, a, b, q)
<1> DEFINE path == b \o q
<1>1. path \in Seq(Names) /\ path # <<>>
  BY JoinedPath
<1>2. path # b \o u
  BY ConcatSimplifications
<1>3. Found(n, d, path) /\ n[Lookup(n, d, path)].kind = "file"
      /\ n[Lookup(n, d, path)].data = n0[Lookup(n0, d, a \o q)].data
  BY DEF Copied, IsFile
<1>4. Lookup(m, d, path) = Lookup(n, d, path) /\ Found(m, d, path)
  BY <1>1, <1>3, KeptIsFound DEF WritesAt
<1>5. m[Lookup(n, d, path)].data = n[Lookup(n, d, path)].data
  BY <1>1, <1>2, <1>3 DEF WritesAt
<1>6. Linked(n, Lookup(n, d, path)) /\ Lookup(n, d, path) \in Inodes
  BY <1>1, <1>3, FoundIsEntry DEF Found
<1>7. m[Lookup(n, d, path)].kind = "file"
  BY <1>3, <1>6 DEF WritesAt, Keeps
<1> QED BY <1>3, <1>4, <1>5, <1>7 DEF Copied, IsFile

\* With no operand left, what remains to do is on the stack.
LEMMA OnlyOne ==
  ASSUME NEW r \in RunSet, r.args = <<>>
  PROVE  /\ \A calls \in Seq(CallSet) :
              /\ Instead(r, calls) = [r EXCEPT !.todo = calls \o Tail(@)]
              /\ Instead(r, calls).todo = calls \o Tail(r.todo) /\ Instead(r, calls).args = <<>>
              /\ Instead(r, calls).cmd = r.cmd /\ Instead(r, calls).ret = r.ret
              /\ Instead(r, calls).src = r.src /\ Instead(r, calls).dst = r.dst
              /\ Instead(r, calls).cut = r.cut
         /\ Fail(r).todo = <<>> /\ Fail(r).args = <<>> /\ Fail(r).ret = 1
<1>1. ASSUME NEW calls
      PROVE  /\ Instead(r, calls) = [r EXCEPT !.todo = calls \o Tail(@)]
             /\ Instead(r, calls).todo = calls \o Tail(r.todo) /\ Instead(r, calls).args = <<>>
             /\ Instead(r, calls).cmd = r.cmd /\ Instead(r, calls).ret = r.ret
             /\ Instead(r, calls).src = r.src /\ Instead(r, calls).dst = r.dst
             /\ Instead(r, calls).cut = r.cut
  <2> DEFINE s == [r EXCEPT !.todo = calls \o Tail(@)]
  <2>1. /\ s.todo = calls \o Tail(r.todo) /\ s.args = <<>>
        /\ s.cmd = r.cmd /\ s.ret = r.ret /\ s.src = r.src /\ s.dst = r.dst /\ s.cut = r.cut
    BY DEF RunSet
  <2>2. Instead(r, calls) = Load(s)
    BY DEF Instead
  <2> HIDE DEF s
  <2>3. Load(s) = s
    BY <2>1 DEF Load
  <2> QED BY <2>1, <2>2, <2>3 DEF s
<1>2. Fail(r).todo = <<>> /\ Fail(r).args = <<>> /\ Fail(r).ret = 1
  <2> DEFINE u == [r EXCEPT !.todo = <<>>, !.ret = 1, !.src = NoFile, !.dst = NoFile]
  <2>1. u.todo = <<>> /\ u.args = <<>> /\ u.ret = 1
    BY DEF RunSet
  <2>2. Fail(r) = Load(u)
    BY DEF Fail
  <2> HIDE DEF u
  <2> QED BY <2>1, <2>2 DEF Load
<1> QED BY <1>1, <1>2

\* The calls before and after the one at hand is replaced.
LEMMA RangeTurns ==
  ASSUME NEW todo \in Seq(CallSet), todo # <<>>, NEW calls \in Seq(CallSet)
  PROVE  /\ Range(todo) = {todo[1]} \cup Range(Tail(todo))
         /\ Range(calls \o Tail(todo)) = Range(calls) \cup Range(Tail(todo))
         /\ calls # <<>> => calls \o Tail(todo) # <<>> /\ (calls \o Tail(todo))[1] = calls[1]
         /\ calls = <<>> => calls \o Tail(todo) = Tail(todo)
         /\ Tail(todo) # <<>> => Tail(todo)[1] = todo[2] /\ 2 \in 1..Len(todo)
         /\ todo[1] \in CallSet
<1> DEFINE t == Tail(todo)
<1>1. t \in Seq(CallSet) /\ Len(t) = Len(todo) - 1 /\ \A k \in 1..Len(t) : t[k] = todo[k + 1]
  BY HeadTailProperties
<1>2. Len(todo) \in Nat /\ Len(todo) > 0 /\ Len(calls) \in Nat /\ Len(t) \in Nat
  BY <1>1, EmptySeq, LenProperties
<1> HIDE DEF t
<1>3. Range(todo) = {todo[k] : k \in 1..Len(todo)} /\ Range(t) = {t[k] : k \in 1..Len(t)}
  BY <1>1, RangeEquality
<1>4. \A k \in 1..Len(todo) : k = 1 \/ (k - 1 \in 1..Len(t) /\ todo[k] = t[k - 1])
  <2> TAKE k \in 1..Len(todo)
  <2> SUFFICES ASSUME k # 1 PROVE k - 1 \in 1..Len(t) /\ todo[k] = t[k - 1]
    OBVIOUS
  <2>1. k - 1 \in 1..Len(t) /\ (k - 1) + 1 = k
    BY <1>1, <1>2
  <2> QED BY <2>1, <1>1
<1>5. \A k \in 1..Len(t) : k + 1 \in 1..Len(todo) /\ t[k] = todo[k + 1]
  BY <1>1, <1>2
<1>6. Range(todo) = {todo[1]} \cup Range(t)
  <2>1. 1 \in 1..Len(todo)
    BY <1>2
  <2>2. \A x \in Range(todo) : x = todo[1] \/ x \in Range(t)
    BY <1>3, <1>4
  <2>3. \A x \in Range(t) : x \in Range(todo)
    BY <1>3, <1>5
  <2>4. todo[1] \in Range(todo)
    BY <1>3, <2>1
  <2> QED BY <2>2, <2>3, <2>4
<1>7. Range(calls \o t) = Range(calls) \cup Range(t)
  BY <1>1, RangeConcatenation
<1>8. /\ Len(calls \o t) = Len(calls) + Len(t)
      /\ \A k \in 1..Len(calls) + Len(t) : (calls \o t)[k] = IF k <= Len(calls) THEN calls[k] ELSE t[k - Len(calls)]
  BY <1>1, ConcatProperties
<1>9. calls # <<>> => calls \o t # <<>> /\ (calls \o t)[1] = calls[1]
  <2> SUFFICES ASSUME calls # <<>> PROVE calls \o t # <<>> /\ (calls \o t)[1] = calls[1]
    OBVIOUS
  <2>1. Len(calls) > 0
    BY EmptySeq
  <2>2. 1 \in 1..Len(calls) + Len(t) /\ 1 <= Len(calls)
    BY <1>2, <2>1
  <2>3. (calls \o t)[1] = calls[1]
    BY <1>8, <2>2
  <2>4. calls \o t # <<>>
    BY <1>1, <2>1, ConcatEqualIffEmpty
  <2> QED BY <2>3, <2>4
<1>10. calls = <<>> => calls \o t = t
  BY <1>1, ConcatEmptySeq
<1>11. t # <<>> => t[1] = todo[2] /\ 2 \in 1..Len(todo)
  <2> SUFFICES ASSUME t # <<>> PROVE t[1] = todo[2] /\ 2 \in 1..Len(todo)
    OBVIOUS
  <2>1. Len(t) > 0
    BY <1>1, EmptySeq
  <2>2. 1 \in 1..Len(t) /\ 1 + 1 = 2
    BY <1>2, <2>1
  <2> QED BY <1>5, <2>2
<1>12. todo[1] \in CallSet
  <2>1. 1 \in 1..Len(todo)
    BY <1>2
  <2> QED BY <2>1, ElementOfSeq
<1> QED BY <1>6, <1>7, <1>9, <1>10, <1>11, <1>12 DEF t

\* Where a copy stands: the call at hand is about u, and sees to what is there.
StandsAt(p, op, a, b, u) ==
  /\ A(p) = a \o u /\ B(p) = b \o u /\ A(p) # <<>> /\ B(p) # <<>>
  /\ About(run[p].todo[1], a, b, u)
  /\ op \in FileOps => \A q \in Seq(Names) : SeesTo(run[p].todo[1], a, b, q) => q = u
  /\ op \notin FileOps => \A q \in Seq(Names) :
       SeesTo(run[p].todo[1], a, b, q) => \E v \in Seq(Names) : q = u \o v

LEMMA CpAtHand ==
  ASSUME Orderly, NEW p \in Shells, NEW op, Next1(p, op), NEW n0, NEW a \in Seq(Names), NEW b \in Seq(Names),
         AreApart(a, b), CpRuns(run[p], node, n0, cwd[p], a, b)
  PROVE  /\ run[p].todo # <<>> /\ run[p].todo[1] = Head(run[p].todo) /\ run[p].todo[1].op = op
         /\ run[p] \in RunSet /\ run[p].args = <<>> /\ run[p].todo \in Seq(CallSet)
         /\ Opened(run[p], node, cwd[p])
         /\ \E u \in Seq(Names) : StandsAt(p, op, a, b, u)
<1> DEFINE c == run[p].todo[1]
<1>1. /\ run[p].todo # <<>> /\ c = Head(run[p].todo) /\ c.op = op /\ run[p] \in RunSet
      /\ A(p) \in Seq(Names) /\ B(p) \in Seq(Names)
  BY AtHand
<1>2. run[p].todo \in Seq(CallSet) /\ A(p) = c.a /\ B(p) = c.b
  BY <1>1 DEF RunSet, A, B
<1>3. c \in Range(run[p].todo)
  <2>1. <<>> \in Seq(CallSet)
    OBVIOUS
  <2> QED BY <1>1, <1>2, <2>1, RangeTurns
<1> HIDE DEF c
<1>4. PICK u \in Seq(Names) : About(c, a, b, u)
  BY <1>3 DEF CpRuns
<1>5. A(p) = a \o u /\ B(p) = b \o u /\ A(p) # <<>> /\ B(p) # <<>>
  BY <1>2, <1>4, JoinedPath DEF About, AreApart
<1>6. \A w \in Seq(Names) : About(c, a, b, w) => w = u
  BY <1>4, ConcatSimplifications DEF About
<1>7. ASSUME NEW q \in Seq(Names), SeesTo(c, a, b, q)
      PROVE  IF op \in FileOps THEN q = u ELSE \E v \in Seq(Names) : q = u \o v
  BY <1>1, <1>6, <1>7 DEF SeesTo, c
<1>8. run[p].args = <<>> /\ Opened(run[p], node, cwd[p])
  BY DEF CpRuns
<1>9. StandsAt(p, op, a, b, u)
  BY <1>4, <1>5, <1>7 DEF StandsAt, c
<1> QED BY <1>1, <1>2, <1>8, <1>9 DEF c

\* A call of a copy returns, and others take its place.
LEMMA CpGoesOn ==
  ASSUME Orderly, NEW p \in Shells, NEW n0, NEW a \in Seq(Names), NEW b \in Seq(Names), AreApart(a, b),
         CpRuns(run[p], node, n0, cwd[p], a, b), run[p].todo # <<>>,
         NEW u \in Seq(Names), About(run[p].todo[1], a, b, u),
         NEW m, IsTree(m, Inodes), WritesAt(node, m, cwd[p], b \o u),
         NEW s, Returns(p, s, m), s.args = <<>>, s.cmd = run[p].cmd, s.ret = run[p].ret,
         run[p].cut \subseteq s.cut,
         NEW calls \in Seq(CallSet), s.todo = calls \o Tail(run[p].todo),
         \A c \in Range(calls) : c.op \in CopyOps /\ \E q \in Seq(Names) : About(c, a, b, q),
         Opened(s, node', cwd[p]),
         \A q \in Seq(Names) : IsFile(n0, cwd[p], a \o q) /\ SeesTo(run[p].todo[1], a, b, q) =>
           \/ Copied(n0, node', cwd[p], a, b, q) \/ b \o q \in s.cut
           \/ \E c \in Range(calls) : SeesTo(c, a, b, q)
  PROVE  CpRuns(run'[p], node', n0, cwd[p], a, b)
<1> DEFINE d == cwd[p]
           todo == run[p].todo
           t == Tail(todo)
           h == Held(run', cwd)
<1>1. run'[p] = s /\ node' = Tidy(m, h)
  BY DEF Returns, Orderly
<1>2. d \in Inodes /\ IsTree(node, Inodes) /\ todo \in Seq(CallSet)
  BY AnyHeld DEF Orderly, RunSet
<1> HIDE DEF d, todo, h
<1>3. IsTree(node', Inodes)
  BY <1>1, TidyTree, AnyHeld
<1>4. WritesAt(node, node', d, b \o u)
  BY <1>1, <1>2, TidiesAt DEF d
<1>5. IsTree(n0, Inodes) /\ Keeps(n0, node) /\ KeptBelow(n0, node, d, a)
  BY DEF CpRuns, d
<1>6. Keeps(n0, node') /\ KeptBelow(n0, node', d, a)
  BY <1>2, <1>3, <1>4, <1>5, SourceStays
<1>7. Range(todo) = {todo[1]} \cup Range(t) /\ Range(s.todo) = Range(calls) \cup Range(t)
  BY <1>2, RangeTurns DEF todo
<1>8. \A c \in Range(s.todo) : c.op \in CopyOps /\ \E q \in Seq(Names) : About(c, a, b, q)
  BY <1>7 DEF CpRuns, todo
<1>9. SeesTo(todo[1], a, b, u)
  <2>1. <<>> \in Seq(Names) /\ u = u \o <<>>
    BY JoinedPath
  <2> QED BY <2>1 DEF SeesTo, todo
<1>10. ASSUME s.ret = 0, IsDir(n0, Lookup(n0, d, a)) => Has(s.cmd, "r"), NEW q \in Seq(Names),
              IsFile(n0, d, a \o q), b \o q \notin s.cut
       PROVE  Copied(n0, node', d, a, b, q) \/ \E c \in Range(s.todo) : SeesTo(c, a, b, q)
  <2>1. Covers(todo, run[p].cut, n0, node, d, a, b) /\ b \o q \notin run[p].cut
    BY <1>10 DEF CpRuns, d, todo
  <2>2. Copied(n0, node, d, a, b, q) \/ \E c \in Range(todo) : SeesTo(c, a, b, q)
    BY <1>10, <2>1 DEF Covers
  <2>3. CASE SeesTo(todo[1], a, b, q)
    <3>1. Copied(n0, node', d, a, b, q) \/ \E c \in Range(calls) : SeesTo(c, a, b, q)
      BY <1>10, <2>3 DEF d, todo
    <3> QED BY <3>1, <1>7
  <2>4. CASE ~SeesTo(todo[1], a, b, q) /\ \E c \in Range(todo) : SeesTo(c, a, b, q)
    BY <1>7, <2>4
  <2>5. CASE ~SeesTo(todo[1], a, b, q) /\ Copied(n0, node, d, a, b, q)
    <3>1. q # u
      BY <1>9, <2>5
    <3>2. b # <<>>
      BY DEF AreApart
    <3> QED BY <1>2, <1>3, <1>4, <2>5, <3>1, <3>2, CopyStays
  <2> QED BY <2>2, <2>3, <2>4, <2>5
<1>11. CpRuns(s, node', n0, d, a, b)
  BY <1>5, <1>6, <1>8, <1>10 DEF CpRuns, Covers, d
<1> QED BY <1>1, <1>11 DEF d

LEMMA CpFailsAt ==
  ASSUME Orderly, NEW p \in Shells, NEW n0, NEW a \in Seq(Names), NEW b \in Seq(Names), AreApart(a, b),
         CpRuns(run[p], node, n0, cwd[p], a, b),
         NEW u \in Seq(Names), NEW m, IsTree(m, Inodes), WritesAt(node, m, cwd[p], b \o u),
         Returns(p, Fail(run[p]), m)
  PROVE  CpRuns(run'[p], node', n0, cwd[p], a, b)
<1> DEFINE d == cwd[p]
           s == Fail(run[p])
           h == Held(run', cwd)
<1>1. run'[p] = s /\ node' = Tidy(m, h)
  BY DEF Returns, Orderly
<1>2. d \in Inodes /\ IsTree(node, Inodes) /\ run[p] \in RunSet /\ run[p].args = <<>>
  BY AnyHeld DEF Orderly, CpRuns
<1>3. s.todo = <<>> /\ s.args = <<>> /\ s.ret = 1
  BY <1>2, OnlyOne
<1> HIDE DEF d, s, h
<1>4. IsTree(node', Inodes)
  BY <1>1, <1>2, TidyTree, AnyHeld
<1>5. WritesAt(node, node', d, b \o u)
  BY <1>1, <1>2, TidiesAt DEF d
<1>6. IsTree(n0, Inodes) /\ Keeps(n0, node) /\ KeptBelow(n0, node, d, a)
  BY DEF CpRuns, d
<1>8. Keeps(n0, node') /\ KeptBelow(n0, node', d, a)
  BY <1>2, <1>4, <1>5, <1>6, SourceStays
<1>9. Range(s.todo) = {}
  BY <1>3 DEF Range
<1>10. CpRuns(s, node', n0, d, a, b)
  BY <1>3, <1>6, <1>8, <1>9 DEF CpRuns, Opened, Copying
<1> QED BY <1>1, <1>10 DEF d

LEMMA CpFails ==
  ASSUME Orderly, NEW p \in Shells, NEW n0, NEW a \in Seq(Names), NEW b \in Seq(Names), AreApart(a, b),
         CpRuns(run[p], node, n0, cwd[p], a, b), Returns(p, Fail(run[p]), node)
  PROVE  CpRuns(run'[p], node', n0, cwd[p], a, b)
<1>1. IsTree(node, Inodes) /\ <<>> \in Seq(Names)
  BY AnyHeld DEF Orderly
<1>2. WritesAt(node, node, cwd[p], b \o <<>>)
  BY WritesNothing
<1> QED BY <1>1, <1>2, CpFailsAt

\* One call about the same path takes the place of the one at hand.
LEMMA CpTurns ==
  ASSUME Orderly, NEW p \in Shells, NEW n0, NEW a \in Seq(Names), NEW b \in Seq(Names), AreApart(a, b),
         CpRuns(run[p], node, n0, cwd[p], a, b), run[p].todo # <<>>,
         NEW u \in Seq(Names), About(run[p].todo[1], a, b, u),
         NEW m, IsTree(m, Inodes), WritesAt(node, m, cwd[p], b \o u),
         NEW op \in CopyOps,
         NEW s, Returns(p, s, m), s.args = <<>>, s.cmd = run[p].cmd, s.ret = run[p].ret,
         run[p].cut \subseteq s.cut,
         s.todo = <<Call(op, a \o u, b \o u)>> \o Tail(run[p].todo),
         op \in {"openDst", "pump"} => s.src = Lookup(node', cwd[p], a \o u),
         op = "pump" => s.dst = Lookup(node', cwd[p], b \o u) /\ s.dst \in Inodes /\ ~IsDir(node', s.dst),
         \A q \in Seq(Names) : IsFile(n0, cwd[p], a \o q) /\ SeesTo(run[p].todo[1], a, b, q) =>
           IF op \in FileOps THEN q = u ELSE \E v \in Seq(Names) : q = u \o v
  PROVE  CpRuns(run'[p], node', n0, cwd[p], a, b)
<1> DEFINE c == Call(op, a \o u, b \o u)
           calls == <<c>>
<1>1. a \o u \in Seq(Names) /\ b \o u \in Seq(Names)
  BY JoinedPath
<1>2. c \in CallSet /\ c.op = op /\ About(c, a, b, u) /\ c.a = a \o u /\ c.b = b \o u
  <2> DEFINE x == a \o u
             y == b \o u
  <2>1. op \in Ops /\ x \in Seq(Names) /\ y \in Seq(Names) /\ c = Call(op, x, y)
    BY <1>1 DEF CopyOps, Ops
  <2> HIDE DEF x, y, c
  <2>2. c \in CallSet /\ c.op = op /\ c.a = x /\ c.b = y
    BY <2>1, CallIs
  <2> QED BY <2>2 DEF About, x, y
<1>3. s.todo = calls \o Tail(run[p].todo)
  OBVIOUS
<1>4. run[p].todo \in Seq(CallSet)
  BY DEF Orderly, RunSet
<1> HIDE DEF c
<1>5. calls \in Seq(CallSet) /\ calls # <<>> /\ calls[1] = c /\ Range(calls) = {c}
  BY <1>2 DEF Range
<1> HIDE DEF calls
<1>6. s.todo # <<>> /\ s.todo[1] = c
  BY <1>3, <1>4, <1>5, RangeTurns
<1>7. Opened(s, node', cwd[p])
  BY <1>2, <1>6 DEF Opened, Copying
<1>8. \A q \in Seq(Names) : IsFile(n0, cwd[p], a \o q) /\ SeesTo(run[p].todo[1], a, b, q) => SeesTo(c, a, b, q)
  BY <1>2 DEF SeesTo
<1> QED BY <1>2, <1>3, <1>5, <1>7, <1>8, CpGoesOn

\* What a path below leads to is a directory.
LEMMA IsOnTheWay ==
  ASSUME NEW n0, IsTree(n0, Inodes), NEW n, IsTree(n, Inodes), Keeps(n0, n), NEW d \in Inodes,
         NEW x \in Seq(Names), x # <<>>, NEW v \in Seq(Names), v # <<>>, Found(n0, d, x \o v)
  PROVE  /\ Found(n0, d, x) /\ IsDir(n0, Lookup(n0, d, x)) /\ Found(n, d, x)
         /\ Lookup(n, d, x) = Lookup(n0, d, x) /\ IsDir(n, Lookup(n, d, x))
<1> DEFINE y == x \o v
<1>1. y \in Seq(Names) /\ Len(y) = Len(x) + Len(v) /\ Upto(y, Len(x)) = x /\ Found(n0, d, y)
  BY JoinedPath
<1> HIDE DEF y
<1>2. Len(x) \in Nat /\ Len(v) \in Nat /\ Len(v) > 0
  BY EmptySeq
<1>3. Len(x) \in 0..Len(y) /\ Len(x) < Len(y)
  BY <1>1, <1>2
<1>4. Found(n0, d, x) /\ IsDir(n0, Lookup(n0, d, x))
  BY <1>1, <1>3, FoundUpto
<1>5. Lookup(n, d, x) = Lookup(n0, d, x) /\ Found(n, d, x)
  BY <1>4, KeptIsFound
<1>6. Linked(n0, Lookup(n0, d, x)) /\ Lookup(n0, d, x) \in Inodes
  BY <1>4, FoundIsEntry DEF Found
<1> QED BY <1>4, <1>5, <1>6 DEF Keeps, IsDir

\* copyAny: a file or a directory.
LEMMA CpAny ==
  ASSUME Orderly, NEW p \in Shells, NEW n0, NEW a \in Seq(Names), NEW b \in Seq(Names), AreApart(a, b),
         CpRuns(run[p], node, n0, cwd[p], a, b), CopyAny(p)
  PROVE  CpRuns(run'[p], node', n0, cwd[p], a, b)
<1> DEFINE r == run[p]
           d == cwd[p]
           i == Lookup(node, d, A(p))
           op == IF IsDir(node, i) THEN "copyDir" ELSE "openSrc"
<1>1. Next1(p, "copyAny") /\ "copyAny" \notin FileOps
  BY DEF CopyAny, FileOps
<1>7. PICK u \in Seq(Names) : StandsAt(p, "copyAny", a, b, u)
  <2> HIDE DEF r, d, i, op
  <2> QED BY <1>1, CpAtHand
<1>2. /\ A(p) = a \o u /\ B(p) = b \o u /\ A(p) # <<>> /\ About(run[p].todo[1], a, b, u)
      /\ \A q \in Seq(Names) : SeesTo(run[p].todo[1], a, b, q) => \E v \in Seq(Names) : q = u \o v
  BY <1>1, <1>7 DEF StandsAt
<1>3. r.todo # <<>> /\ r \in RunSet /\ r.args = <<>>
  BY <1>1, CpAtHand
<1>4. /\ i \in Places /\ d \in Inodes /\ d \in Places /\ IsTree(node, Inodes)
      /\ A(p) \in Seq(Names) /\ B(p) \in Seq(Names)
  BY <1>1, AtHand
<1>5. CASE i \in Errors
  <2>1. Returns(p, Fail(r), node)
    BY <1>5 DEF CopyAny
  <2> QED BY <2>1, CpFails
<1>6. CASE i \notin Errors
  <2> DEFINE c == Call(op, A(p), B(p))
             s == Instead(r, <<c>>)
  <2>1. Returns(p, s, node)
    BY <1>6 DEF CopyAny
  <2> HIDE DEF i
  <2>2. op \in CopyOps /\ op \in Ops /\ op \notin {"openDst", "pump"}
        /\ (op \in FileOps => ~IsDir(node, i))
    BY DEF CopyOps, Ops, FileOps
  <2> HIDE DEF op
  <2>3. c \in CallSet
    BY <1>4, <2>2, CallIs
  <2> HIDE DEF c
  <2>4. <<c>> \in Seq(CallSet)
    BY <2>3
  <2>5. s.args = <<>> /\ s.cmd = r.cmd /\ s.ret = r.ret /\ s.todo = <<c>> \o Tail(r.todo) /\ s.cut = r.cut
    BY <1>3, <2>4, OnlyOne
  <2> HIDE DEF s
  <2>6. s.todo = <<Call(op, a \o u, b \o u)>> \o Tail(run[p].todo)
    BY <2>5, <1>2 DEF c
  <2>7. ASSUME NEW q \in Seq(Names), IsFile(n0, d, a \o q), SeesTo(r.todo[1], a, b, q)
        PROVE  IF op \in FileOps THEN q = u ELSE \E v \in Seq(Names) : q = u \o v
    <3>1. PICK v \in Seq(Names) : q = u \o v
      BY <1>2, <2>7
    <3>2. CASE v = <<>>
      <4>1. u \o <<>> = u
        BY JoinedPath
      <4> QED BY <3>1, <3>2, <4>1
    <3>3. CASE v # <<>>
      <4>1. IsTree(n0, Inodes) /\ Keeps(n0, node)
        BY DEF CpRuns
      <4>2. a \o q = A(p) \o v /\ A(p) # <<>>
        <5>1. a \o q = (a \o u) \o v
          BY <3>1, ConcatAssociative
        <5> QED BY <5>1, <1>2
      <4>3. Found(n0, d, A(p) \o v)
        BY <2>7, <4>2 DEF IsFile
      <4>4. IsDir(node, i)
        <5> HIDE DEF d
        <5> QED BY <1>4, <3>3, <4>1, <4>2, <4>3, IsOnTheWay DEF i
      <4> QED BY <2>2, <3>1, <4>4
    <3> QED BY <3>2, <3>3
  <2>8. WritesAt(node, node, cwd[p], b \o u)
    BY WritesNothing
  <2> HIDE DEF r, d
  <2>9. s.args = <<>> /\ s.cmd = run[p].cmd /\ s.ret = run[p].ret /\ run[p].cut \subseteq s.cut
    BY <2>5 DEF r
  <2>10. \A q \in Seq(Names) : IsFile(n0, cwd[p], a \o q) /\ SeesTo(run[p].todo[1], a, b, q) =>
           IF op \in FileOps THEN q = u ELSE \E v \in Seq(Names) : q = u \o v
    BY <2>7 DEF r, d
  <2>11. run[p].todo # <<>> /\ IsTree(node, Inodes) /\ About(run[p].todo[1], a, b, u)
    BY <1>2, <1>3, <1>4 DEF r
  <2> QED BY <2>1, <2>2, <2>6, <2>8, <2>9, <2>10, <2>11, CpTurns
<1> QED BY <1>5, <1>6

\* A copy at a call, with what every lemma about a call of it needs.
CpAt(p, op, n0, a, b, u) ==
  /\ StandsAt(p, op, a, b, u)
  /\ run[p].todo # <<>> /\ run[p].todo[1].op = op /\ run[p] \in RunSet /\ run[p].args = <<>>
  /\ run[p].todo \in Seq(CallSet) /\ Opened(run[p], node, cwd[p]) /\ TodoOK(run[p].todo, run[p].src)
  /\ cwd[p] \in Inodes /\ cwd[p] \in Places /\ IsTree(node, Inodes)
  /\ A(p) \in Seq(Names) /\ B(p) \in Seq(Names)
  /\ Lookup(node, cwd[p], A(p)) \in Places
  /\ IsTree(n0, Inodes) /\ Keeps(n0, node) /\ KeptBelow(n0, node, cwd[p], a)

LEMMA CpIsAt ==
  ASSUME Orderly, NEW p \in Shells, NEW op, Next1(p, op), NEW n0, NEW a \in Seq(Names), NEW b \in Seq(Names),
         AreApart(a, b), CpRuns(run[p], node, n0, cwd[p], a, b)
  PROVE  \E u \in Seq(Names) : CpAt(p, op, n0, a, b, u)
<1>1. PICK u \in Seq(Names) : StandsAt(p, op, a, b, u)
  BY CpAtHand
<1>2. /\ run[p].todo # <<>> /\ run[p].todo[1].op = op /\ run[p] \in RunSet /\ run[p].args = <<>>
      /\ run[p].todo \in Seq(CallSet) /\ Opened(run[p], node, cwd[p])
  BY CpAtHand
<1>3. /\ cwd[p] \in Inodes /\ cwd[p] \in Places /\ IsTree(node, Inodes)
      /\ A(p) \in Seq(Names) /\ B(p) \in Seq(Names) /\ Lookup(node, cwd[p], A(p)) \in Places
  BY AtHand
<1>4. IsTree(n0, Inodes) /\ Keeps(n0, node) /\ KeptBelow(n0, node, cwd[p], a)
  BY DEF CpRuns
<1>5. TodoOK(run[p].todo, run[p].src)
  BY DEF Orderly, RunOK, RunParts
<1> QED BY <1>1, <1>2, <1>3, <1>4, <1>5 DEF CpAt

\* copyDir: the directory at the destination.
LEMMA CpDir ==
  ASSUME Orderly, NEW p \in Shells, NEW n0, NEW a \in Seq(Names), NEW b \in Seq(Names), AreApart(a, b),
         CpRuns(run[p], node, n0, cwd[p], a, b), CopyDir(p)
  PROVE  CpRuns(run'[p], node', n0, cwd[p], a, b)
<1> DEFINE c == Call("copyKids", A(p), B(p))
           s == Instead(run[p], <<c>>)
           no == CannotCreate(node, cwd[p], B(p))
<1>1. Next1(p, "copyDir") /\ "copyDir" \notin FileOps /\ "copyKids" \in CopyOps /\ "copyKids" \in Ops
      /\ "copyKids" \notin {"openDst", "pump"} /\ "copyKids" \notin FileOps
  BY DEF CopyDir, FileOps, CopyOps, Ops
<1>2. PICK u \in Seq(Names) : CpAt(p, "copyDir", n0, a, b, u)
  BY <1>1, CpIsAt
<1>3. /\ A(p) = a \o u /\ B(p) = b \o u /\ B(p) # <<>> /\ About(run[p].todo[1], a, b, u)
      /\ \A q \in Seq(Names) : SeesTo(run[p].todo[1], a, b, q) => \E v \in Seq(Names) : q = u \o v
      /\ run[p].todo # <<>> /\ run[p] \in RunSet /\ run[p].args = <<>> /\ IsTree(node, Inodes)
      /\ A(p) \in Seq(Names) /\ B(p) \in Seq(Names) /\ cwd[p] \in Inodes
  BY <1>1, <1>2 DEF CpAt, StandsAt
<1>4. c \in CallSet
  BY <1>1, <1>3, CallIs
<1>5. \/ no = {} /\ Returns(p, s, Create(node, cwd[p], B(p), "dir"))
      \/ Returns(p, s, node) \/ Returns(p, Fail(run[p]), node)
  BY DEF CopyDir
<1> HIDE DEF c, no
<1>6. <<c>> \in Seq(CallSet)
  BY <1>4
<1>7. /\ s.args = <<>> /\ s.cmd = run[p].cmd /\ s.ret = run[p].ret /\ run[p].cut \subseteq s.cut
      /\ s.todo = <<Call("copyKids", a \o u, b \o u)>> \o Tail(run[p].todo)
  <2>1. /\ s.args = <<>> /\ s.cmd = run[p].cmd /\ s.ret = run[p].ret /\ s.cut = run[p].cut
        /\ s.todo = <<c>> \o Tail(run[p].todo)
    BY <1>3, <1>6, OnlyOne
  <2> QED BY <2>1, <1>3 DEF c
<1> HIDE DEF s
<1>8. \A q \in Seq(Names) : IsFile(n0, cwd[p], a \o q) /\ SeesTo(run[p].todo[1], a, b, q) =>
        IF "copyKids" \in FileOps THEN q = u ELSE \E v \in Seq(Names) : q = u \o v
  BY <1>1, <1>3
<1>9. ASSUME NEW m, IsTree(m, Inodes), WritesAt(node, m, cwd[p], b \o u), Returns(p, s, m)
      PROVE  CpRuns(run'[p], node', n0, cwd[p], a, b)
  BY <1>1, <1>3, <1>7, <1>8, <1>9, CpTurns
<1>10. CASE no = {} /\ Returns(p, s, Create(node, cwd[p], B(p), "dir"))
  <2> DEFINE m == Create(node, cwd[p], B(p), "dir")
  <2>1. IsTree(m, Inodes) /\ WritesAt(node, m, cwd[p], B(p))
    BY <1>3, <1>10, CreatesAt DEF no
  <2>2. Returns(p, s, m) /\ WritesAt(node, m, cwd[p], b \o u)
    BY <1>3, <1>10, <2>1
  <2> HIDE DEF m
  <2> QED BY <1>9, <2>1, <2>2
<1>11. CASE Returns(p, s, node)
  BY <1>3, <1>9, <1>11, WritesNothing
<1>12. CASE Returns(p, Fail(run[p]), node)
  BY <1>12, CpFails
<1> QED BY <1>5, <1>10, <1>11, <1>12

\* The next thing on the way to what is found is an entry.
LEMMA NextOnTheWay ==
  ASSUME NEW n, IsTree(n, Inodes), NEW d \in Inodes, NEW x \in Seq(Names), NEW v \in Seq(Names), v # <<>>,
         Found(n, d, x \o v)
  PROVE  Head(v) \in EntryNames(n, Lookup(n, d, x))
<1> DEFINE y == x \o v
           k == Len(x) + 1
<1>1. /\ y \in Seq(Names) /\ Len(y) = Len(x) + Len(v) /\ Upto(y, Len(x)) = x /\ Found(n, d, y)
      /\ \A j \in 1..Len(v) : y[Len(x) + j] = v[j]
  BY JoinedPath
<1> HIDE DEF y
<1>2. Len(x) \in Nat /\ Len(v) \in Nat /\ Len(v) > 0 /\ Head(v) = v[1]
  BY EmptySeq
<1>3. k \in 1..Len(y) /\ k - 1 = Len(x) /\ 1 \in 1..Len(v)
  BY <1>1, <1>2
<1> DEFINE i == Lookup(n, d, Upto(y, k))
           up == Lookup(n, d, Upto(y, k - 1))
<1>4. i \in Inodes \ {Root} /\ n[i].up = up /\ n[i].name = y[k]
  BY <1>1, <1>3, FoundParts
<1>5. up = Lookup(n, d, x) /\ y[k] = Head(v)
  BY <1>1, <1>2, <1>3
<1> HIDE DEF i, up, k
<1> QED BY <1>4, <1>5 DEF EntryNames, Entries

\* Further calls are not in the midst of a copy.
LEMMA NotCopying ==
  ASSUME NEW todo \in Seq(CallSet), todo # <<>>, NEW src, TodoOK(todo, src), NEW calls \in Seq(CallSet),
         calls # <<>> => calls[1].op \notin {"openDst", "pump"}
  PROVE  ~Copying(calls \o Tail(todo))
<1> DEFINE t == Tail(todo)
           s == calls \o t
<1>1. /\ calls # <<>> => s # <<>> /\ s[1] = calls[1]
      /\ calls = <<>> => s = t
      /\ t # <<>> => t[1] = todo[2] /\ 2 \in 1..Len(todo)
  BY RangeTurns
<1> HIDE DEF t, s
<1>2. t # <<>> => t[1].op \notin {"openDst", "pump"}
  BY <1>1 DEF TodoOK
<1> QED BY <1>1, <1>2 DEF Copying, s, t

\* copyKids: a call for each entry.
LEMMA CpKids ==
  ASSUME Orderly, NEW p \in Shells, NEW n0, NEW a \in Seq(Names), NEW b \in Seq(Names), AreApart(a, b),
         CpRuns(run[p], node, n0, cwd[p], a, b), CopyKids(p)
  PROVE  CpRuns(run'[p], node', n0, cwd[p], a, b)
<1> DEFINE i == Lookup(node, cwd[p], A(p))
           calls(q) == [k \in 1..Len(q) |-> Call("copyAny", ChildPath(A(p), q[k]), ChildPath(B(p), q[k]))]
<1>1. Next1(p, "copyKids") /\ "copyKids" \notin FileOps /\ "copyAny" \in CopyOps
      /\ "copyAny" \in Ops \ {"openDst", "pump"} /\ "copyAny" \notin FileOps
  BY DEF CopyKids, FileOps, CopyOps, Ops
<1>2. PICK u \in Seq(Names) : CpAt(p, "copyKids", n0, a, b, u)
  BY <1>1, CpIsAt
<1>3. /\ A(p) = a \o u /\ B(p) = b \o u /\ A(p) # <<>> /\ About(run[p].todo[1], a, b, u)
      /\ \A q \in Seq(Names) : SeesTo(run[p].todo[1], a, b, q) => \E v \in Seq(Names) : q = u \o v
      /\ run[p].todo # <<>> /\ run[p] \in RunSet /\ run[p].args = <<>> /\ IsTree(node, Inodes)
      /\ A(p) \in Seq(Names) /\ B(p) \in Seq(Names) /\ cwd[p] \in Inodes /\ i \in Places
      /\ run[p].todo \in Seq(CallSet) /\ TodoOK(run[p].todo, run[p].src)
      /\ IsTree(n0, Inodes) /\ Keeps(n0, node)
  BY <1>1, <1>2 DEF CpAt, StandsAt
<1>4. CASE i \in Errors \/ ~IsDir(node, i)
  <2>1. Returns(p, Fail(run[p]), node)
    BY <1>4 DEF CopyKids
  <2> QED BY <2>1, CpFails
<1>5. CASE ~(i \in Errors \/ ~IsDir(node, i))
  <2>1. PICK o \in Orders(EntryNames(node, i)) : Returns(p, Instead(run[p], calls(o)), node)
    BY <1>5 DEF CopyKids
  <2>2. i \in Inodes /\ IsDir(node, i)
    BY <1>3, <1>5 DEF Places
  <2>3. o \in Seq(Names) /\ Range(o) = EntryNames(node, i)
    <3> HIDE DEF i
    <3> QED BY <1>3, <2>1, <2>2, OrdersOfEntries
  <2> DEFINE todo == calls(o)
             s == Instead(run[p], todo)
  <2>4. todo \in Seq(CallSet) /\ Len(todo) = Len(o)
        /\ \A k \in 1..Len(o) : todo[k] = Call("copyAny", ChildPath(A(p), o[k]), ChildPath(B(p), o[k]))
    <3>1. todo \in Seq(CallSet)
      <4>1. /\ A(p) \in Seq(Names) /\ B(p) \in Seq(Names) /\ o \in Seq(Names)
            /\ "copyAny" \in Ops \ {"openDst", "pump"}
        BY <1>1, <1>3, <2>3
      <4> QED BY <4>1, KidsOK
    <3>2. Len(o) \in Nat
      BY <2>3
    <3> QED BY <3>1, <3>2
  <2>5. ASSUME NEW k \in 1..Len(o)
        PROVE  /\ o[k] \in Names /\ Append(u, o[k]) \in Seq(Names)
               /\ todo[k].op = "copyAny" /\ About(todo[k], a, b, Append(u, o[k]))
    <3> DEFINE x == ChildPath(A(p), o[k])
               y == ChildPath(B(p), o[k])
    <3>1. o[k] \in Names
      BY <2>3, ElementOfSeq
    <3>2. x \in Seq(Names) /\ y \in Seq(Names) /\ todo[k] = Call("copyAny", x, y)
      BY <1>3, <2>4, <3>1, ChildIsPath
    <3>3. x = a \o Append(u, o[k]) /\ y = b \o Append(u, o[k]) /\ Append(u, o[k]) \in Seq(Names)
      <4>1. /\ ChildPath(a \o u, o[k]) = a \o Append(u, o[k]) /\ ChildPath(b \o u, o[k]) = b \o Append(u, o[k])
            /\ Append(u, o[k]) \in Seq(Names)
        <5> HIDE DEF todo
        <5> QED BY <3>1, JoinedChild
      <4> QED BY <1>3, <4>1
    <3> HIDE DEF x, y, todo
    <3>4. todo[k].op = "copyAny" /\ todo[k].a = x /\ todo[k].b = y
      BY <1>1, <3>2, CallIs
    <3> QED BY <3>1, <3>3, <3>4 DEF About
  <2>6. Range(todo) = {todo[k] : k \in 1..Len(o)} /\ Range(o) = {o[k] : k \in 1..Len(o)}
    <3> HIDE DEF todo
    <3> QED BY <2>3, <2>4, RangeEquality
  <2>7. Returns(p, s, node)
    BY <2>1
  <2> HIDE DEF todo, calls
  <2>8. /\ s.args = <<>> /\ s.cmd = run[p].cmd /\ s.ret = run[p].ret /\ run[p].cut \subseteq s.cut
        /\ s.todo = todo \o Tail(run[p].todo)
    BY <1>3, <2>4, OnlyOne
  <2> HIDE DEF s
  <2>9. \A c \in Range(todo) : c.op \in CopyOps /\ \E q \in Seq(Names) : About(c, a, b, q)
    <3> TAKE c \in Range(todo)
    <3>1. PICK k \in 1..Len(o) : c = todo[k]
      BY <2>6
    <3>2. c.op = "copyAny" /\ About(c, a, b, Append(u, o[k])) /\ Append(u, o[k]) \in Seq(Names)
      BY <2>5, <3>1
    <3> QED BY <1>1, <3>2
  <2>10. Opened(s, node', cwd[p])
    <3>1. todo # <<>> => todo[1].op \notin {"openDst", "pump"}
      <4> SUFFICES ASSUME todo # <<>> PROVE todo[1].op \notin {"openDst", "pump"}
        OBVIOUS
      <4>1. 1 \in 1..Len(o)
        <5>1. Len(todo) \in Nat /\ Len(todo) > 0
          BY <2>4, EmptySeq
        <5> QED BY <5>1, <2>4
      <4> QED BY <4>1, <2>5
    <3>2. ~Copying(s.todo)
      BY <1>3, <2>4, <2>8, <3>1, NotCopying
    <3> QED BY <3>2 DEF Opened, Copying
  <2>11. ASSUME NEW q \in Seq(Names), IsFile(n0, cwd[p], a \o q), SeesTo(run[p].todo[1], a, b, q)
         PROVE  \E c \in Range(todo) : SeesTo(c, a, b, q)
    <3>1. PICK v \in Seq(Names) : q = u \o v
      BY <1>3, <2>11
    <3>2. a \o q = A(p) \o v
      <4>1. a \o q = (a \o u) \o v
        BY <3>1, ConcatAssociative
      <4> QED BY <4>1, <1>3
    <3>3. Found(n0, cwd[p], A(p) \o v) /\ n0[Lookup(n0, cwd[p], A(p) \o v)].kind = "file"
      BY <2>11, <3>2 DEF IsFile
    <3>4. v # <<>>
      <4> SUFFICES ASSUME v = <<>> PROVE FALSE
        OBVIOUS
      <4>1. A(p) \o <<>> = A(p)
        BY <1>3, JoinedPath
      <4>2. Found(n0, cwd[p], A(p)) /\ n0[Lookup(n0, cwd[p], A(p))].kind = "file"
        BY <3>3, <4>1
      <4>3. i = Lookup(n0, cwd[p], A(p))
        <5>1. Lookup(node, cwd[p], A(p)) = Lookup(n0, cwd[p], A(p))
          <6>1. /\ IsTree(n0, Inodes) /\ IsTree(node, Inodes) /\ Keeps(n0, node) /\ cwd[p] \in Inodes
                /\ A(p) \in Seq(Names) /\ Found(n0, cwd[p], A(p))
            BY <1>3, <4>2
          <6> QED BY <6>1, KeptIsFound
        <5> QED BY <5>1
      <4> HIDE DEF i
      <4>4. Linked(n0, i)
        BY <1>3, <4>2, <4>3, FoundIsEntry
      <4>5. node[i].kind = n0[i].kind
        BY <1>3, <2>2, <4>4 DEF Keeps
      <4> QED BY <2>2, <4>2, <4>3, <4>5 DEF IsDir
    <3> DEFINE x == Head(v)
               t == Tail(v)
    <3>5. x \in Names /\ t \in Seq(Names) /\ q = Append(u, x) \o t
      BY <3>1, <3>4, GoesOn
    <3>6. Found(node, cwd[p], A(p) \o v)
      <4>1. A(p) \o v \in Seq(Names)
        BY <1>3, JoinedPath
      <4> QED BY <1>3, <3>3, <4>1, KeptIsFound
    <3>7. x \in EntryNames(node, i)
      BY <1>3, <3>4, <3>6, NextOnTheWay
    <3> HIDE DEF x, t, i
    <3>8. PICK k \in 1..Len(o) : x = o[k]
      BY <2>3, <2>6, <3>7
    <3>9. SeesTo(todo[k], a, b, q)
      BY <1>1, <2>5, <3>5, <3>8 DEF SeesTo
    <3> QED BY <2>6, <3>9
  <2>12. WritesAt(node, node, cwd[p], b \o u)
    BY WritesNothing
  <2> HIDE DEF i
  <2> QED BY <1>3, <2>4, <2>7, <2>8, <2>9, <2>10, <2>11, <2>12, CpGoesOn
<1> QED BY <1>4, <1>5

\* openSrc: the source is open, whatever it is.
LEMMA CpOpenSrc ==
  ASSUME Orderly, NEW p \in Shells, NEW n0, NEW a \in Seq(Names), NEW b \in Seq(Names), AreApart(a, b),
         CpRuns(run[p], node, n0, cwd[p], a, b), OpenSrc(p)
  PROVE  CpRuns(run'[p], node', n0, cwd[p], a, b)
<1> DEFINE i == Lookup(node, cwd[p], A(p))
           c == Call("openDst", A(p), B(p))
           r == Instead(run[p], <<c>>)
           s == [r EXCEPT !.src = i]
<1>1. Next1(p, "openSrc") /\ "openSrc" \in FileOps /\ "openDst" \in FileOps /\ "openDst" \in CopyOps
      /\ "openDst" \in Ops
  BY DEF OpenSrc, FileOps, CopyOps, Ops
<1>2. PICK u \in Seq(Names) : CpAt(p, "openSrc", n0, a, b, u)
  BY <1>1, CpIsAt
<1>3. /\ A(p) = a \o u /\ B(p) = b \o u /\ About(run[p].todo[1], a, b, u)
      /\ \A q \in Seq(Names) : SeesTo(run[p].todo[1], a, b, q) => q = u
      /\ run[p].todo # <<>> /\ run[p] \in RunSet /\ run[p].args = <<>> /\ IsTree(node, Inodes)
      /\ A(p) \in Seq(Names) /\ B(p) \in Seq(Names) /\ cwd[p] \in Inodes /\ i \in Places
  BY <1>1, <1>2 DEF CpAt, StandsAt
<1>4. CASE i \in Errors
  <2>1. Returns(p, Fail(run[p]), node)
    BY <1>4 DEF OpenSrc
  <2> QED BY <2>1, CpFails
<1>5. CASE i \notin Errors
  <2>1. Returns(p, s, node)
    BY <1>5 DEF OpenSrc
  <2>2. i \in Inodes
    BY <1>3, <1>5 DEF Places
  <2>3. Lookup(node', cwd[p], A(p)) = i
    <3>1. Found(node, cwd[p], A(p))
      BY <2>2 DEF Found
    <3> HIDE DEF s
    <3> QED BY <1>3, <2>1, <3>1, SameFound
  <2> HIDE DEF i
  <2>4. c \in CallSet
    BY <1>1, <1>3, CallIs
  <2> HIDE DEF c
  <2>5. <<c>> \in Seq(CallSet)
    BY <2>4
  <2>6. /\ r = [run[p] EXCEPT !.todo = <<c>> \o Tail(@)]
        /\ r.args = <<>> /\ r.cmd = run[p].cmd /\ r.ret = run[p].ret /\ r.todo = <<c>> \o Tail(run[p].todo)
        /\ r.cut = run[p].cut
    BY <1>3, <2>5, OnlyOne
  <2>7. DOMAIN r = {"cmd", "args", "todo", "ret", "src", "dst", "cut"}
    <3> HIDE DEF r
    <3> QED BY <1>3, <2>6 DEF RunSet
  <2> HIDE DEF r
  <2>8. s.args = r.args /\ s.cmd = r.cmd /\ s.ret = r.ret /\ s.todo = r.todo /\ s.src = i /\ s.cut = r.cut
    BY <2>7
  <2> HIDE DEF s
  <2>9. /\ s.args = <<>> /\ s.cmd = run[p].cmd /\ s.ret = run[p].ret /\ run[p].cut \subseteq s.cut
        /\ s.todo = <<Call("openDst", a \o u, b \o u)>> \o Tail(run[p].todo)
        /\ s.src = Lookup(node', cwd[p], a \o u)
    BY <1>3, <2>3, <2>6, <2>8 DEF c
  <2>10. \A q \in Seq(Names) : IsFile(n0, cwd[p], a \o q) /\ SeesTo(run[p].todo[1], a, b, q) =>
           IF "openDst" \in FileOps THEN q = u ELSE \E v \in Seq(Names) : q = u \o v
    BY <1>1, <1>3
  <2>11. WritesAt(node, node, cwd[p], b \o u) /\ "openDst" # "pump"
    BY WritesNothing
  <2> QED BY <1>1, <1>3, <2>1, <2>9, <2>10, <2>11, CpTurns
<1> QED BY <1>4, <1>5

\* A path leads nowhere for one of two reasons.
LEMMA LostHow ==
  ASSUME NEW n, NEW d \in Inodes, NEW path \in Seq(Names)
  PROVE  Lookup(n, d, path) \in Inodes \cup {"ENOENT", "ENOTDIR"}
<1> DEFINE Good == Inodes \cup {"ENOENT", "ENOTDIR"}
           at(k) == Lookup(n, d, Upto(path, k))
           Bad == {k \in Nat : k <= Len(path) /\ at(k) \notin Good}
<1>1. Len(path) \in Nat /\ d \in Places
  BY DEF Places
<1>2. /\ at(0) = d /\ at(Len(path)) = Lookup(n, d, path)
      /\ \A k \in 0..Len(path) : at(k) \in Places
      /\ \A k \in 1..Len(path) : at(k) = Component(n, at(k - 1), path[k])
  BY <1>1, LookupSteps
<1> HIDE DEF at
<1>3. Bad = {}
  <2> SUFFICES ASSUME Bad # {} PROVE FALSE
    OBVIOUS
  <2>1. PICK m \in Bad : \A x \in Bad : m <= x
    <3>1. Bad \subseteq Nat
      OBVIOUS
    <3> HIDE DEF Bad
    <3> QED BY <3>1, LeastExists
  <2>2. m # 0
    BY <1>2, <2>1
  <2>3. m - 1 \in Nat /\ m - 1 <= Len(path) /\ m - 1 \notin Bad /\ m \in 1..Len(path) /\ m - 1 \in 0..Len(path)
    BY <1>1, <2>1, <2>2
  <2>4. at(m - 1) \in Good /\ at(m - 1) \in Places
    BY <1>2, <2>3
  <2>5. at(m) = Component(n, at(m - 1), path[m])
    BY <1>2, <2>3
  <2>6. Component(n, at(m - 1), path[m]) \in Good
    <3> DEFINE i == at(m - 1)
    <3>1. i \in Places /\ (i \in Inodes \/ i \in {"ENOENT", "ENOTDIR"})
      BY <2>4
    <3> HIDE DEF i
    <3>2. i \in Inodes => Component(n, i, path[m]) \in Good
      BY <3>1, ComponentIsPlace
    <3>3. i \in {"ENOENT", "ENOTDIR"} => Component(n, i, path[m]) \in Good
      <4>1. i \in {"ENOENT", "ENOTDIR"} => i \in Errors
        BY DEF Errors
      <4> QED BY <3>1, <4>1, ComponentIsPlace
    <3> QED BY <3>1, <3>2, <3>3 DEF i
  <2> QED BY <2>1, <2>5, <2>6
<1>4. at(Len(path)) \in Good
  BY <1>1, <1>3
<1> QED BY <1>2, <1>4

\* What stands in the way of a new entry is there.
LEMMA ExistsIsFound ==
  ASSUME NEW n, NEW d \in Inodes, NEW path \in Seq(Names), path # <<>>, CannotCreate(n, d, path) = {"EEXIST"}
  PROVE  Found(n, d, path)
<1> DEFINE up == Parent(n, d, path)
           x == Last(path)
<1>1. d \in Places
  BY DEF Places
<1>2. Front(path) \in Seq(Names) /\ Lookup(n, d, path) = Component(n, up, x) /\ up = Lookup(n, d, Front(path))
      /\ up \in Places
  BY <1>1, LookupLast DEF Parent
<1>3. up \in Inodes \cup {"ENOENT", "ENOTDIR"}
  BY <1>2, LostHow
<1>4. up \notin Errors /\ IsDir(n, up) /\ x \in EntryNames(n, up)
  <2> HIDE DEF up, x
  <2>1. CannotCreate(n, d, path) =
          IF up \in Errors THEN {up}
          ELSE IF ~IsDir(n, up) THEN {"ENOTDIR"}
          ELSE IF x \in EntryNames(n, up) THEN {"EEXIST"}
          ELSE IF ~Linked(n, up) THEN {"ENOENT"}
          ELSE IF Free(n) = {} THEN {"ENOSPC"} ELSE {}
    BY DEF CannotCreate, up, x
  <2>2. up # "EEXIST"
    BY <1>3, FileAssumption DEF Errors
  <2> QED BY <2>1, <2>2
<1> HIDE DEF up, x
<1>5. up \in Inodes
  BY <1>2, <1>4 DEF Places
<1>6. Component(n, up, x) # "ENOENT"
  <2> DEFINE found == {i \in Entries(n, up) : n[i].name = x}
  <2>1. found # {}
    BY <1>4 DEF EntryNames
  <2>2. Component(n, up, x) = CHOOSE i \in found : TRUE
    BY <1>4, <2>1 DEF Component
  <2>3. Component(n, up, x) \in found
    BY <2>1, <2>2
  <2>4. "ENOENT" \notin Inodes
    BY FileAssumption DEF Errors
  <2> QED BY <2>3, <2>4 DEF Entries
<1>7. Component(n, up, x) \in Inodes
  BY <1>2, <1>4, <1>5, <1>6, ComponentIsPlace
<1> QED BY <1>2, <1>7 DEF Found

\* What is not a directory is a file, when a path leads to it.
LEMMA FilesOrDirs ==
  ASSUME NEW n, IsTree(n, Inodes), NEW d \in Inodes, NEW path \in Seq(Names), path # <<>>, Found(n, d, path)
  PROVE  n[Lookup(n, d, path)].kind \in {"dir", "file"}
<1> DEFINE i == Lookup(n, d, path)
<1>1. i \in Inodes \ {Root} /\ Linked(n, i)
  BY FoundIsEntry
<1> HIDE DEF i
<1>2. n[i].kind \in Kinds /\ n[i].kind # "none"
  BY <1>1 DEF IsTree, Nodes, Linked
<1> QED BY <1>2 DEF Kinds, i

\* openDst: the file at the destination is empty, and open.
LEMMA CpOpenDst ==
  ASSUME Orderly, NEW p \in Shells, NEW n0, NEW a \in Seq(Names), NEW b \in Seq(Names), AreApart(a, b),
         CpRuns(run[p], node, n0, cwd[p], a, b), OpenDst(p)
  PROVE  CpRuns(run'[p], node', n0, cwd[p], a, b)
<1> DEFINE d == cwd[p]
           i == Lookup(node, d, B(p))
           no == CannotCreate(node, d, B(p))
           m == IF no = {} THEN Create(node, d, B(p), "file") ELSE [node EXCEPT ![i].data = Empty]
           c == Call("pump", A(p), B(p))
           r == Instead(run[p], <<c>>)
           to == Lookup(m, d, B(p))
           s == [r EXCEPT !.dst = to]
           h == Held(run', cwd)
<1>1. /\ Next1(p, "openDst") /\ "openDst" \in FileOps /\ "pump" \in FileOps /\ "pump" \in CopyOps
      /\ "pump" \in Ops
  BY DEF OpenDst, FileOps, CopyOps, Ops
<1>2. PICK u \in Seq(Names) : CpAt(p, "openDst", n0, a, b, u)
  BY <1>1, CpIsAt
<1>3. /\ A(p) = a \o u /\ B(p) = b \o u /\ About(run[p].todo[1], a, b, u) /\ A(p) # <<>> /\ B(p) # <<>>
      /\ \A q \in Seq(Names) : SeesTo(run[p].todo[1], a, b, q) => q = u
      /\ run[p].todo # <<>> /\ run[p] \in RunSet /\ run[p].args = <<>> /\ IsTree(node, Inodes)
      /\ A(p) \in Seq(Names) /\ B(p) \in Seq(Names) /\ d \in Inodes
  BY <1>1, <1>2 DEF CpAt, StandsAt
<1>4. run[p].src = Lookup(node, d, A(p)) /\ run[p].src \in Inodes
  <2>1. run[p].todo[1].a = A(p) /\ run[p].todo[1].op = "openDst" /\ Opened(run[p], node, d)
    BY <1>2, <1>3 DEF CpAt, About
  <2>2. run[p].src \in Inodes
    BY <1>1, AtHand
  <2> QED BY <1>3, <2>1, <2>2 DEF Opened, Copying
<1>5. CASE no \notin {{}, {"EEXIST"}} \/ (no = {"EEXIST"} /\ IsDir(node, i))
  <2>1. Returns(p, Fail(run[p]), node)
    BY <1>5 DEF OpenDst
  <2> QED BY <2>1, CpFails
<1>6. CASE ~(no \notin {{}, {"EEXIST"}} \/ (no = {"EEXIST"} /\ IsDir(node, i)))
  <2>1. Returns(p, s, m)
    BY <1>6 DEF OpenDst
  <2>2. /\ IsTree(m, Inodes) /\ WritesAt(node, m, d, B(p)) /\ Found(m, d, B(p))
        /\ m[to].kind # "dir"
    <3>1. CASE no = {}
      <4> DEFINE k == Create(node, d, B(p), "file")
      <4>1. /\ IsTree(k, Inodes) /\ WritesAt(node, k, d, B(p)) /\ Found(k, d, B(p))
            /\ k[Lookup(k, d, B(p))].kind = "file"
        <5> HIDE DEF d
        <5> QED BY <1>3, <3>1, CreatesAt DEF no
      <4>2. m = k
        BY <3>1
      <4> HIDE DEF k, m
      <4> QED BY <4>1, <4>2 DEF to
    <3>2. CASE no # {}
      <4> DEFINE k == [node EXCEPT ![i].data = Empty]
      <4>1. no = {"EEXIST"} /\ ~IsDir(node, i)
        BY <1>6, <3>2
      <4>2. Found(node, d, B(p))
        <5> HIDE DEF d
        <5> QED BY <1>3, <4>1, ExistsIsFound DEF no
      <4>3. /\ IsTree(k, Inodes) /\ WritesAt(node, k, d, B(p)) /\ Found(k, d, B(p))
            /\ Lookup(k, d, B(p)) = i
        <5> DEFINE l == [node EXCEPT ![Lookup(node, d, B(p))].data = Empty]
        <5>1. k = l
          OBVIOUS
        <5> HIDE DEF k
        <5>2. /\ IsTree(l, Inodes) /\ WritesAt(node, l, d, B(p)) /\ Found(l, d, B(p))
              /\ Lookup(l, d, B(p)) = Lookup(node, d, B(p))
          <6> HIDE DEF d
          <6>1. IsTree(node, Inodes) /\ d \in Inodes /\ B(p) \in Seq(Names) /\ Empty \in Data
            BY <1>3, FileAssumption
          <6> QED BY <6>1, <4>2, FillsAt
        <5> HIDE DEF l
        <5> QED BY <5>1, <5>2
      <4>4. k[i].kind = node[i].kind
        <5>1. i \in Inodes /\ node \in [Inodes -> Nodes]
          BY <1>3, <4>2 DEF Found, IsTree
        <5> HIDE DEF i
        <5> QED BY <5>1 DEF Nodes
      <4>5. m = k
        BY <3>2
      <4> HIDE DEF k, m
      <4> QED BY <4>1, <4>3, <4>4, <4>5 DEF to, IsDir
    <3> QED BY <3>1, <3>2
  <2> HIDE DEF m, to
  <2>3. /\ node' = Tidy(m, h)
        /\ Found(node', d, B(p)) /\ Lookup(node', d, B(p)) = to /\ to \in Inodes /\ ~IsDir(node', to)
    <3>1. node' = Tidy(m, h)
      BY <2>1 DEF Returns
    <3> HIDE DEF s, h, d
    <3>2. Found(node', d, B(p)) /\ Lookup(node', d, B(p)) = to
      BY <1>3, <2>2, <3>1, TidyFinds DEF to
    <3>3. to \in Inodes /\ Linked(m, to)
      BY <1>3, <2>2, FoundIsEntry DEF to
    <3>4. node'[to] = m[to]
      BY <2>2, <3>1, <3>3, TidyTree
    <3> QED BY <2>2, <3>1, <3>2, <3>3, <3>4 DEF IsDir
  <2>4. Lookup(node', d, A(p)) = run[p].src
    <3> HIDE DEF s, h, d
    <3>1. Found(node, d, A(p))
      BY <1>4 DEF Found
    <3>2. Lookup(m, d, A(p)) = Lookup(node, d, A(p)) /\ Found(m, d, A(p))
      BY <1>3, <2>2, <3>1, KeptIsFound DEF WritesAt
    <3>3. Lookup(node', d, A(p)) = Lookup(m, d, A(p))
      <4>1. IsTree(m, Inodes) /\ d \in Inodes /\ A(p) \in Seq(Names) /\ node' = Tidy(m, h)
        BY <1>3, <2>2, <2>3 DEF h
      <4> QED BY <4>1, <3>2, TidyFinds
    <3> QED BY <1>4, <3>2, <3>3
  <2>5. c \in CallSet
    BY <1>1, <1>3, CallIs
  <2> HIDE DEF c
  <2>6. <<c>> \in Seq(CallSet)
    BY <2>5
  <2>7. /\ r = [run[p] EXCEPT !.todo = <<c>> \o Tail(@)]
        /\ r.args = <<>> /\ r.cmd = run[p].cmd /\ r.ret = run[p].ret /\ r.todo = <<c>> \o Tail(run[p].todo)
        /\ r.src = run[p].src /\ r.cut = run[p].cut
    BY <1>3, <2>6, OnlyOne
  <2>8. DOMAIN r = {"cmd", "args", "todo", "ret", "src", "dst", "cut"}
    <3> HIDE DEF r
    <3> QED BY <1>3, <2>7 DEF RunSet
  <2> HIDE DEF r
  <2>9. /\ s.args = r.args /\ s.cmd = r.cmd /\ s.ret = r.ret /\ s.todo = r.todo /\ s.src = r.src /\ s.dst = to
        /\ s.cut = r.cut
    BY <2>8
  <2> HIDE DEF s
  <2>10. /\ s.args = <<>> /\ s.cmd = run[p].cmd /\ s.ret = run[p].ret /\ run[p].cut \subseteq s.cut
         /\ s.todo = <<Call("pump", a \o u, b \o u)>> \o Tail(run[p].todo)
         /\ s.src = Lookup(node', cwd[p], a \o u)
         /\ s.dst = Lookup(node', cwd[p], b \o u) /\ s.dst \in Inodes /\ ~IsDir(node', s.dst)
    BY <1>3, <2>3, <2>4, <2>7, <2>9 DEF c
  <2>11. \A q \in Seq(Names) : IsFile(n0, cwd[p], a \o q) /\ SeesTo(run[p].todo[1], a, b, q) =>
           IF "pump" \in FileOps THEN q = u ELSE \E v \in Seq(Names) : q = u \o v
    BY <1>1, <1>3
  <2>12. IsTree(m, Inodes) /\ WritesAt(node, m, cwd[p], b \o u)
    BY <1>3, <2>2
  <2> HIDE DEF d
  <2> QED BY <1>1, <1>3, <2>1, <2>10, <2>11, <2>12, CpTurns
<1> QED BY <1>5, <1>6

\* pump: the file at the destination is a copy, or one of those cut short.
LEMMA CpEnds ==
  ASSUME Orderly, NEW p \in Shells, NEW n0, NEW a \in Seq(Names), NEW b \in Seq(Names), AreApart(a, b),
         CpRuns(run[p], node, n0, cwd[p], a, b), Next1(p, "pump"),
         NEW k \in RunSet, k.args = run[p].args, k.cmd = run[p].cmd, k.ret = run[p].ret,
         k.todo = run[p].todo, run[p].cut \subseteq k.cut,
         NEW x \in Data, x = node[run[p].src].data \/ B(p) \in k.cut,
         Returns(p, Done(Shut(k)),
                 IF node[run[p].src].kind = "file" THEN [node EXCEPT ![run[p].dst].data = x] ELSE node)
  PROVE  CpRuns(run'[p], node', n0, cwd[p], a, b)
<1> DEFINE d == cwd[p]
           src == run[p].src
           dst == run[p].dst
           m == IF node[src].kind = "file" THEN [node EXCEPT ![dst].data = x] ELSE node
           r == Shut(k)
           s == Done(r)
           h == Held(run', cwd)
           todo == run[p].todo
<1>1. Next1(p, "pump") /\ "pump" \in FileOps
  BY DEF FileOps
<1>2. PICK u \in Seq(Names) : CpAt(p, "pump", n0, a, b, u)
  BY <1>1, CpIsAt
<1>3. /\ A(p) = a \o u /\ B(p) = b \o u /\ About(todo[1], a, b, u) /\ A(p) # <<>> /\ B(p) # <<>>
      /\ \A q \in Seq(Names) : SeesTo(todo[1], a, b, q) => q = u
      /\ todo # <<>> /\ run[p] \in RunSet /\ run[p].args = <<>> /\ IsTree(node, Inodes)
      /\ A(p) \in Seq(Names) /\ B(p) \in Seq(Names) /\ d \in Inodes
      /\ IsTree(n0, Inodes) /\ Keeps(n0, node) /\ KeptBelow(n0, node, d, a)
      /\ todo \in Seq(CallSet) /\ TodoOK(todo, run[p].src)
  BY <1>1, <1>2 DEF CpAt, StandsAt
<1>4. /\ src = Lookup(node, d, A(p)) /\ src \in Inodes
      /\ dst = Lookup(node, d, B(p)) /\ dst \in Inodes /\ ~IsDir(node, dst)
  <2>1. todo[1].a = A(p) /\ todo[1].b = B(p) /\ todo[1].op = "pump" /\ Opened(run[p], node, d)
    BY <1>2, <1>3 DEF CpAt, About
  <2>2. src \in Inodes
    BY <1>1, AtHand
  <2> QED BY <1>3, <2>1, <2>2 DEF Opened, Copying
<1>5. Returns(p, s, m)
  OBVIOUS
<1>6. Found(node, d, A(p)) /\ Found(node, d, B(p)) /\ node[dst].kind = "file"
  <2>1. Found(node, d, A(p)) /\ Found(node, d, B(p))
    BY <1>4 DEF Found
  <2> HIDE DEF d, dst
  <2>3. node[dst].kind \in {"dir", "file"}
    BY <1>3, <1>4, <2>1, FilesOrDirs
  <2> QED BY <1>4, <2>1, <2>3 DEF IsDir
<1>7. /\ IsTree(m, Inodes) /\ WritesAt(node, m, d, B(p)) /\ Found(m, d, B(p)) /\ Lookup(m, d, B(p)) = dst
      /\ m[dst].kind = "file" /\ (node[src].kind = "file" => m[dst].data = x)
  <2>1. CASE node[src].kind = "file"
    <3> DEFINE o == [node EXCEPT ![dst].data = x]
    <3>1. m = o
      BY <2>1
    <3>2. o[dst].kind = node[dst].kind
      <4>1. dst \in Inodes /\ node \in [Inodes -> Nodes]
        BY <1>3, <1>4 DEF IsTree
      <4> HIDE DEF dst
      <4> QED BY <4>1 DEF Nodes
    <3>3. /\ IsTree(o, Inodes) /\ WritesAt(node, o, d, B(p)) /\ Found(o, d, B(p)) /\ Lookup(o, d, B(p)) = dst
          /\ o[dst].data = x
      <4>1. /\ o = Filled(node, dst, x) /\ dst = Lookup(node, d, B(p)) /\ x \in Data
            /\ IsTree(node, Inodes) /\ d \in Inodes /\ B(p) \in Seq(Names) /\ Found(node, d, B(p))
        BY <1>3, <1>4, <1>6 DEF Filled
      <4> HIDE DEF d, dst, o, m, r, s, h, todo, src
      <4> QED BY <4>1, FillsThere
    <3> HIDE DEF o, m, d, dst
    <3> QED BY <1>6, <3>1, <3>2, <3>3
  <2>2. CASE node[src].kind # "file"
    <3>1. m = node
      BY <2>2
    <3> HIDE DEF m, d, dst, src
    <3> QED BY <1>3, <1>4, <1>6, <2>2, <3>1, WritesNothing
  <2> QED BY <2>1, <2>2
<1>8. /\ s.args = <<>> /\ s.cmd = run[p].cmd /\ s.ret = run[p].ret /\ s.todo = <<>> \o Tail(todo)
      /\ <<>> \in Seq(CallSet) /\ s.cut = k.cut
  <2>1. r \in RunSet /\ r.args = <<>> /\ r.cmd = run[p].cmd /\ r.ret = run[p].ret /\ r.todo = todo /\ r.cut = k.cut
    <3>1. NoFile \in Files0
      BY DEF Files0
    <3> QED BY <1>3, <3>1 DEF RunSet, Shut
  <2>2. s = Instead(r, <<>>)
    BY DEF Done
  <2> HIDE DEF r, s, todo
  <2>3. <<>> \in Seq(CallSet)
    OBVIOUS
  <2> DEFINE e == <<>>
  <2>4. s = Instead(r, e) /\ e \in Seq(CallSet)
    BY <2>2, <2>3
  <2> HIDE DEF e
  <2>5. s.args = <<>> /\ s.cmd = r.cmd /\ s.ret = r.ret /\ s.todo = e \o Tail(r.todo) /\ s.cut = r.cut
    BY <2>1, <2>4, OnlyOne
  <2> QED BY <2>1, <2>3, <2>5 DEF e
<1> HIDE DEF s, m, r
<1>9. node' = Tidy(m, h)
  BY <1>5 DEF Returns
<1> HIDE DEF h, d, dst, src, todo
<1>10. Found(node', d, B(p)) /\ Lookup(node', d, B(p)) = dst /\ node'[dst] = m[dst]
  <2>1. Found(node', d, B(p)) /\ Lookup(node', d, B(p)) = dst
    BY <1>3, <1>7, <1>9, TidyFinds
  <2>2. Linked(m, dst)
    BY <1>3, <1>7, FoundIsEntry
  <2> QED BY <1>4, <1>7, <1>9, <2>1, <2>2, TidyTree
<1>11. ASSUME NEW q \in Seq(Names), IsFile(n0, d, a \o q), SeesTo(todo[1], a, b, q)
       PROVE  Copied(n0, node', d, a, b, q) \/ b \o q \in s.cut
  <2>1. q = u /\ a \o q = A(p) /\ b \o q = B(p)
    BY <1>3, <1>11
  <2>2. Found(n0, d, A(p)) /\ n0[Lookup(n0, d, A(p))].kind = "file"
    BY <1>11, <2>1 DEF IsFile
  <2>3. src = Lookup(n0, d, A(p))
    <3>1. /\ IsTree(n0, Inodes) /\ IsTree(node, Inodes) /\ Keeps(n0, node) /\ d \in Inodes
          /\ A(p) \in Seq(Names)
      BY <1>3
    <3>2. Lookup(node, d, A(p)) = Lookup(n0, d, A(p))
      BY <2>2, <3>1, KeptIsFound
    <3> QED BY <1>4, <3>2
  <2>4. Linked(n0, src)
    BY <1>3, <2>2, <2>3, FoundIsEntry
  <2>5. node[src].kind = "file"
    BY <1>3, <1>4, <2>2, <2>3, <2>4 DEF Keeps
  <2> SUFFICES ASSUME b \o q \notin s.cut PROVE Copied(n0, node', d, a, b, q)
    OBVIOUS
  <2>8. x = node[src].data
    BY <1>8, <2>1 DEF src
  <2>6. node[src].data = n0[src].data
    BY <1>3, <2>1, <2>2, <2>3 DEF KeptBelow
  <2>7. node'[dst].kind = "file" /\ node'[dst].data = n0[src].data
    BY <1>7, <1>10, <2>5, <2>6, <2>8
  <2> QED BY <1>10, <2>1, <2>3, <2>7 DEF Copied, IsFile
<1>12. Opened(s, node', d)
  <2> DEFINE e == <<>>
  <2>1. e \in Seq(CallSet) /\ e = <<>> /\ s.todo = e \o Tail(todo)
    BY <1>8
  <2> HIDE DEF e
  <2>2. ~Copying(e \o Tail(todo))
    BY <1>3, <2>1, NotCopying
  <2> QED BY <2>1, <2>2 DEF Opened, Copying
<1>13. \A c \in Range(<<>>) : c.op \in CopyOps /\ \E q \in Seq(Names) : About(c, a, b, q)
  BY DEF Range
<1>14. WritesAt(node, m, d, b \o u)
  BY <1>3, <1>7
<1> DEFINE e == <<>>
<1>15. e \in Seq(CallSet) /\ s.todo = e \o Tail(todo) /\ \A c \in Range(e) : c.op \in CopyOps /\ \E q \in Seq(Names) : About(c, a, b, q)
  BY <1>8, <1>13
<1> HIDE DEF e
<1>16. /\ s.args = <<>> /\ s.cmd = run[p].cmd /\ s.ret = run[p].ret /\ run[p].cut \subseteq s.cut /\ s.todo = e \o Tail(run[p].todo)
       /\ run[p].todo # <<>> /\ About(run[p].todo[1], a, b, u) /\ Opened(s, node', cwd[p])
       /\ WritesAt(node, m, cwd[p], b \o u) /\ IsTree(m, Inodes)
  BY <1>3, <1>7, <1>8, <1>12, <1>14, <1>15 DEF d, todo
<1>17. \A q \in Seq(Names) : IsFile(n0, cwd[p], a \o q) /\ SeesTo(run[p].todo[1], a, b, q) =>
         Copied(n0, node', cwd[p], a, b, q) \/ b \o q \in s.cut \/ \E c \in Range(e) : SeesTo(c, a, b, q)
  BY <1>11 DEF d, todo
<1> QED BY <1>5, <1>15, <1>16, <1>17, CpGoesOn

LEMMA CpPump ==
  ASSUME Orderly, NEW p \in Shells, NEW n0, NEW a \in Seq(Names), NEW b \in Seq(Names), AreApart(a, b),
         CpRuns(run[p], node, n0, cwd[p], a, b), Pump(p)
  PROVE  CpRuns(run'[p], node', n0, cwd[p], a, b)
<1> DEFINE x == node[run[p].src].data
<1>1. /\ Next1(p, "pump")
      /\ Returns(p, Done(Shut(run[p])),
                 IF node[run[p].src].kind = "file" THEN [node EXCEPT ![run[p].dst].data = x] ELSE node)
  BY DEF Pump
<1>2. run[p] \in RunSet /\ x \in Data
  BY <1>1, AtHand DEF IsTree, Nodes
<1> HIDE DEF x
<1>3. x = node[run[p].src].data
  BY DEF x
<1> QED BY <1>1, <1>2, <1>3, CpEnds

\* A copy that breaks off is an error, or one of those cut short.
LEMMA CpBreaksOff ==
  ASSUME Orderly, NEW p \in Shells, NEW n0, NEW a \in Seq(Names), NEW b \in Seq(Names), AreApart(a, b),
         CpRuns(run[p], node, n0, cwd[p], a, b), WriteFails(p) \/ CopyCutShort(p)
  PROVE  CpRuns(run'[p], node', n0, cwd[p], a, b)
<1> DEFINE k == [run[p] EXCEPT !.cut = @ \cup {B(p)}]
           m(x) == [node EXCEPT ![run[p].dst].data = x]
<1>1. Next1(p, "pump") /\ node[run[p].src].kind = "file"
  BY DEF WriteFails, CopyCutShort, BreaksOff
<1>2. CASE WriteFails(p)
  <2>1. PICK x \in Data : Returns(p, Fail(run[p]), m(x))
    BY <1>2, FileAssumption DEF WriteFails, WriteError, BreaksOff
  <2>2. PICK u \in Seq(Names) : CpAt(p, "pump", n0, a, b, u)
    BY <1>1, CpIsAt
  <2>3. /\ B(p) = b \o u /\ About(run[p].todo[1], a, b, u) /\ run[p].todo[1].op = "pump"
        /\ IsTree(node, Inodes) /\ B(p) \in Seq(Names) /\ cwd[p] \in Inodes
        /\ Opened(run[p], node, cwd[p]) /\ run[p].todo # <<>>
    BY <2>2 DEF CpAt, StandsAt
  <2>4. run[p].dst = Lookup(node, cwd[p], B(p)) /\ Found(node, cwd[p], B(p))
    BY <2>3 DEF Opened, About, Found
  <2>5. IsTree(m(x), Inodes) /\ WritesAt(node, m(x), cwd[p], b \o u)
    <3> DEFINE l == [node EXCEPT ![Lookup(node, cwd[p], B(p))].data = x]
    <3>1. m(x) = l
      BY <2>4
    <3>2. IsTree(l, Inodes) /\ WritesAt(node, l, cwd[p], B(p))
      BY <2>3, <2>4, FillsAt
    <3> QED BY <2>3, <3>1, <3>2
  <2> HIDE DEF m
  <2> QED BY <2>1, <2>5, CpFailsAt
<1>3. CASE CopyCutShort(p)
  <2>1. PICK x \in Data : Returns(p, Done(Shut(k)), m(x))
    BY <1>3, FileAssumption DEF CopyCutShort, BreaksOff
  <2>2. /\ k \in RunSet /\ k.args = run[p].args /\ k.cmd = run[p].cmd /\ k.ret = run[p].ret
        /\ k.todo = run[p].todo /\ run[p].cut \subseteq k.cut /\ B(p) \in k.cut
    <3>1. RunOK(run[p]) /\ B(p) \in Seq(Names)
      BY <1>1, AtHand
    <3>2. /\ RunOK(k) /\ k.cmd = run[p].cmd /\ k.args = run[p].args /\ k.todo = run[p].todo
          /\ k.ret = run[p].ret /\ k.cut = run[p].cut \cup {B(p)}
      BY <3>1, CutOK
    <3> QED BY <3>2 DEF RunOK, RunParts
  <2> HIDE DEF k
  <2>3. Returns(p, Done(Shut(k)), IF node[run[p].src].kind = "file" THEN m(x) ELSE node)
    BY <1>1, <2>1
  <2> QED BY <1>1, <2>2, <2>3, CpEnds
<1> QED BY <1>2, <1>3

\* A path from what a path leads to.
LEMMA LookupJoins ==
  ASSUME NEW n, NEW d \in Places, NEW a \in Seq(Names), NEW q \in Seq(Names)
  PROVE  Lookup(n, Lookup(n, d, a), q) = Lookup(n, d, a \o q)
<1> DEFINE y == a \o q
           i == Lookup(n, d, a)
           f == [k \in 0..Len(q) |-> Lookup(n, d, Upto(y, Len(a) + k))]
<1>1. /\ y \in Seq(Names) /\ Len(y) = Len(a) + Len(q) /\ Upto(y, Len(a)) = a
      /\ \A k \in 1..Len(q) : y[Len(a) + k] = q[k]
  BY JoinedPath
<1>2. Len(a) \in Nat /\ Len(q) \in Nat
  OBVIOUS
<1> HIDE DEF y
<1>3. /\ Lookup(n, d, Upto(y, Len(y))) = Lookup(n, d, y)
      /\ \A k \in 0..Len(y) : Lookup(n, d, Upto(y, k)) \in Places
      /\ \A k \in 1..Len(y) : Lookup(n, d, Upto(y, k)) = Component(n, Lookup(n, d, Upto(y, k - 1)), y[k])
  BY <1>1, LookupSteps
<1>4. i \in Places
  BY LookupSteps
<1>5. f[0] = i
  BY <1>1, <1>2
<1>6. ASSUME NEW k \in 1..Len(q) PROVE f[k] = Component(n, f[k - 1], q[k])
  <2>1. Len(a) + k \in 1..Len(y) /\ (Len(a) + k) - 1 = Len(a) + (k - 1) /\ k \in 0..Len(q) /\ k - 1 \in 0..Len(q)
    BY <1>1, <1>2
  <2> DEFINE l == Len(a) + k
  <2>2. Lookup(n, d, Upto(y, l)) = Component(n, Lookup(n, d, Upto(y, l - 1)), y[l])
    BY <1>3, <2>1
  <2>3. f[k] = Lookup(n, d, Upto(y, l)) /\ f[k - 1] = Lookup(n, d, Upto(y, l - 1)) /\ y[l] = q[k]
    BY <1>1, <2>1
  <2> QED BY <2>2, <2>3
<1>7. f \in [0..Len(q) -> Places]
  <2> SUFFICES ASSUME NEW k \in 0..Len(q) PROVE Lookup(n, d, Upto(y, Len(a) + k)) \in Places
    OBVIOUS
  <2>1. Len(a) + k \in 0..Len(y)
    BY <1>1, <1>2
  <2> QED BY <1>3, <2>1
<1>8. f[Len(q)] = Lookup(n, d, y)
  <2>1. Len(q) \in 0..Len(q)
    BY <1>2
  <2> QED BY <1>1, <1>3, <2>1
<1> HIDE DEF f
<1>9. Walk(f, n, i, q)
  <2>1. \A k \in 0..Len(q) : f[k] = IF k = 0 THEN i ELSE Component(n, f[k - 1], q[k])
    <3> TAKE k \in 0..Len(q)
    <3>1. k = 0 \/ k \in 1..Len(q)
      BY <1>2
    <3> QED BY <3>1, <1>5, <1>6, <1>2
  <2>2. f = [k \in 0..Len(q) |-> IF k = 0 THEN i ELSE Component(n, f[k - 1], q[k])]
    BY <1>7, <2>1
  <2> QED BY <2>2 DEF Walk
<1> HIDE DEF i
<1>10. PICK w \in [0..Len(q) -> Places] : Walk(w, n, i, q) /\ Lookup(n, i, q) = w[Len(q)]
  BY <1>4, LookupIsWalk
<1>11. f[Len(q)] = w[Len(q)]
  BY <1>2, <1>9, <1>10, WalkIsUnique
<1> QED BY <1>8, <1>10, <1>11 DEF y, i

LEMMA CpStarts ==
  ASSUME NEW c \in CommandLines, c.name = "cp", \A arg \in Range(c.args) : OperandOK(c, arg),
         NEW n, IsTree(n, Inodes), NEW d \in Inodes, AreApart(c.args[1][1], c.args[1][2]),
         Load([AtRest(c, 0) EXCEPT !.args = c.args]) \in RunSet
  PROVE  CpRuns(Load([AtRest(c, 0) EXCEPT !.args = c.args]), n, n, d, c.args[1][1], c.args[1][2])
<1> DEFINE s == Load([AtRest(c, 0) EXCEPT !.args = c.args])
           a == c.args[1][1]
           b == c.args[1][2]
           op == IF Has(c, "r") THEN "copyAny" ELSE "openSrc"
           x == Call(op, a, b)
           todo == <<x>>
<1>1. /\ s.cmd = c /\ s.ret = 0 /\ (s.todo = <<>> => Len(c.args) = 0 /\ Taken(s) = 0)
      /\ s.todo # <<>> =>
           /\ Taken(s) = 1 /\ 1 \in 1..Len(c.args)
           /\ Now(s) \in Seq(Seq(Names)) /\ OperandOK(c, Now(s)) /\ s.todo = Calls(c, Now(s))
  BY StartsInLine
<1>2. Len(c.args) = 1
  BY DEF CommandLines
<1> HIDE DEF s
<1>3. /\ s.todo # <<>> /\ Taken(s) = 1 /\ Now(s) = c.args[1]
      /\ c.args[1] \in Seq(Seq(Names)) /\ OperandOK(c, c.args[1]) /\ s.todo = Calls(c, c.args[1])
  BY <1>1, <1>2 DEF Now
<1>4. s.args = <<>>
  <2>1. s.args \in Seq(Seq(Seq(Names)))
    BY DEF RunSet, s
  <2>2. Len(s.args) \in Nat /\ Len(s.args) = 0
    BY <1>1, <1>2, <1>3, <2>1 DEF Taken
  <2> QED BY <2>1, <2>2, EmptySeq
<1>5. a \in Seq(Names) /\ b \in Seq(Names) /\ a # <<>> /\ b # <<>>
  <2>1. Len(c.args[1]) = 2 /\ <<>> \notin Range(c.args[1])
    BY <1>3 DEF OperandOK
  <2>2. 1 \in 1..Len(c.args[1]) /\ 2 \in 1..Len(c.args[1])
    BY <2>1
  <2>3. a \in Range(c.args[1]) /\ b \in Range(c.args[1])
    BY <1>3, <2>2, RangeEquality
  <2> QED BY <1>3, <2>1, <2>2, <2>3, ElementOfSeq
<1>6. s.todo = todo
  <2> HIDE DEF s
  <2> QED BY <1>3 DEF Calls, CpRun
<1> HIDE DEF a, b
<1>7. op \in CopyOps /\ op \in Ops /\ op \notin {"openDst", "pump"}
      /\ (op \in FileOps => ~Has(c, "r")) /\ (op \notin FileOps => op = "copyAny")
  BY DEF CopyOps, Ops, FileOps
<1> HIDE DEF op
<1>8. x \in CallSet /\ x.op = op /\ x.a = a /\ x.b = b
  BY <1>5, <1>7, CallIs
<1> HIDE DEF x
<1>9. todo # <<>> /\ todo[1] = x /\ Range(todo) = {x}
  BY DEF Range
<1> HIDE DEF todo
<1>10. <<>> \in Seq(Names) /\ a \o <<>> = a /\ b \o <<>> = b
  BY <1>5, JoinedPath
<1>11. About(x, a, b, <<>>)
  BY <1>8, <1>10 DEF About
<1>12. Opened(s, n, d)
  BY <1>6, <1>7, <1>8, <1>9 DEF Opened, Copying
<1>13. ASSUME IsDir(n, Lookup(n, d, a)) => Has(c, "r"), NEW q \in Seq(Names), IsFile(n, d, a \o q)
       PROVE  SeesTo(x, a, b, q)
  <2>1. CASE op \in FileOps
    <3>1. q = <<>>
      <4> SUFFICES ASSUME q # <<>> PROVE FALSE
        OBVIOUS
      <4>1. Keeps(n, n) /\ Found(n, d, a \o q)
        BY <1>13 DEF Keeps, IsFile
      <4>2. IsDir(n, Lookup(n, d, a))
        BY <1>5, <4>1, IsOnTheWay
      <4> QED BY <1>7, <1>13, <2>1, <4>2
    <3> QED BY <1>8, <1>11, <2>1, <3>1 DEF SeesTo
  <2>2. CASE op \notin FileOps
    <3>1. q = <<>> \o q
      BY ConcatEmptySeq
    <3> QED BY <1>8, <1>10, <1>11, <2>2, <3>1 DEF SeesTo
  <2> QED BY <2>1, <2>2
<1>14. Keeps(n, n) /\ KeptBelow(n, n, d, a)
  BY DEF Keeps, KeptBelow
<1>15. CpRuns(s, n, n, d, a, b)
  BY <1>1, <1>4, <1>6, <1>7, <1>8, <1>9, <1>10, <1>11, <1>12, <1>13, <1>14 DEF CpRuns, Covers
<1> QED BY <1>15 DEF s, a, b

LEMMA CpActs ==
  ASSUME Orderly, NEW p \in Shells, Step(p), run[p].todo # <<>>,
         NEW n0, NEW a \in Seq(Names), NEW b \in Seq(Names), AreApart(a, b),
         CpRuns(run[p], node, n0, cwd[p], a, b)
  PROVE  CpRuns(run'[p], node', n0, cwd[p], a, b) /\ cwd' = cwd /\ ~Start(p)
<1> DEFINE op == Head(run[p].todo).op
<1>1. op \in CopyOps
  <2>1. run[p].todo \in Seq(CallSet) /\ <<>> \in Seq(CallSet)
    BY DEF Orderly, RunSet
  <2>2. run[p].todo[1] \in Range(run[p].todo) /\ Head(run[p].todo) = run[p].todo[1]
    BY <2>1, RangeTurns
  <2> QED BY <2>2 DEF CpRuns
<1>2. \A o : Next1(p, o) => o \in CopyOps
  BY <1>1 DEF Next1
<1>3. ~Start(p)
  BY DEF Start, Busy
<1>4. \/ CopyAny(p) \/ CopyDir(p) \/ CopyKids(p) \/ OpenSrc(p) \/ OpenDst(p)
      \/ Pump(p) \/ WriteFails(p) \/ CopyCutShort(p)
  <2>1. ~Next1(p, "unlink") /\ ~Next1(p, "rmAny") /\ ~Next1(p, "rmKids") /\ ~Next1(p, "mkdir") /\ ~Next1(p, "mkdirOk")
    BY <1>2 DEF CopyOps
  <2>2. ~Next1(p, "rmdir") /\ ~Next1(p, "rmdirUp") /\ ~Next1(p, "rename") /\ ~Next1(p, "utime")
    BY <1>2 DEF CopyOps
  <2>3. ~Next1(p, "create") /\ ~Next1(p, "chdir") /\ ~Next1(p, "show")
    BY <1>2 DEF CopyOps
  <2>4. ~RmUnlink(p) /\ ~RmAny(p) /\ ~RmKids(p) /\ ~MkDir(p, "mkdir") /\ ~MkDir(p, "mkdirOk")
    BY <2>1 DEF RmUnlink, RmAny, RmKids, MkDir
  <2>5. ~RmDir(p) /\ ~RmDirUp(p) /\ ~Rename(p) /\ ~Utime(p)
    BY <2>2 DEF RmDir, RmDirUp, Rename, Utime
  <2>6. ~TouchCreate(p) /\ ~ChDir(p) /\ ~Show(p)
    BY <2>3 DEF TouchCreate, ChDir, Show
  <2> QED BY <1>3, <2>4, <2>5, <2>6 DEF Step
<1>5. cwd' = cwd
  <2>1. ~Next1(p, "chdir")
    BY <1>2 DEF CopyOps
  <2>2. ~ChDir(p)
    BY <2>1 DEF ChDir
  <2> QED BY <2>2, OthersWait
<1> QED BY <1>3, <1>4, <1>5, CpAny, CpDir, CpKids, CpOpenSrc, CpOpenDst, CpPump, CpBreaksOff

\* A cp that no other shell has disturbed.
CpWell(r, n, n0, d) ==
  LET arg == r.cmd.args[1] IN
  AreApart(arg[1], arg[2]) => CpRuns(r, n, n0, d, arg[1], arg[2])
CpInv == \A p \in Shells : run[p].cmd.name = "cp" /\ alone[p] =>
           /\ LineOK(run[p].cmd) /\ run[p].cmd \in CommandLines
           /\ CpWell(run[p], node, before[p], cwd[p])

\* The operands of cp.
LEMMA CpOperands ==
  ASSUME NEW c \in CommandLines, c.name = "cp", LineOK(c)
  PROVE  /\ Len(c.args) = 1 /\ c.args \in Seq(Seq(Seq(Names)))
         /\ c.args[1][1] \in Seq(Names) /\ c.args[1][2] \in Seq(Names)
         /\ c.args[1][1] # <<>> /\ c.args[1][2] # <<>>
<1>1. Len(c.args) = 1 /\ c.args \in Seq(Seq(Seq(Names)))
  BY DEF CommandLines
<1>2. 1 \in 1..Len(c.args)
  BY <1>1
<1> DEFINE arg == c.args[1]
<1>3. arg \in Seq(Seq(Names)) /\ OperandOK(c, arg)
  BY <1>1, <1>2, ElementOfSeq DEF LineOK
<1> HIDE DEF arg
<1>4. Len(arg) = 2 /\ <<>> \notin Range(arg)
  BY <1>3 DEF OperandOK
<1>5. 1 \in 1..Len(arg) /\ 2 \in 1..Len(arg)
  BY <1>4
<1>6. arg[1] \in Range(arg) /\ arg[2] \in Range(arg)
  BY <1>3, <1>5, RangeEquality
<1>7. arg[1] \in Seq(Names) /\ arg[2] \in Seq(Names) /\ arg[1] # <<>> /\ arg[2] # <<>>
  BY <1>3, <1>4, <1>5, <1>6, ElementOfSeq
<1> QED BY <1>1, <1>7 DEF arg

LEMMA CpStep ==
  ASSUME Orderly, CpInv, NEW p \in Shells, Step(p)
  PROVE  CpInv'
<1> SUFFICES ASSUME NEW q \in Shells, run'[q].cmd.name = "cp", alone'[q]
             PROVE  /\ LineOK(run'[q].cmd) /\ run'[q].cmd \in CommandLines
                    /\ CpWell(run'[q], node', before'[q], cwd'[q])
  BY DEF CpInv
<1>1. /\ \A o \in Shells \ {p} : run'[o] = run[o] /\ before'[o] = before[o]
                               /\ cwd'[o] = cwd[o] /\ (alone'[o] => Start(p) /\ alone[o])
      /\ Start(p) \/ /\ run[p].todo # <<>> /\ run'[p].cmd = run[p].cmd
                     /\ before' = before /\ alone'[p] = alone[p]
      /\ ~ChDir(p) => cwd' = cwd
      /\ Start(p) => node' = node /\ before'[p] = node
  BY OthersWait
<1>2. CASE q # p
  <2>1. run'[q] = run[q] /\ before'[q] = before[q] /\ cwd'[q] = cwd[q] /\ alone[q] /\ node' = node
    BY <1>1, <1>2
  <2>2. /\ LineOK(run[q].cmd) /\ run[q].cmd \in CommandLines
        /\ CpWell(run[q], node, before[q], cwd[q])
    BY <2>1 DEF CpInv
  <2> QED BY <2>1, <2>2
<1>3. CASE q = p /\ Start(p)
  <2> DEFINE c == Head(script[p])
             s == Load([AtRest(c, 0) EXCEPT !.args = c.args])
  <2>1. c \in CommandLines /\ run'[p].cmd = c /\ run'[p] = s /\ Orderly'
    BY <1>3, StartInOrder
  <2>2. \A arg \in Range(c.args) : OperandOK(c, arg)
    <3>1. script[p] # <<>> /\ script[p] \in Seq(CommandLines)
      BY <1>3 DEF Start, Orderly
    <3>2. c = script[p][1] /\ 1 \in 1..Len(script[p])
      BY <3>1, EmptySeq, HeadTailProperties
    <3> QED BY <3>2 DEF Orderly
  <2> HIDE DEF c
  <2>3. LineOK(c)
    <3>1. c.args \in Seq(Seq(Seq(Names)))
      BY <2>1 DEF CommandLines
    <3> QED BY <2>2, <3>1 DEF LineOK, Range
  <2>4. s \in RunSet /\ cwd'[p] = cwd[p] /\ cwd[p] \in Inodes /\ IsTree(node, Inodes) /\ c.name = "cp"
    <3>1. run'[p] \in RunSet
      BY <2>1 DEF Orderly
    <3>2. cwd'[p] = cwd[p]
      BY <1>3 DEF Start
    <3> HIDE DEF s
    <3> QED BY <1>3, <2>1, <3>1, <3>2, AnyHeld DEF Orderly
  <2>5. CpWell(s, node, node, cwd[p])
    <3>1. s.cmd = c
      BY <2>1
    <3> SUFFICES ASSUME AreApart(c.args[1][1], c.args[1][2])
                 PROVE  CpRuns(s, node, node, cwd[p], c.args[1][1], c.args[1][2])
      <4> HIDE DEF s
      <4> QED BY <3>1 DEF CpWell
    <3> QED BY <2>1, <2>2, <2>4, CpStarts
  <2> HIDE DEF s
  <2> QED BY <1>1, <1>3, <2>1, <2>3, <2>4, <2>5
<1>4. CASE q = p /\ ~Start(p)
  <2>1. /\ run[p].cmd.name = "cp" /\ before'[p] = before[p] /\ alone[p] /\ run[p].todo # <<>>
        /\ run'[p].cmd = run[p].cmd
    BY <1>1, <1>4
  <2>2. LineOK(run[p].cmd) /\ run[p].cmd \in CommandLines /\ CpWell(run[p], node, before[p], cwd[p])
    BY <2>1 DEF CpInv
  <2> DEFINE a == run[p].cmd.args[1][1]
             b == run[p].cmd.args[1][2]
  <2>3. ASSUME AreApart(a, b)
        PROVE  CpRuns(run'[p], node', before[p], cwd'[p], a, b)
    <3>1. CpRuns(run[p], node, before[p], cwd[p], a, b)
      BY <2>2, <2>3 DEF CpWell
    <3>2. a \in Seq(Names) /\ b \in Seq(Names)
      BY <2>1, <2>2, CpOperands
    <3> HIDE DEF a, b
    <3> QED BY <2>1, <2>3, <3>1, <3>2, CpActs
  <2>4. CpWell(run'[p], node', before[p], cwd'[p])
    BY <2>1, <2>3 DEF CpWell
  <2> QED BY <1>4, <2>1, <2>2, <2>4
<1> QED BY <1>2, <1>3, <1>4

\* What is below, and what is not below any more, when the source is as it was.
LEMMA SameBelow ==
  ASSUME NEW n0, IsTree(n0, Inodes), NEW n, IsTree(n, Inodes), NEW d \in Inodes,
         NEW a \in Seq(Names), a # <<>>, Found(n0, d, a), Keeps(n0, n), KeptBelow(n0, n, d, a),
         NEW q \in Seq(Names)
  PROVE  LET i == Lookup(n0, d, a) j == Lookup(n0, i, q) IN
         /\ Lookup(n, d, a) = i /\ j = Lookup(n0, d, a \o q)
         /\ Found(n, i, q) <=> Found(n0, i, q)
         /\ Found(n0, i, q) => Lookup(n, i, q) = j /\ n[j].kind = n0[j].kind /\ n[j].data = n0[j].data
<1> DEFINE i == Lookup(n0, d, a)
           y == a \o q
<1>1. y \in Seq(Names) /\ y # <<>> /\ d \in Places
  BY JoinedPath DEF Places
<1>2. Lookup(n, d, a) = i
  BY KeptIsFound
<1>3. Lookup(n0, i, q) = Lookup(n0, d, y)
  BY <1>1, LookupJoins
<1>4. Lookup(n, i, q) = Lookup(n, d, y)
  <2>1. Lookup(n, Lookup(n, d, a), q) = Lookup(n, d, y)
    BY <1>1, LookupJoins
  <2> QED BY <2>1, <1>2
<1>5. /\ Found(n, d, y) => Found(n0, d, y)
      /\ Found(n0, d, y) => n[Lookup(n0, d, y)].data = n0[Lookup(n0, d, y)].data
  BY DEF KeptBelow
<1> HIDE DEF i, y
<1>6. ASSUME Found(n0, d, y)
      PROVE  Lookup(n, d, y) = Lookup(n0, d, y) /\ Found(n, d, y)
             /\ n[Lookup(n0, d, y)].kind = n0[Lookup(n0, d, y)].kind
  <2>1. Lookup(n, d, y) = Lookup(n0, d, y) /\ Found(n, d, y)
    BY <1>1, <1>6, KeptIsFound
  <2>2. Lookup(n0, d, y) \in Inodes /\ Linked(n0, Lookup(n0, d, y))
    BY <1>1, <1>6, FoundIsEntry DEF Found
  <2> QED BY <2>1, <2>2 DEF Keeps
<1>7. /\ Lookup(n, d, a) = i /\ Lookup(n0, i, q) = Lookup(n0, d, y)
      /\ Found(n, i, q) <=> Found(n0, i, q)
      /\ Found(n0, i, q) => /\ Lookup(n, i, q) = Lookup(n0, i, q)
                            /\ n[Lookup(n0, i, q)].kind = n0[Lookup(n0, i, q)].kind
                            /\ n[Lookup(n0, i, q)].data = n0[Lookup(n0, i, q)].data
  BY <1>2, <1>3, <1>4, <1>5, <1>6 DEF Found
<1> QED BY <1>7 DEF i, y

LEMMA TreeIs ==
  ASSUME NEW n, NEW i, NEW t
  PROVE  t \in Tree(n, i) <=>
           \E q \in BoundedSeq(Names, Cardinality(Inodes)) :
             q \in Seq(Names) /\ Found(n, i, q) /\ t = <<q, n[Lookup(n, i, q)].kind, n[Lookup(n, i, q)].data>>
<1>1. BoundedSeq(Names, Cardinality(Inodes)) \subseteq Seq(Names)
  <2>1. Cardinality(Inodes) \in Nat
    BY FileAssumption, FS_CardinalityType
  <2> DEFINE K == Cardinality(Inodes)
  <2> HIDE DEF K
  <2>2. BoundedSeq(Names, K) = UNION {[1..m -> Names] : m \in 0..K}
    BY DEF BoundedSeq, SeqOf
  <2>3. BoundedSeq(Names, K) \subseteq Seq(Names)
    <3> SUFFICES ASSUME NEW m \in 0..K, NEW q \in [1..m -> Names] PROVE q \in Seq(Names)
      BY <2>2
    <3>1. m \in Nat
      BY <2>1 DEF K
    <3> QED BY <3>1
  <2> QED BY <2>3 DEF K
<1> DEFINE Paths == BoundedSeq(Names, Cardinality(Inodes))
<1> HIDE DEF Paths
<1>2. Tree(n, i) = {<<q, n[Lookup(n, i, q)].kind, n[Lookup(n, i, q)].data>> : q \in {q \in Paths : Found(n, i, q)}}
  BY DEF Tree, Paths
<1> QED BY <1>1, <1>2 DEF Paths

LEMMA CpTells ==
  ASSUME Orderly, CpInv
  PROVE  CopyIsWhole
<1> SUFFICES ASSUME NEW p \in Shells, Ended(p), alone[p], Is(p, "cp", {}), NEW arg \in Operands(p),
                    Apart(before[p], cwd[p], arg[1], arg[2])
             PROVE  LET n == before[p] d == cwd[p] from == Lookup(n, d, arg[1]) IN
                    /\ Tree(node, from) = Tree(n, from)
                    /\ run[p].ret = 0 /\ (IsDir(n, from) => Has(run[p].cmd, "r")) =>
                         LET files == {t \in Files(n, from) : arg[2] \o t[1] \notin run[p].cut} IN
                         \/ files = {}
                         \/ /\ Found(node, d, arg[2])
                            /\ files \subseteq Files(node, Lookup(node, d, arg[2]))
  BY Zenon DEF CopyIsWhole
<1> DEFINE n == before[p]
           d == cwd[p]
           c == run[p].cmd
           a == c.args[1][1]
           b == c.args[1][2]
           from == Lookup(n, d, a)
           to == Lookup(node, d, b)
           cut == run[p].cut
<1>1. LineOK(c) /\ c \in CommandLines /\ CpWell(run[p], node, n, d) /\ c.name = "cp"
  BY DEF CpInv, Is
<1>2. /\ Len(c.args) = 1 /\ c.args \in Seq(Seq(Seq(Names))) /\ a \in Seq(Names) /\ b \in Seq(Names)
      /\ a # <<>> /\ b # <<>>
  <2> HIDE DEF c
  <2> QED BY <1>1, CpOperands
<1>3. arg = c.args[1]
  <2>1. Range(c.args) = {c.args[k] : k \in 1..1}
    BY <1>2, RangeEquality
  <2> QED BY <2>1 DEF Operands
<1>4. AreApart(a, b) /\ Found(n, d, a)
  BY <1>2, <1>3 DEF Apart, AreApart
<1>5. CpRuns(run[p], node, n, d, a, b)
  BY <1>1, <1>4 DEF CpWell
<1>6. run[p].todo = <<>>
  BY DEF Ended, Busy
<1>7. /\ IsTree(n, Inodes) /\ Keeps(n, node) /\ KeptBelow(n, node, d, a)
      /\ d \in Inodes /\ d \in Places /\ IsTree(node, Inodes)
  BY <1>5, AnyHeld DEF CpRuns, Orderly, Places
<1>8. run[p].ret = 0 /\ (IsDir(n, from) => Has(c, "r")) => Covers(<<>>, cut, n, node, d, a, b)
  BY <1>5, <1>6 DEF CpRuns
<1> HIDE DEF n, d, c, a, b, from, to, cut
<1>9. \A q \in Seq(Names) :
        /\ Lookup(n, from, q) = Lookup(n, d, a \o q)
        /\ Found(node, from, q) <=> Found(n, from, q)
        /\ Found(n, from, q) => /\ Lookup(node, from, q) = Lookup(n, from, q)
                                /\ node[Lookup(n, from, q)].kind = n[Lookup(n, from, q)].kind
                                /\ node[Lookup(n, from, q)].data = n[Lookup(n, from, q)].data
  BY <1>2, <1>4, <1>7, SameBelow DEF from
<1>10. Tree(node, from) = Tree(n, from)
  <2>1. ASSUME NEW t PROVE t \in Tree(node, from) <=> t \in Tree(n, from)
    <3>1. \A q \in Seq(Names) :
            (Found(node, from, q) /\ t = <<q, node[Lookup(node, from, q)].kind, node[Lookup(node, from, q)].data>>)
            <=> (Found(n, from, q) /\ t = <<q, n[Lookup(n, from, q)].kind, n[Lookup(n, from, q)].data>>)
      BY <1>9
    <3> QED BY <3>1, TreeIs
  <2> QED BY <2>1
<1>11. ASSUME Covers(<<>>, cut, n, node, d, a, b), NEW t \in Files(n, from), b \o t[1] \notin cut
       PROVE  Found(node, d, b) /\ t \in Files(node, to)
  <2>1. t \in Tree(n, from) /\ t[2] = "file"
    BY DEF Files
  <2>2. PICK q \in BoundedSeq(Names, Cardinality(Inodes)) :
          q \in Seq(Names) /\ Found(n, from, q) /\ t = <<q, n[Lookup(n, from, q)].kind, n[Lookup(n, from, q)].data>>
    BY <2>1, TreeIs
  <2>3. IsFile(n, d, a \o q)
    BY <1>9, <2>1, <2>2 DEF IsFile, Found
  <2>4. Copied(n, node, d, a, b, q)
    <3>1. Range(<<>>) = {} /\ t[1] = q
      BY <2>2 DEF Range
    <3> QED BY <1>11, <2>2, <2>3, <3>1 DEF Covers
  <2>5. /\ Found(node, d, b \o q) /\ node[Lookup(node, d, b \o q)].kind = "file"
        /\ node[Lookup(node, d, b \o q)].data = n[Lookup(n, from, q)].data
    BY <1>9, <2>2, <2>4 DEF Copied, IsFile
  <2>6. Lookup(node, to, q) = Lookup(node, d, b \o q)
    BY <1>2, <1>7, <2>2, LookupJoins DEF to
  <2>7. Found(node, d, b)
    <3> DEFINE y == b \o q
    <3>1. y \in Seq(Names) /\ Upto(y, Len(b)) = b /\ Len(y) = Len(b) + Len(q) /\ Found(node, d, y)
      BY <1>2, <2>2, <2>5, JoinedPath
    <3> HIDE DEF y
    <3>2. Len(b) \in Nat /\ Len(q) \in Nat
      BY <1>2, <2>2, LenProperties
    <3>3. Len(b) \in 0..Len(y)
      BY <3>1, <3>2
    <3> QED BY <1>7, <3>1, <3>3, FoundUpto
  <2>8. t = <<q, node[Lookup(node, to, q)].kind, node[Lookup(node, to, q)].data>> /\ Found(node, to, q)
    <3>1. t = <<q, "file", n[Lookup(n, from, q)].data>>
      BY <2>1, <2>2
    <3> QED BY <2>5, <2>6, <3>1 DEF Found
  <2>9. t \in Tree(node, to)
    BY <2>2, <2>8, TreeIs
  <2> QED BY <2>1, <2>7, <2>9 DEF Files
<1> DEFINE files == {t \in Files(n, from) : b \o t[1] \notin cut}
<1>12. run[p].ret = 0 /\ (IsDir(n, from) => Has(c, "r")) =>
         files = {} \/ (Found(node, d, b) /\ files \subseteq Files(node, to))
  BY <1>8, <1>11
<1> QED BY <1>3, <1>10, <1>12 DEF n, d, c, a, b, from, to, cut

\* cp that no other shell has disturbed leaves its source alone and, when it reports
\* success, has copied every file of it, but for those whose reading or flushing
\* failed unnoticed.
THEOREM CopiesAreWhole == Spec => []CopyIsWhole
<1>1. Init => CpInv
  BY DEF Init, CpInv, AtRest, Idle
<1>2. ASSUME Orderly, CpInv, [Next]_vars PROVE CpInv'
  <2>1. CASE Next
    BY <1>2, <2>1, CpStep DEF Next
  <2>2. CASE UNCHANGED vars
    BY <1>2, <2>2 DEF vars, CpInv
  <2> QED BY <1>2, <2>1, <2>2
<1> QED BY <1>1, <1>2, CpTells, StaysInOrder, PTL DEF Spec

-----------------------------------------------------------------------------
(* Several mkdir -p make their directories between them.                   *)

\* The calls of mkdir -p for a path that are still to be made.
MkStack(todo, path) ==
  /\ path \in Seq(Names) /\ Len(path) - Len(todo) \in Nat
  /\ \A k \in 1..Len(todo) : /\ todo[k].op = "mkdirOk"
                             /\ todo[k].a = Upto(path, Len(path) - Len(todo) + k)

\* The path will not be there however long one waits for other mkdir -p.
Never(n, path) ==
  /\ ~Found(n, Root, path)
  /\ \/ Free(n) = {}
     \/ \E k \in 0..(Len(path) - 1) : /\ Found(n, Root, Upto(path, k))
                                      /\ ~IsDir(n, Lookup(n, Root, Upto(path, k)))

MkRuns(r, n) ==
  /\ InLine(r)
  /\ r.todo # <<>> => /\ Taken(r) \in 1..Len(r.cmd.args) /\ MkStack(r.todo, Now(r)[1])
                      /\ Found(n, Root, Upto(Now(r)[1], Len(Now(r)[1]) - Len(r.todo)))
  /\ r.ret = 0 => \A k \in 1..Settled(r) : Found(n, Root, r.cmd.args[k][1])
  /\ r.ret = 1 => \E k \in 1..Len(r.cmd.args) : Never(n, r.cmd.args[k][1])

LEMMA MkStackFirst ==
  ASSUME NEW todo \in Seq(CallSet), todo # <<>>, NEW path, MkStack(todo, path)
  PROVE  LET m == Len(path) - Len(todo) IN
         /\ m \in 0..(Len(path) - 1) /\ m + 1 \in 1..Len(path)
         /\ todo[1].op = "mkdirOk" /\ todo[1].a = Upto(path, m + 1)
         /\ Tail(todo) # <<>> => MkStack(Tail(todo), path) /\ Len(path) - Len(Tail(todo)) = m + 1
         /\ Tail(todo) = <<>> => m + 1 = Len(path) /\ todo[1].a = path
<1> DEFINE t == Tail(todo)
           L == Len(todo)
           M == Len(path)
<1>1. path \in Seq(Names) /\ M - L \in Nat
  BY DEF MkStack
<1>2. M \in Nat /\ L \in Nat /\ L > 0
  BY <1>1, EmptySeq
<1>3. t \in Seq(CallSet) /\ Len(t) = L - 1 /\ \A k \in 1..Len(t) : t[k] = todo[k + 1]
  BY HeadTailProperties
<1>4. \A k \in 1..L : todo[k].op = "mkdirOk" /\ todo[k].a = Upto(path, (M - L) + k)
  BY DEF MkStack
<1> HIDE DEF t, L, M
<1>5. 1 \in 1..L /\ M - L \in 0..(M - 1) /\ (M - L) + 1 \in 1..M
  BY <1>1, <1>2
<1>6. todo[1].op = "mkdirOk" /\ todo[1].a = Upto(path, (M - L) + 1)
  BY <1>4, <1>5
<1>7. MkStack(t, path) /\ M - Len(t) = (M - L) + 1
  <2> DEFINE N == Len(t)
  <2>1. N = L - 1 /\ M - N \in Nat /\ M - N = (M - L) + 1
    BY <1>1, <1>2, <1>3
  <2>2. ASSUME NEW k \in 1..N
        PROVE  t[k].op = "mkdirOk" /\ t[k].a = Upto(path, (M - N) + k)
    <3>1. k + 1 \in 1..L /\ (M - L) + (k + 1) = (M - N) + k
      BY <2>1, <1>1, <1>2
    <3> HIDE DEF N
    <3>2. todo[k + 1].op = "mkdirOk" /\ todo[k + 1].a = Upto(path, (M - L) + (k + 1))
      BY <1>4, <3>1
    <3>3. t[k] = todo[k + 1]
      BY <1>3 DEF N
    <3> QED BY <3>1, <3>2, <3>3
  <2> QED BY <1>1, <2>1, <2>2 DEF MkStack, M
<1>8. ASSUME t = <<>> PROVE (M - L) + 1 = M /\ todo[1].a = path
  <2>1. Len(t) = 0
    <3>1. Len(<<>>) = 0
      OBVIOUS
    <3> QED BY <1>8, <3>1
  <2>2. (M - L) + 1 = M
    BY <1>2, <1>3, <2>1
  <2>3. Upto(path, M) = path
    BY <1>1, SubSeqFull DEF Upto, M
  <2> QED BY <1>6, <2>2, <2>3
<1> QED BY <1>5, <1>6, <1>7, <1>8 DEF t, L, M

LEMMA MkLoads ==
  ASSUME NEW c \in CommandLines, c.name = "mkdir", "p" \in c.opts, NEW arg \in Seq(Seq(Names)),
         OperandOK(c, arg), NEW n
  PROVE  /\ MkStack(Calls(c, arg), arg[1])
         /\ Found(n, Root, Upto(arg[1], Len(arg[1]) - Len(Calls(c, arg))))
<1> DEFINE path == arg[1]
           s == Calls(c, arg)
           M == Len(path)
<1>1. path \in Seq(Names)
  <2>1. 1 \in 1..Len(arg)
    BY DEF OperandOK
  <2> QED BY <2>1, ElementOfSeq
<1>2. s = [k \in 1..M |-> Call("mkdirOk", Upto(path, k), <<>>)]
  BY DEF Calls, MkDirRun, MkDirP, Prefixes1, Upto, Has
<1>3. s \in Seq(CallSet)
  BY CallsOK
<1>4. M \in Nat
  BY <1>1
<1> HIDE DEF s, path, M
<1>5. Len(s) = M
  BY <1>2, <1>3, <1>4
<1>6. M - Len(s) = 0
  BY <1>4, <1>5
<1>7. \A k \in 1..M : s[k].op = "mkdirOk" /\ s[k].a = Upto(path, k) /\ 0 + k = k
  BY <1>2, <1>4 DEF Call
<1>8. MkStack(s, path)
  BY <1>1, <1>5, <1>6, <1>7 DEF MkStack, M
<1>9. Found(n, Root, Upto(path, 0))
  <2>1. Root \in Places /\ Root \in Inodes
    BY FileAssumption DEF Places
  <2> QED BY <1>1, <2>1, LookupSteps DEF Found
<1> QED BY <1>6, <1>8, <1>9 DEF s, path, M

\* Only the directory the shells are in is held, so what is not free has an entry.
LEMMA NeverStays ==
  ASSUME NEW n, NEW m, IsTree(n, {Root, NoFile}), IsTree(m, Inodes), Keeps(n, m),
         NEW path \in Seq(Names), Never(n, path)
  PROVE  Never(m, path)
<1>1. Root \in Inodes /\ NoFile \notin Inodes /\ Root \in Places
  BY FileAssumption DEF NoFile, Places
<1>2. CASE Free(n) = {}
  <2>1. \A i \in Inodes : Linked(n, i)
    BY <1>1, <1>2 DEF IsTree, Free, Linked
  <2>2. Keeps(m, n)
    BY <2>1 DEF Keeps
  <2>3. ~Found(m, Root, path)
    <3>1. Found(m, Root, path) => Found(n, Root, path)
      BY <1>1, <2>2, KeptIsFound
    <3> QED BY <3>1 DEF Never
  <2>4. Free(m) = {}
    <3> SUFFICES ASSUME NEW i \in Free(m) PROVE FALSE
      OBVIOUS
    <3>1. i \in Inodes \ {Root} /\ m[i].up = Nowhere
      BY UnusedIsNode DEF Free
    <3>2. n[i].up = Nowhere
      BY <2>1, <3>1 DEF Keeps
    <3> QED BY <2>1, <3>1, <3>2 DEF Linked
  <2> QED BY <2>3, <2>4 DEF Never
<1>3. CASE \E k \in 0..(Len(path) - 1) : Found(n, Root, Upto(path, k)) /\ ~IsDir(n, Lookup(n, Root, Upto(path, k)))
  <2>1. PICK k \in 0..(Len(path) - 1) : Found(n, Root, Upto(path, k)) /\ ~IsDir(n, Lookup(n, Root, Upto(path, k)))
    BY <1>3
  <2>2. k \in 0..Len(path) /\ k < Len(path)
    BY <2>1
  <2> DEFINE q == Upto(path, k)
             i == Lookup(n, Root, q)
  <2>3. q \in Seq(Names)
    BY <2>2, Prefix
  <2> HIDE DEF q
  <2>4. Lookup(m, Root, q) = i /\ Found(m, Root, q) /\ i \in Inodes
    BY <1>1, <2>1, <2>3, KeptIsFound DEF Found, q
  <2>5. Linked(n, i)
    <3>1. q = <<>> => i = Root
      BY <1>1, LookupSteps
    <3>2. q # <<>> => Linked(n, i)
      BY <1>1, <2>1, <2>3, FoundIsEntry DEF q
    <3> QED BY <3>1, <3>2 DEF Linked
  <2>6. ~IsDir(m, i)
    BY <2>1, <2>4, <2>5 DEF Keeps, IsDir, q
  <2>7. ~Found(m, Root, path)
    BY <1>1, <2>2, <2>4, <2>6, FoundUpto DEF q
  <2> QED BY <2>1, <2>4, <2>6, <2>7 DEF Never, q
<1> QED BY <1>2, <1>3 DEF Never

\* A call of mkdir -p that fails, fails for good.
LEMMA MkCannot ==
  ASSUME NEW n, IsTree(n, Inodes), NEW path \in Seq(Names), NEW k \in 0..(Len(path) - 1),
         Found(n, Root, Upto(path, k)), CannotCreate(n, Root, Upto(path, k + 1)) # {}
  PROVE  /\ CannotCreate(n, Root, Upto(path, k + 1)) = {"EEXIST"} => Found(n, Root, Upto(path, k + 1))
         /\ CannotCreate(n, Root, Upto(path, k + 1)) # {"EEXIST"} => Never(n, path)
<1> DEFINE q == Upto(path, k + 1)
           no == CannotCreate(n, Root, q)
           up == Parent(n, Root, q)
           l == k + 1
<1>1. l \in 1..Len(path) /\ l \in 0..Len(path) /\ k \in 0..Len(path) /\ k < Len(path) /\ l - 1 = k /\ l > 0
  OBVIOUS
<1>2. Root \in Inodes /\ Root \in Places
  BY FileAssumption DEF Places
<1> HIDE DEF l
<1>3. q \in Seq(Names) /\ q # <<>> /\ Front(q) = Upto(path, k)
  <2>1. Upto(path, l) \in Seq(Names) /\ Upto(path, l) # <<>> /\ Front(Upto(path, l)) = Upto(path, l - 1)
    BY <1>1, Prefix
  <2> QED BY <1>1, <2>1 DEF l
<1> HIDE DEF q
<1>4. up \in Inodes /\ up = Lookup(n, Root, Upto(path, k)) /\ up \notin Errors
  <2>1. up = Lookup(n, Root, Upto(path, k))
    BY <1>3 DEF Parent
  <2>2. up \in Inodes
    BY <2>1 DEF Found
  <2> QED BY <2>1, <2>2, NoErrorIsFound DEF Places
<1> HIDE DEF up
<1>5. Lookup(n, Root, q) = Component(n, up, Last(q))
  BY <1>2, <1>3, LookupLast DEF up
<1>6. Found(n, Root, path) => Found(n, Root, q) /\ IsDir(n, up)
  BY <1>1, <1>2, <1>4, FoundUpto DEF q, l
<1>7. Found(n, Root, q) => Last(q) \in EntryNames(n, up)
  <2>1. ASSUME Found(n, Root, q)
        PROVE  Lookup(n, Root, q) \in Entries(n, up) /\ n[Lookup(n, Root, q)].name = Last(q)
    BY <1>2, <1>3, <2>1, FoundIsEntry DEF up
  <2> QED BY <2>1 DEF EntryNames
<1>8. Linked(n, up)
  <2>1. Upto(path, k) \in Seq(Names)
    BY <1>1, Prefix
  <2>2. Upto(path, k) = <<>> => up = Root
    BY <1>2, <1>4, LookupSteps
  <2>3. Upto(path, k) # <<>> => Linked(n, up)
    BY <1>2, <1>4, <2>1, FoundIsEntry
  <2> QED BY <2>2, <2>3 DEF Linked
<1>9. no = IF ~IsDir(n, up) THEN {"ENOTDIR"}
           ELSE IF Last(q) \in EntryNames(n, up) THEN {"EEXIST"}
           ELSE IF Free(n) = {} THEN {"ENOSPC"} ELSE {}
  BY <1>4, <1>8 DEF CannotCreate, up
<1>10. CASE ~IsDir(n, up)
  <2>1. no # {"EEXIST"}
    BY <1>9, <1>10
  <2>2. Never(n, path)
    BY <1>4, <1>6, <1>10 DEF Never
  <2> QED BY <2>1, <2>2 DEF q
<1>11. CASE IsDir(n, up) /\ Last(q) \in EntryNames(n, up)
  <2>1. {i \in Entries(n, up) : n[i].name = Last(q)} # {}
    BY <1>11 DEF EntryNames
  <2>2. Component(n, up, Last(q)) \in Entries(n, up)
    BY <1>4, <1>11, <2>1 DEF Component
  <2>3. Found(n, Root, q)
    BY <1>5, <2>2 DEF Found, Entries
  <2> QED BY <1>9, <1>11, <2>3 DEF q
<1>12. CASE IsDir(n, up) /\ Last(q) \notin EntryNames(n, up)
  <2>1. Free(n) = {} /\ no # {"EEXIST"}
    BY <1>9, <1>12 DEF q
  <2>2. Never(n, path)
    BY <1>6, <1>7, <1>12, <2>1 DEF Never
  <2> QED BY <2>1, <2>2 DEF q
<1> QED BY <1>10, <1>11, <1>12

LEMMA MkOperand ==
  ASSUME NEW c \in CommandLines \cup {Idle}, c.name = "mkdir", LineOK(c), NEW k \in 1..Len(c.args)
  PROVE  c.args[k][1] \in Seq(Names) /\ c \in CommandLines
<1>1. c.args[k][1] \in Seq(Names)
  BY OneOperand
<1> QED BY <1>1 DEF Idle

LEMMA MkKept ==
  ASSUME NEW r \in RunSet, r.cmd.name = "mkdir", LineOK(r.cmd), NEW n, NEW m, MkRuns(r, n),
         IsTree(n, {Root, NoFile}), IsTree(m, Inodes), Keeps(n, m)
  PROVE  MkRuns(r, m)
<1> DEFINE c == r.cmd
           path == Now(r)[1]
           M == Len(path) - Len(r.todo)
<1>1. c \in CommandLines \cup {Idle} /\ Root \in Inodes /\ r.todo \in Seq(CallSet) /\ r.args \in Seq(Seq(Seq(Names)))
  BY FileAssumption DEF RunSet
<1>2. \A k \in 1..Len(c.args) : c.args[k][1] \in Seq(Names)
  BY <1>1, MkOperand
<1>3. \A q \in Seq(Names) : Found(n, Root, q) => Found(m, Root, q)
  BY <1>1, KeptIsFound
<1>4. \A q \in Seq(Names) : Never(n, q) => Never(m, q)
  BY NeverStays
<1>5. ASSUME r.todo # <<>>
      PROVE  Taken(r) \in 1..Len(c.args) /\ MkStack(r.todo, path) /\ Found(m, Root, Upto(path, M))
  <2>1. Taken(r) \in 1..Len(c.args) /\ MkStack(r.todo, path) /\ Found(n, Root, Upto(path, M))
    BY <1>5 DEF MkRuns
  <2> HIDE DEF path
  <2>2. M \in 0..(Len(path) - 1) /\ path \in Seq(Names)
    <3>1. M \in 0..(Len(path) - 1)
      BY <1>1, <1>5, <2>1, MkStackFirst
    <3> QED BY <2>1, <3>1 DEF MkStack
  <2> HIDE DEF M
  <2>3. M \in 0..Len(path)
    BY <2>2
  <2>4. Upto(path, M) \in Seq(Names)
    BY <2>2, <2>3, Prefix
  <2> QED BY <1>3, <2>1, <2>4
<1>6. InLine(r) /\ (r.todo # <<>> => Taken(r) \in 1..Len(c.args))
  BY DEF MkRuns
<1>7. \A k \in 1..Settled(r) : k \in 1..Len(c.args)
  <2> DEFINE T == Taken(r)
             L == Len(c.args)
  <2>1. T \in Nat /\ T <= L /\ L \in Nat
    <3>1. c.args \in Seq(Seq(Seq(Names)))
      <4>1. c \in CommandLines => c.args \in Seq(Seq(Seq(Names)))
        BY DEF CommandLines
      <4>2. Idle.args = <<>> /\ <<>> \in Seq(Seq(Seq(Names)))
        BY DEF Idle
      <4> HIDE DEF c
      <4> QED BY <1>1, <4>1, <4>2
    <3> DEFINE N == Len(r.args)
    <3>2. N \in Nat /\ L \in Nat
      BY <1>1, <3>1
    <3>3. T = L - N /\ T \in Nat
      BY <1>6 DEF InLine, Taken
    <3> HIDE DEF T, L, N
    <3> QED BY <3>2, <3>3
  <2>2. Settled(r) = T \/ Settled(r) = T - 1
    BY DEF Settled
  <2> HIDE DEF T, L
  <2> QED BY <2>1, <2>2 DEF L
<1>8. r.ret = 0 => \A k \in 1..Settled(r) : Found(m, Root, c.args[k][1])
  BY <1>2, <1>3, <1>7 DEF MkRuns
<1>9. r.ret = 1 => \E k \in 1..Len(c.args) : Never(m, c.args[k][1])
  BY <1>2, <1>4 DEF MkRuns
<1> QED BY <1>5, <1>6, <1>8, <1>9 DEF MkRuns

\* The directory of the call at hand is there.
LEMMA MkDone ==
  ASSUME NEW r, RunOK(r), r.cmd.name = "mkdir", "p" \in r.cmd.opts, LineOK(r.cmd), r.todo # <<>>,
         NEW n, MkRuns(r, n), Found(n, Root, r.todo[1].a)
  PROVE  MkRuns(Done(r), n)
<1> DEFINE s == Done(r)
           c == r.cmd
           path == Now(r)[1]
<1>1. /\ r.todo \in Seq(CallSet) /\ c \in CommandLines \cup {Idle} /\ r \in RunSet
  BY DEF RunOK, RunParts, RunSet
<1>2. InLine(r) /\ Taken(r) \in 1..Len(c.args) /\ MkStack(r.todo, path)
  BY DEF MkRuns
<1>3. \A k \in 1..Len(c.args) : c.args[k][1] \in Seq(Names)
  BY <1>1, MkOperand
<1>4. /\ r.todo[1].op = "mkdirOk" /\ r.todo[1].a = Upto(path, (Len(path) - Len(r.todo)) + 1)
      /\ Tail(r.todo) # <<>> => MkStack(Tail(r.todo), path)
                                /\ Len(path) - Len(Tail(r.todo)) = (Len(path) - Len(r.todo)) + 1
      /\ Tail(r.todo) = <<>> => r.todo[1].a = path
  <2> HIDE DEF path
  <2> QED BY <1>1, <1>2, MkStackFirst
<1>5. r.todo[1].op \notin {"openDst", "pump"}
  BY <1>4
<1>6. /\ InLine(s) /\ s.cmd = r.cmd /\ s.ret = r.ret
      /\ Tail(r.todo) # <<>> => s.todo = Tail(r.todo) /\ Taken(s) = Taken(r) /\ Settled(s) = Settled(r)
      /\ Tail(r.todo) = <<>> =>
           /\ Settled(s) = Taken(r) /\ Taken(r) \in 0..Len(s.cmd.args)
           /\ s.todo = <<>> => Taken(r) = Len(s.cmd.args) /\ Taken(s) = Taken(r)
           /\ s.todo # <<>> =>
                /\ Taken(s) = Taken(r) + 1 /\ Taken(s) \in 1..Len(s.cmd.args)
                /\ s.cmd \in CommandLines /\ Now(s) \in Seq(Seq(Names)) /\ OperandOK(s.cmd, Now(s))
                /\ s.todo = Calls(s.cmd, Now(s))
  BY <1>2, <1>5, DonePops
<1> HIDE DEF s
<1>7. s.ret = 1 => \E k \in 1..Len(s.cmd.args) : Never(n, s.cmd.args[k][1])
  BY <1>6 DEF MkRuns
<1>8. ASSUME Tail(r.todo) # <<>> PROVE MkRuns(s, n)
  <2>1. s.todo = Tail(r.todo) /\ Taken(s) = Taken(r) /\ Settled(s) = Settled(r) /\ Now(s)[1] = path
    BY <1>6, <1>8 DEF Now
  <2> HIDE DEF path
  <2>2. MkStack(s.todo, Now(s)[1]) /\ Found(n, Root, Upto(Now(s)[1], Len(Now(s)[1]) - Len(s.todo)))
    BY <1>4, <1>8, <2>1
  <2>3. s.ret = 0 => \A k \in 1..Settled(s) : Found(n, Root, s.cmd.args[k][1])
    BY <1>6, <2>1 DEF MkRuns
  <2>4. InLine(s) /\ Taken(s) \in 1..Len(s.cmd.args)
    BY <1>2, <1>6, <2>1
  <2> QED BY <1>7, <2>2, <2>3, <2>4 DEF MkRuns
<1>9. ASSUME Tail(r.todo) = <<>> PROVE MkRuns(s, n)
  <2>1. Settled(s) = Taken(r) /\ Settled(r) = Taken(r) - 1 /\ Taken(r) \in Nat
    BY <1>2, <1>6, <1>9 DEF Settled, InLine
  <2>2. Found(n, Root, c.args[Taken(r)][1])
    BY <1>4, <1>9 DEF Now
  <2>3. \A k \in 1..Settled(s) : k \in 1..Settled(r) \/ k = Taken(r)
    BY <2>1
  <2>4. s.ret = 0 => \A k \in 1..Settled(s) : Found(n, Root, s.cmd.args[k][1])
    <3>1. r.ret = 0 => \A k \in 1..Settled(r) : Found(n, Root, c.args[k][1])
      BY DEF MkRuns
    <3> QED BY <1>6, <2>2, <2>3, <3>1
  <2>5. s.todo # <<>> => MkStack(s.todo, Now(s)[1]) /\ Found(n, Root, Upto(Now(s)[1], Len(Now(s)[1]) - Len(s.todo)))
    <3> SUFFICES ASSUME s.todo # <<>> PROVE MkStack(s.todo, Now(s)[1])
                        /\ Found(n, Root, Upto(Now(s)[1], Len(Now(s)[1]) - Len(s.todo)))
      OBVIOUS
    <3>1. s.cmd \in CommandLines /\ Now(s) \in Seq(Seq(Names)) /\ OperandOK(s.cmd, Now(s))
          /\ s.todo = Calls(s.cmd, Now(s)) /\ s.cmd.name = "mkdir" /\ "p" \in s.cmd.opts
      BY <1>6, <1>9
    <3> QED BY <3>1, MkLoads
  <2>6. s.todo # <<>> => Taken(s) \in 1..Len(s.cmd.args)
    BY <1>6, <1>9
  <2> QED BY <1>6, <1>7, <2>4, <2>5, <2>6 DEF MkRuns
<1> QED BY <1>8, <1>9 DEF s

LEMMA MkFail ==
  ASSUME NEW r, RunOK(r), r.cmd.name = "mkdir", "p" \in r.cmd.opts, LineOK(r.cmd), r.todo # <<>>,
         NEW n, MkRuns(r, n), Never(n, Now(r)[1])
  PROVE  MkRuns(Fail(r), n)
<1> DEFINE s == Fail(r)
           c == r.cmd
<1>1. InLine(r) /\ Taken(r) \in 1..Len(c.args)
  BY DEF MkRuns
<1>2. /\ InLine(s) /\ s.cmd = r.cmd /\ s.ret = 1
      /\ s.todo # <<>> =>
           /\ Taken(s) = Taken(r) + 1 /\ Taken(s) \in 1..Len(s.cmd.args)
           /\ s.cmd \in CommandLines /\ Now(s) \in Seq(Seq(Names)) /\ OperandOK(s.cmd, Now(s))
           /\ s.todo = Calls(s.cmd, Now(s))
  BY <1>1, FailSkips
<1> HIDE DEF s
<1>3. \E k \in 1..Len(s.cmd.args) : Never(n, s.cmd.args[k][1])
  BY <1>1, <1>2 DEF Now
<1>4. s.todo # <<>> => /\ Taken(s) \in 1..Len(s.cmd.args) /\ MkStack(s.todo, Now(s)[1])
                       /\ Found(n, Root, Upto(Now(s)[1], Len(Now(s)[1]) - Len(s.todo)))
  <2> SUFFICES ASSUME s.todo # <<>>
               PROVE  /\ Taken(s) \in 1..Len(s.cmd.args) /\ MkStack(s.todo, Now(s)[1])
                      /\ Found(n, Root, Upto(Now(s)[1], Len(Now(s)[1]) - Len(s.todo)))
    OBVIOUS
  <2>1. s.cmd \in CommandLines /\ Now(s) \in Seq(Seq(Names)) /\ OperandOK(s.cmd, Now(s))
        /\ s.todo = Calls(s.cmd, Now(s)) /\ s.cmd.name = "mkdir" /\ "p" \in s.cmd.opts
        /\ Taken(s) \in 1..Len(s.cmd.args)
    BY <1>2
  <2> QED BY <2>1, MkLoads
<1>5. 1 # 0
  OBVIOUS
<1>6. MkRuns(s, n)
  BY <1>2, <1>3, <1>4, <1>5 DEF MkRuns
<1> QED BY <1>6 DEF s

LEMMA MkStarts ==
  ASSUME NEW c \in CommandLines, c.name = "mkdir", "p" \in c.opts,
         \A arg \in Range(c.args) : OperandOK(c, arg), NEW n
  PROVE  MkRuns(Load([AtRest(c, 0) EXCEPT !.args = c.args]), n)
<1> DEFINE s == Load([AtRest(c, 0) EXCEPT !.args = c.args])
<1>1. /\ InLine(s) /\ s.cmd = c /\ s.ret = 0 /\ Settled(s) = 0
      /\ s.todo # <<>> =>
           /\ Taken(s) = 1 /\ 1 \in 1..Len(c.args)
           /\ Now(s) \in Seq(Seq(Names)) /\ OperandOK(c, Now(s)) /\ s.todo = Calls(c, Now(s))
  BY StartsInLine
<1> HIDE DEF s
<1>2. s.todo # <<>> => /\ MkStack(s.todo, Now(s)[1])
                       /\ Found(n, Root, Upto(Now(s)[1], Len(Now(s)[1]) - Len(s.todo)))
  <2> SUFFICES ASSUME s.todo # <<>>
               PROVE  /\ MkStack(s.todo, Now(s)[1])
                      /\ Found(n, Root, Upto(Now(s)[1], Len(Now(s)[1]) - Len(s.todo)))
    OBVIOUS
  <2>1. Now(s) \in Seq(Seq(Names)) /\ OperandOK(c, Now(s)) /\ s.todo = Calls(c, Now(s))
    BY <1>1
  <2> QED BY <2>1, MkLoads
<1>3. \A k \in 1..Settled(s) : FALSE
  BY <1>1
<1>4. 0 # 1
  OBVIOUS
<1>5. s.todo # <<>> => Taken(s) \in 1..Len(s.cmd.args)
  BY <1>1
<1>6. MkRuns(s, n)
  BY <1>1, <1>2, <1>3, <1>4, <1>5 DEF MkRuns
<1> QED BY <1>6 DEF s

\* mkdir without -p and touch: one call at a time for the operand at hand.
PlainOps(c) == IF c.name = "mkdir" THEN {"mkdir"} ELSE {"utime", "create"}
PlainRuns(r) ==
  /\ InLine(r)
  /\ r.todo # <<>> => /\ Taken(r) \in 1..Len(r.cmd.args) /\ Tail(r.todo) = <<>>
                      /\ r.todo[1].op \in PlainOps(r.cmd) /\ r.todo[1].a = Now(r)[1]

Makers == {"mkdir", "touch"}
ByParts(c) == c.name = "mkdir" /\ "p" \in c.opts

LEMMA PlainLoads ==
  ASSUME NEW c \in CommandLines, c.name \in Makers, ~ByParts(c), NEW arg
  PROVE  LET s == Calls(c, arg) IN
         Tail(s) = <<>> /\ s[1].op \in PlainOps(c) /\ s[1].a = arg[1]
<1>1. CASE c.name = "mkdir"
  <2>1. Calls(c, arg) = <<Call("mkdir", arg[1], <<>>)>>
    BY <1>1 DEF Calls, MkDirRun, Has, ByParts
  <2>2. Tail(<<Call("mkdir", arg[1], <<>>)>>) = <<>>
    OBVIOUS
  <2> QED BY <1>1, <2>1, <2>2 DEF PlainOps, Call
<1>2. CASE c.name = "touch"
  <2>1. Calls(c, arg) = <<Call("utime", arg[1], <<>>)>>
    BY <1>2 DEF Calls, TouchRun
  <2>2. Tail(<<Call("utime", arg[1], <<>>)>>) = <<>>
    OBVIOUS
  <2> QED BY <1>2, <2>1, <2>2 DEF PlainOps, Call
<1> QED BY <1>1, <1>2 DEF Makers

LEMMA PlainEnds ==
  ASSUME NEW r, RunOK(r), r.todo # <<>>, r.cmd.name \in Makers, ~ByParts(r.cmd), PlainRuns(r)
  PROVE  PlainRuns(Done(r)) /\ PlainRuns(Fail(r))
<1>1. InLine(r) /\ Tail(r.todo) = <<>> /\ r.todo[1].op \notin {"openDst", "pump"}
  BY DEF PlainRuns, PlainOps
<1>2. ASSUME NEW s, InLine(s), s.cmd = r.cmd,
             s.todo # <<>> =>
               /\ Taken(s) \in 1..Len(s.cmd.args) /\ s.cmd \in CommandLines /\ s.todo = Calls(s.cmd, Now(s))
      PROVE  PlainRuns(s)
  <2> SUFFICES ASSUME s.todo # <<>>
               PROVE  Tail(s.todo) = <<>> /\ s.todo[1].op \in PlainOps(s.cmd) /\ s.todo[1].a = Now(s)[1]
    BY <1>2 DEF PlainRuns
  <2>1. s.cmd \in CommandLines /\ s.cmd.name \in Makers /\ ~ByParts(s.cmd) /\ s.todo = Calls(s.cmd, Now(s))
    BY <1>2
  <2> QED BY <2>1, PlainLoads
<1>3. PlainRuns(Done(r))
  <2> DEFINE s == Done(r)
  <2>1. /\ InLine(s) /\ s.cmd = r.cmd
        /\ s.todo # <<>> =>
             /\ Taken(s) \in 1..Len(s.cmd.args) /\ s.cmd \in CommandLines /\ s.todo = Calls(s.cmd, Now(s))
    BY <1>1, DonePops
  <2> HIDE DEF s
  <2>2. PlainRuns(s)
    BY <1>2, <2>1
  <2> QED BY <2>2 DEF s
<1>4. PlainRuns(Fail(r))
  <2> DEFINE s == Fail(r)
  <2>1. /\ InLine(s) /\ s.cmd = r.cmd
        /\ s.todo # <<>> =>
             /\ Taken(s) \in 1..Len(s.cmd.args) /\ s.cmd \in CommandLines /\ s.todo = Calls(s.cmd, Now(s))
    BY <1>1, FailSkips
  <2> HIDE DEF s
  <2>2. PlainRuns(s)
    BY <1>2, <2>1
  <2> QED BY <2>2 DEF s
<1> QED BY <1>3, <1>4

\* touch has found nothing and creates the file by its next call.
LEMMA PlainTurns ==
  ASSUME NEW r, RunOK(r), r.todo # <<>>, PlainRuns(r), r.todo[1].op = "utime",
         NEW a \in Seq(Names), a = r.todo[1].a, a # <<>>
  PROVE  PlainRuns(Instead(r, <<Call("create", a, <<>>)>>))
<1> DEFINE c == Call("create", a, <<>>)
           t == <<c>>
           s == Instead(r, t)
<1>1. c \in CallSet /\ CallOK(c) /\ c.op = "create" /\ c.a = a
  <2>1. "create" \in Ops \ OfTwo
    BY DEF Ops, OfTwo
  <2> QED BY <2>1, CallOfOne
<1> HIDE DEF c
<1>2. t \in Seq(CallSet) /\ TodoOK(t, r.src) /\ t # <<>> /\ t[1] = c
  BY <1>1, OneCall
<1>3. InLine(r) /\ Tail(r.todo) = <<>> /\ Taken(r) \in 1..Len(r.cmd.args) /\ a = Now(r)[1]
      /\ r.todo[1].op \notin {"openDst", "pump"} /\ "create" \in PlainOps(r.cmd)
  BY DEF PlainRuns, PlainOps
<1>4. t \o <<>> = t
  BY <1>2, ConcatEmptySeq
<1>5. Tail(t) = <<>>
  OBVIOUS
<1> HIDE DEF t
<1>6. /\ InLine(s) /\ s.cmd = r.cmd /\ s.todo = t \o Tail(r.todo)
      /\ Taken(s) = Taken(r) /\ Now(s) = Now(r)
  BY <1>2, <1>3, InsteadGoesOn
<1> HIDE DEF s
<1>7. PlainRuns(s)
  BY <1>1, <1>2, <1>3, <1>4, <1>5, <1>6 DEF PlainRuns
<1> QED BY <1>7 DEF s, t, c

LEMMA PlainStarts ==
  ASSUME NEW c \in CommandLines, c.name \in Makers, ~ByParts(c),
         \A arg \in Range(c.args) : OperandOK(c, arg)
  PROVE  PlainRuns(Load([AtRest(c, 0) EXCEPT !.args = c.args]))
<1> DEFINE s == Load([AtRest(c, 0) EXCEPT !.args = c.args])
<1>1. /\ InLine(s) /\ s.cmd = c
      /\ s.todo # <<>> => Taken(s) = 1 /\ 1 \in 1..Len(c.args) /\ s.todo = Calls(c, Now(s))
  BY StartsInLine
<1> HIDE DEF s
<1>2. s.todo # <<>> => Tail(s.todo) = <<>> /\ s.todo[1].op \in PlainOps(c) /\ s.todo[1].a = Now(s)[1]
  <2> SUFFICES ASSUME s.todo # <<>>
               PROVE  Tail(s.todo) = <<>> /\ s.todo[1].op \in PlainOps(c) /\ s.todo[1].a = Now(s)[1]
    OBVIOUS
  <2>1. s.todo = Calls(c, Now(s))
    BY <1>1
  <2> QED BY <2>1, PlainLoads
<1>3. PlainRuns(s)
  BY <1>1, <1>2 DEF PlainRuns
<1> QED BY <1>3 DEF s

\* The shells only make things: their commands, how far these are, and why there is
\* a file where one is.
MakeRuns(r, n) == IF ByParts(r.cmd) THEN MkRuns(r, n) ELSE PlainRuns(r)
MkTeam == \A p \in Shells : CommandOf(p) = Idle \/ CommandOf(p).name \in Makers
TouchedBy(c, path) == c.name = "touch" /\ \E k \in 1..Len(c.args) : c.args[k][1] = path
NoDir(n, path) == Found(n, Root, path) /\ ~IsDir(n, Lookup(n, Root, path))
Caused(n0, n) ==
  \A path \in Seq(Names) : NoDir(n, path) =>
    \/ NoDir(n0, path) /\ Lookup(n0, Root, path) = Lookup(n, Root, path)
    \/ \E q \in Shells : TouchedBy(CommandOf(q), path)
MkInv ==
  MkTeam => \A p \in Shells : /\ cwd[p] = Root /\ Caused(before[p], node)
                              /\ script[p] = <<>> /\ run[p].cmd # Idle => MakeRuns(run[p], node)

LEMMA OnlyRootIsHeld ==
  ASSUME Orderly, OneEach, MkTeam, MkInv
  PROVE  IsTree(node, {Root, NoFile})
<1>1. ASSUME NEW p \in Shells PROVE run[p].src = NoFile /\ run[p].dst = NoFile /\ cwd[p] = Root
  <2>1. RunOK(run[p]) /\ run[p].todo \in Seq(CallSet)
    BY DEF Orderly, RunSet
  <2>2. ~Copying(run[p].todo)
    <3> SUFFICES ASSUME run[p].todo # <<>> PROVE run[p].todo[1].op \notin {"openDst", "pump"}
      BY DEF Copying
    <3>1. script[p] = <<>> /\ run[p].cmd # Idle
      BY DEF OneEach
    <3>2. CASE ByParts(run[p].cmd)
      <4>1. MkStack(run[p].todo, Now(run[p])[1])
        BY <3>1, <3>2 DEF MkInv, MakeRuns, MkRuns
      <4> DEFINE path == Now(run[p])[1]
      <4> HIDE DEF path
      <4>2. run[p].todo[1].op = "mkdirOk"
        BY <2>1, <4>1, MkStackFirst DEF path
      <4> QED BY <4>2
    <3>3. CASE ~ByParts(run[p].cmd)
      BY <3>1, <3>3 DEF MkInv, MakeRuns, PlainRuns, PlainOps
    <3> QED BY <3>2, <3>3
  <2> QED BY <2>1, <2>2 DEF RunOK, Closed, MkInv
<1>2. Held(run, cwd) \subseteq {Root, NoFile}
  BY <1>1 DEF Held
<1> QED BY <1>2 DEF Orderly, IsTree

LEMMA MkAtFirst ==
  ASSUME Init, OneCommandEach
  PROVE  MkInv
<1> SUFFICES ASSUME MkTeam, NEW p \in Shells
             PROVE  /\ cwd[p] = Root /\ Caused(before[p], node)
                    /\ script[p] = <<>> /\ run[p].cmd # Idle => MakeRuns(run[p], node)
  BY DEF MkInv
<1>1. cwd[p] = Root /\ run[p] = AtRest(Idle, 0)
  BY OneAtFirst
<1>2. run[p].cmd = Idle
  BY <1>1 DEF AtRest
<1>3. before[p] = node
  BY DEF Init
<1> QED BY <1>1, <1>2, <1>3 DEF Caused

\* A new entry is all there is to find that was not there.
LEMMA MadeOnly ==
  ASSUME NEW n, IsTree(n, Inodes), NEW t \in Seq(Names), t # <<>>, CannotCreate(n, Root, t) = {},
         NEW kind \in {"dir", "file"}, NEW path \in Seq(Names), Found(Create(n, Root, t, kind), Root, path)
  PROVE  Found(n, Root, path) \/ path = t
<1> DEFINE m == Create(n, Root, t, kind)
           f == Lookup(m, Root, t)
<1>1. /\ IsTree(m, Inodes) /\ f \in Free(n) /\ Found(m, Root, t) /\ Keeps(n, m)
      /\ \A j \in Inodes : j # f => m[j] = n[j]
  BY CreateTree, FileAssumption
<1>2. WritesAt(n, m, Root, t) /\ Root \in Inodes
  BY CreatesAt, FileAssumption
<1> HIDE DEF m
<1>3. Found(n, Root, path) \/ \E k \in 0..Len(path) : Upto(path, k) = t
  BY <1>2 DEF WritesAt, m
<1>4. ASSUME NEW k \in 0..Len(path), Upto(path, k) = t, k # Len(path) PROVE FALSE
  <2> DEFINE l == k + 1
             q == Upto(path, l)
             j == Lookup(m, Root, q)
  <2>1. l \in 1..Len(path) /\ l \in 0..Len(path) /\ l > 0 /\ l - 1 = k /\ l # k /\ Len(path) \in Nat
    BY <1>4
  <2> HIDE DEF l
  <2>2. q \in Seq(Names) /\ q # <<>> /\ Front(q) = t /\ Len(q) = l /\ Len(t) = k
    BY <1>4, <2>1, Prefix
  <2>3. Found(m, Root, q)
    BY <1>1, <1>2, <2>1, FoundUpto DEF m
  <2> HIDE DEF q
  <2>4. j \in Entries(m, f)
    <3>1. j \in Entries(m, Parent(m, Root, q))
      BY <1>1, <1>2, <2>2, <2>3, FoundIsEntry
    <3> QED BY <2>2, <3>1 DEF Parent
  <2>5. j # f
    BY <1>1, <1>2, <2>1, <2>2, <2>3, OnePath
  <2>6. j \in Inodes \ {Root} /\ n[j].up = f
    BY <1>1, <2>4, <2>5 DEF Entries
  <2>7. f \in Inodes \ {Root} /\ ~Linked(n, f) /\ f # Nowhere
    BY <1>1, UnusedIsNode, FileAssumption DEF Free, Linked
  <2> HIDE DEF j, f
  <2> QED BY <2>6, <2>7 DEF IsTree
<1>5. Upto(path, Len(path)) = path
  BY Prefix
<1> QED BY <1>3, <1>4, <1>5

LEMMA FoundIsLinked ==
  ASSUME NEW n, IsTree(n, Inodes), NEW path \in Seq(Names), Found(n, Root, path)
  PROVE  Linked(n, Lookup(n, Root, path))
<1>1. Root \in Inodes /\ Root \in Places
  BY FileAssumption DEF Places
<1>2. path = <<>> => Lookup(n, Root, path) = Root
  <2>1. Lookup(n, Root, <<>>) = Root
    BY <1>1, LookupSteps
  <2> QED BY <2>1
<1>3. path # <<>> => Linked(n, Lookup(n, Root, path))
  BY <1>1, FoundIsEntry
<1> QED BY <1>2, <1>3 DEF Linked

\* A shell of the team has made a call: what there is to find, and whose file it is.
Adds(p) ==
  /\ Keeps(node, node')
  /\ \A path \in Seq(Names) : NoDir(node', path) => NoDir(node, path) \/ TouchedBy(CommandOf(p), path)

LEMMA AddsNothing ==
  ASSUME Orderly, NEW p \in Shells, NEW s, Returns(p, s, node)
  PROVE  Adds(p) /\ \A path \in Seq(Names) : Found(node, Root, path) => Found(node', Root, path)
<1>1. Keeps(node, node') /\ Keeps(node', node) /\ Root \in Inodes
  BY ReturnKeeps, FileAssumption
<1>2. IsTree(node, Inodes)
  BY AnyHeld DEF Orderly
<1>3. ASSUME NEW path \in Seq(Names)
      PROVE  /\ Found(node', Root, path) <=> Found(node, Root, path)
             /\ Found(node, Root, path) => /\ Lookup(node', Root, path) = Lookup(node, Root, path)
                                           /\ IsDir(node', Lookup(node', Root, path)) <=>
                                                IsDir(node, Lookup(node, Root, path))
  <2>1. /\ Found(node', Root, path) <=> Found(node, Root, path)
        /\ Found(node, Root, path) => Lookup(node', Root, path) = Lookup(node, Root, path)
    BY <1>1, SameFound
  <2>2. Found(node, Root, path) => Linked(node, Lookup(node, Root, path)) /\ Lookup(node, Root, path) \in Inodes
    BY <1>1, <1>2, FoundIsLinked DEF Found
  <2> QED BY <1>1, <2>1, <2>2 DEF Keeps, IsDir
<1> QED BY <1>1, <1>3 DEF Adds, NoDir

LEMMA AddsOne ==
  ASSUME Orderly, NEW p \in Shells, NEW s, NEW t \in Seq(Names), t # <<>>,
         CannotCreate(node, Root, t) = {}, NEW kind \in {"dir", "file"},
         kind = "dir" \/ TouchedBy(CommandOf(p), t),
         Returns(p, s, Create(node, Root, t, kind))
  PROVE  Adds(p) /\ Found(node', Root, t)
<1> DEFINE n == Create(node, Root, t, kind)
           h == Held(run', cwd)
<1>1. IsTree(node, Inodes) /\ Root \in Inodes
  BY AnyHeld, FileAssumption DEF Orderly
<1>2. IsTree(n, Inodes) /\ Keeps(node, n) /\ Found(n, Root, t) /\ n[Lookup(n, Root, t)].kind = kind
  BY <1>1, CreateTree
<1>3. \A path \in Seq(Names) : Found(n, Root, path) => Found(node, Root, path) \/ path = t
  BY <1>1, MadeOnly
<1>4. node' = Tidy(n, h)
  BY DEF Returns
<1> HIDE DEF n, h
<1>5. /\ Keeps(n, node') /\ IsTree(node', Inodes)
      /\ \A path \in Seq(Names) : /\ Found(node', Root, path) <=> Found(n, Root, path)
                                  /\ Found(n, Root, path) => Lookup(node', Root, path) = Lookup(n, Root, path)
  BY <1>1, <1>2, <1>4, TidyTree, TidyFinds, AnyHeld
<1>6. Keeps(node, node') /\ Found(node', Root, t)
  BY <1>2, <1>5, KeepsOn
<1>7. ASSUME NEW path \in Seq(Names), NoDir(node', path)
      PROVE  NoDir(node, path) \/ TouchedBy(CommandOf(p), path)
  <2>1. CASE Found(node, Root, path)
    <3>1. Lookup(node', Root, path) = Lookup(node, Root, path) /\ Lookup(node, Root, path) \in Inodes
          /\ Linked(node, Lookup(node, Root, path))
      BY <1>1, <1>5, <1>6, <2>1, KeptIsFound, FoundIsLinked DEF Found
    <3> QED BY <1>6, <1>7, <2>1, <3>1 DEF NoDir, Keeps, IsDir
  <2>2. CASE path = t /\ kind = "dir"
    <3>1. Lookup(n, Root, t) \in Inodes /\ Linked(n, Lookup(n, Root, t))
      BY <1>1, <1>2, FoundIsLinked DEF Found
    <3>2. IsDir(node', Lookup(node', Root, t))
      BY <1>2, <1>5, <2>2, <3>1 DEF Keeps, IsDir
    <3> QED BY <1>7, <2>2, <3>2 DEF NoDir
  <2>3. Found(node, Root, path) \/ path = t
    BY <1>3, <1>5, <1>7 DEF NoDir
  <2> QED BY <2>1, <2>2, <2>3
<1> QED BY <1>6, <1>7 DEF Adds

LEMMA CausedStays ==
  ASSUME NEW p \in Shells, Adds(p), \A q \in Shells : CommandOf(q)' = CommandOf(q),
         IsTree(node, Inodes), IsTree(node', Inodes), NEW n0, Caused(n0, node)
  PROVE  \A path \in Seq(Names) : NoDir(node', path) =>
           \/ NoDir(n0, path) /\ Lookup(n0, Root, path) = Lookup(node', Root, path)
           \/ \E q \in Shells : TouchedBy(CommandOf(q)', path)
<1> SUFFICES ASSUME NEW path \in Seq(Names), NoDir(node', path)
             PROVE  \/ NoDir(n0, path) /\ Lookup(n0, Root, path) = Lookup(node', Root, path)
                    \/ \E q \in Shells : TouchedBy(CommandOf(q)', path)
  OBVIOUS
<1>1. CASE TouchedBy(CommandOf(p), path)
  BY <1>1
<1>2. CASE NoDir(node, path)
  <2>1. Lookup(node', Root, path) = Lookup(node, Root, path)
    BY <1>2, KeptIsFound, FileAssumption DEF Adds, NoDir
  <2> QED BY <1>2, <2>1 DEF Caused
<1> QED BY <1>1, <1>2 DEF Adds

\* The step of a shell that makes its directories one below the other.
LEMMA MkActs ==
  ASSUME Orderly, OneEach, MkTeam, MkInv, NEW p \in Shells, Step(p), ~Start(p), Orderly',
         ByParts(CommandOf(p))
  PROVE  Adds(p) /\ MkRuns(run'[p], node') /\ cwd' = cwd
<1> DEFINE r == run[p]
           path == Now(r)[1]
           m == Len(path) - Len(r.todo)
           no == CannotCreate(node, Root, A(p))
<1>1. /\ r.todo # <<>> /\ script[p] = <<>> /\ r.cmd = CommandOf(p)
      /\ run = [q \in Shells |-> run[q]] /\ RunOK(r) /\ r.todo \in Seq(CallSet) /\ r \in RunSet
  BY OthersWait, CommandStays DEF CommandOf, Orderly, RunSet
<1>2. r.cmd.name = "mkdir" /\ "p" \in r.cmd.opts /\ LineOK(r.cmd) /\ cwd[p] = Root /\ MkRuns(r, node)
  BY <1>1 DEF ByParts, MkInv, MakeRuns, OneEach
<1>3. IsTree(node, {Root, NoFile}) /\ IsTree(node, Inodes) /\ IsTree(node', Inodes) /\ Root \in Inodes
  BY OnlyRootIsHeld, AnyHeld, FileAssumption DEF Orderly
<1>4. MkStack(r.todo, path) /\ Found(node, Root, Upto(path, m)) /\ InLine(r)
  BY <1>1, <1>2 DEF MkRuns
<1>5. /\ m \in 0..(Len(path) - 1) /\ r.todo[1].op = "mkdirOk" /\ r.todo[1].a = Upto(path, m + 1)
      /\ path \in Seq(Names)
  <2>1. path \in Seq(Names)
    BY <1>4 DEF MkStack
  <2> HIDE DEF path
  <2> QED BY <1>1, <1>4, <2>1, MkStackFirst
<1>6. MkDir(p, "mkdirOk")
  <2>1. \A op : Makes(p, op) => op = "mkdirOk"
    BY <1>5, AtHand DEF Makes
  <2> QED BY <2>1, StepMakes DEF OtherOps, Ops
<1>7. A(p) = Upto(path, m + 1) /\ A(p) \in Seq(Names) /\ A(p) # <<>>
  <2>1. Next1(p, "mkdirOk")
    BY <1>6 DEF MkDir
  <2> QED BY <1>5, <2>1, AtHand DEF A
<1>8. cwd' = cwd
  BY <1>6 DEF MkDir, Returns
<1>9. \A s, n : Returns(p, s, n) => run'[p] = s
  BY <1>1 DEF Returns
<1>10. CASE no = {}
  <2> DEFINE n == Create(node, Root, A(p), "dir")
             s == Done(r)
  <2>1. Returns(p, s, n)
    BY <1>2, <1>6, <1>10 DEF MkDir
  <2> HIDE DEF s
  <2>2. Adds(p) /\ Found(node', Root, A(p)) /\ Keeps(node, node')
    BY <1>7, <1>10, <2>1, AddsOne DEF Adds
  <2>3. MkRuns(r, node')
    BY <1>1, <1>2, <1>3, <2>2, MkKept
  <2>4. MkRuns(Done(r), node')
    BY <1>1, <1>2, <1>5, <1>7, <2>2, <2>3, MkDone
  <2> QED BY <1>8, <1>9, <2>1, <2>2, <2>4 DEF s
<1>11. CASE no # {}
  <2> DEFINE s == IF Tolerated("mkdirOk", no) THEN Done(r) ELSE Fail(r)
  <2>1. Returns(p, s, node)
    BY <1>2, <1>6, <1>11 DEF MkDir
  <2> HIDE DEF s
  <2>2. Adds(p) /\ Keeps(node, node') /\ (Found(node, Root, A(p)) => Found(node', Root, A(p)))
    BY <1>7, <2>1, AddsNothing DEF Adds
  <2>3. MkRuns(r, node')
    BY <1>1, <1>2, <1>3, <2>2, MkKept
  <2>4. /\ no = {"EEXIST"} => Found(node, Root, A(p))
        /\ no # {"EEXIST"} => Never(node, path)
    <3> HIDE DEF m, path
    <3> QED BY <1>3, <1>4, <1>5, <1>7, <1>11, MkCannot DEF m
  <2>5. CASE no = {"EEXIST"}
    <3>1. s = Done(r)
      BY <2>5 DEF s, Tolerated
    <3>2. MkRuns(Done(r), node')
      BY <1>1, <1>2, <1>5, <1>7, <2>2, <2>3, <2>4, <2>5, MkDone
    <3> QED BY <1>8, <1>9, <2>1, <2>2, <3>1, <3>2
  <2>6. CASE no # {"EEXIST"}
    <3>1. s = Fail(r)
      BY <2>6 DEF s, Tolerated
    <3>2. Never(node', path)
      BY <1>3, <1>5, <2>2, <2>4, <2>6, NeverStays
    <3>3. MkRuns(Fail(r), node')
      BY <1>1, <1>2, <2>3, <3>2, MkFail
    <3> QED BY <1>8, <1>9, <2>1, <2>2, <3>1, <3>3
  <2> QED BY <2>5, <2>6
<1> QED BY <1>10, <1>11

\* The step of one that makes a directory or touches a file.
LEMMA PlainActs ==
  ASSUME Orderly, OneEach, MkTeam, MkInv, NEW p \in Shells, Step(p), ~Start(p),
         ~ByParts(CommandOf(p))
  PROVE  Adds(p) /\ PlainRuns(run'[p]) /\ cwd' = cwd
<1> DEFINE r == run[p]
           c == r.cmd
           no == CannotCreate(node, Root, A(p))
<1>1. /\ r.todo # <<>> /\ script[p] = <<>> /\ c = CommandOf(p) /\ c # Idle
      /\ run = [q \in Shells |-> run[q]] /\ RunOK(r) /\ r.todo \in Seq(CallSet) /\ r \in RunSet
  BY OthersWait, CommandStays DEF CommandOf, Orderly, RunSet, OneEach
<1>2. c.name \in Makers /\ ~ByParts(c) /\ cwd[p] = Root /\ PlainRuns(r)
  BY <1>1 DEF MkTeam, MkInv, MakeRuns
<1>3. r.todo[1].op \in PlainOps(c) /\ r.todo[1].a = Now(r)[1] /\ Taken(r) \in 1..Len(c.args)
  BY <1>1, <1>2 DEF PlainRuns
<1>4. \/ MkDir(p, "mkdir") /\ c.name = "mkdir" /\ r.todo[1].op = "mkdir"
      \/ Utime(p) /\ r.todo[1].op = "utime"
      \/ TouchCreate(p) /\ c.name = "touch" /\ r.todo[1].op = "create"
  <2>1. \A op : Makes(p, op) => op = r.todo[1].op
    BY AtHand DEF Makes
  <2>2. r.todo[1].op \in {"mkdir", "utime", "create"} /\ (r.todo[1].op = "mkdir" => c.name = "mkdir")
        /\ (r.todo[1].op = "create" => c.name = "touch")
    BY <1>2, <1>3 DEF PlainOps, Makers
  <2> QED BY <2>1, <2>2, StepMakes DEF OtherOps, Ops
<1>5. A(p) = r.todo[1].a /\ A(p) \in Seq(Names) /\ A(p) # <<>>
  <2>1. PICK op \in {"mkdir", "utime", "create"} : Next1(p, op)
    BY <1>4 DEF MkDir, Utime, TouchCreate
  <2> QED BY <2>1, AtHand DEF A
<1>6. cwd' = cwd
  BY <1>4 DEF MkDir, Utime, TouchCreate, Returns
<1>7. \A s, n : Returns(p, s, n) => run'[p] = s
  BY <1>1 DEF Returns
<1>8. PlainRuns(Done(r)) /\ PlainRuns(Fail(r))
  BY <1>1, <1>2, PlainEnds
<1>9. c.name = "touch" => TouchedBy(CommandOf(p), A(p))
  BY <1>1, <1>3, <1>5 DEF TouchedBy, Now
<1>10. CASE MkDir(p, "mkdir")
  <2>1. CASE no = {}
    <3> DEFINE s == Done(r)
    <3>1. Returns(p, s, Create(node, Root, A(p), "dir"))
      BY <1>2, <1>10, <2>1 DEF MkDir
    <3> HIDE DEF s
    <3>2. Adds(p)
      BY <1>5, <2>1, <3>1, AddsOne
    <3> QED BY <1>6, <1>7, <1>8, <3>1, <3>2 DEF s
  <2>2. CASE no # {}
    <3>1. PICK s \in {Done(r), Fail(r)} : Returns(p, s, node)
      BY <1>2, <1>10, <2>2 DEF MkDir
    <3>2. Adds(p)
      BY <3>1, AddsNothing
    <3> QED BY <1>6, <1>7, <1>8, <3>1, <3>2
  <2> QED BY <2>1, <2>2
<1>11. CASE Utime(p) /\ r.todo[1].op = "utime"
  <2>1. PICK s \in {Done(r), Fail(r), Instead(r, <<Call("create", A(p), <<>>)>>)} : Returns(p, s, node)
    BY <1>2, <1>11 DEF Utime
  <2>2. PlainRuns(Instead(r, <<Call("create", A(p), <<>>)>>))
    BY <1>1, <1>2, <1>5, <1>11, PlainTurns
  <2>3. Adds(p)
    BY <2>1, AddsNothing
  <2> QED BY <1>6, <1>7, <1>8, <2>1, <2>2, <2>3
<1>12. CASE TouchCreate(p) /\ c.name = "touch"
  <2>1. CASE no = {}
    <3> DEFINE s == Done(r)
    <3>1. Returns(p, s, Create(node, Root, A(p), "file"))
      BY <1>2, <1>12, <2>1 DEF TouchCreate
    <3> HIDE DEF s
    <3>2. Adds(p)
      BY <1>5, <1>9, <1>12, <2>1, <3>1, AddsOne
    <3> QED BY <1>6, <1>7, <1>8, <3>1, <3>2 DEF s
  <2>2. CASE no # {}
    <3>1. PICK s \in {Done(r), Fail(r)} : Returns(p, s, node)
      BY <1>2, <1>12, <2>2 DEF TouchCreate
    <3>2. Adds(p)
      BY <3>1, AddsNothing
    <3> QED BY <1>6, <1>7, <1>8, <3>1, <3>2
  <2> QED BY <2>1, <2>2
<1> QED BY <1>4, <1>10, <1>11, <1>12

LEMMA MkGoesOn ==
  ASSUME Orderly, OneEach, MkInv, NEW p \in Shells, Step(p)
  PROVE  MkInv'
<1> SUFFICES ASSUME MkTeam'
             PROVE  \A q \in Shells :
                      /\ cwd'[q] = Root /\ Caused(before[q], node)'
                      /\ script'[q] = <<>> /\ run'[q].cmd # Idle => MakeRuns(run'[q], node')
  BY DEF MkInv
<1>1. /\ \A o \in Shells : CommandOf(o)' = CommandOf(o)
      /\ Start(p) => CommandOf(p) = Head(script[p])
      /\ ~Start(p) => script' = script /\ script[p] = <<>>
  BY CommandStays
<1>2. MkTeam
  BY <1>1 DEF MkTeam
<1>3. /\ \A o \in Shells \ {p} : run'[o] = run[o] /\ script'[o] = script[o] /\ before'[o] = before[o]
      /\ Start(p) => node' = node /\ before'[p] = node
      /\ ~Start(p) => before' = before /\ run'[p].cmd = run[p].cmd /\ run[p].todo # <<>>
  BY OthersWait
<1>4. /\ Orderly' /\ IsTree(node, {Root, NoFile}) /\ IsTree(node, Inodes) /\ IsTree(node', Inodes)
  BY <1>2, StepInOrder, OnlyRootIsHeld, AnyHeld DEF Orderly
<1>5. /\ cwd' = cwd /\ Adds(p)
      /\ ~Start(p) => MakeRuns(run'[p], node')
  <2>1. CASE Start(p)
    BY <1>3, <2>1 DEF Start, Keeps, Adds
  <2>2. CASE ~Start(p) /\ ByParts(CommandOf(p))
    <3>1. run'[p].cmd = CommandOf(p)
      BY <1>1, <1>3, <2>2 DEF CommandOf
    <3> QED BY <1>2, <1>4, <2>2, <3>1, MkActs DEF MakeRuns
  <2>3. CASE ~Start(p) /\ ~ByParts(CommandOf(p))
    <3>1. run'[p].cmd = CommandOf(p)
      BY <1>1, <1>3, <2>3 DEF CommandOf
    <3> QED BY <1>2, <2>3, <3>1, PlainActs DEF MakeRuns
  <2> QED BY <2>1, <2>2, <2>3
<1> SUFFICES ASSUME NEW q \in Shells
             PROVE  /\ cwd'[q] = Root /\ Caused(before[q], node)'
                    /\ script'[q] = <<>> /\ run'[q].cmd # Idle => MakeRuns(run'[q], node')
  OBVIOUS
<1>6. cwd'[q] = Root
  BY <1>2, <1>5 DEF MkInv
<1>7. Caused(before[q], node)'
  <2>1. CASE q = p /\ Start(p)
    BY <1>3, <2>1 DEF Caused
  <2>2. CASE ~(q = p /\ Start(p))
    <3>1. before'[q] = before[q] /\ Caused(before[q], node)
      BY <1>2, <1>3, <2>2 DEF MkInv
    <3> DEFINE b == before[q]
    <3>2. Caused(b, node)
      BY <3>1
    <3> HIDE DEF b
    <3>3. \A path \in Seq(Names) : NoDir(node', path) =>
            \/ NoDir(b, path) /\ Lookup(b, Root, path) = Lookup(node', Root, path)
            \/ \E o \in Shells : TouchedBy(CommandOf(o)', path)
      BY <1>1, <1>4, <1>5, <3>2, CausedStays
    <3> QED BY <3>1, <3>3 DEF Caused, b
  <2> QED BY <2>1, <2>2
<1>8. CASE q # p
  <2> SUFFICES ASSUME script'[q] = <<>>, run'[q].cmd # Idle PROVE MakeRuns(run'[q], node')
    BY <1>6, <1>7
  <2>1. run'[q] = run[q] /\ script[q] = <<>> /\ MakeRuns(run[q], node) /\ run[q].cmd = CommandOf(q)
    BY <1>2, <1>3, <1>8 DEF MkInv, CommandOf
  <2>2. CASE ByParts(run[q].cmd)
    <3>1. run[q] \in RunSet /\ run[q].cmd.name = "mkdir" /\ LineOK(run[q].cmd)
      BY <2>2 DEF Orderly, ByParts, OneEach
    <3>2. MkRuns(run[q], node')
      BY <1>4, <1>5, <2>1, <2>2, <3>1, MkKept DEF MakeRuns, Adds
    <3> QED BY <2>1, <2>2, <3>2 DEF MakeRuns
  <2>3. CASE ~ByParts(run[q].cmd)
    BY <2>1, <2>3 DEF MakeRuns
  <2> QED BY <2>2, <2>3
<1>9. CASE q = p /\ Start(p)
  <2> DEFINE c == Head(script[p])
  <2>1. c \in CommandLines /\ run'[p].cmd = c /\ run'[p] = Load([AtRest(c, 0) EXCEPT !.args = c.args])
    BY <1>9, StartInOrder
  <2>2. \A arg \in Range(c.args) : OperandOK(c, arg)
    <3>1. script[p] # <<>> /\ script[p] \in Seq(CommandLines)
      BY <1>9 DEF Start, Orderly
    <3>2. c = script[p][1] /\ 1 \in 1..Len(script[p])
      BY <3>1, EmptySeq, HeadTailProperties
    <3> QED BY <3>2 DEF Orderly
  <2>3. c.name \in Makers /\ c # Idle
    BY <1>1, <1>2, <1>9, <2>1, NotIdle DEF MkTeam
  <2> HIDE DEF c
  <2>4. MakeRuns(run'[p], node')
    <3>1. CASE ByParts(c)
      <4>1. MkRuns(run'[p], node')
        BY <2>1, <2>2, <3>1, MkStarts DEF ByParts
      <4> QED BY <2>1, <3>1, <4>1 DEF MakeRuns
    <3>2. CASE ~ByParts(c)
      <4>1. PlainRuns(run'[p])
        BY <2>1, <2>2, <2>3, <3>2, PlainStarts
      <4> QED BY <2>1, <3>2, <4>1 DEF MakeRuns
    <3> QED BY <3>1, <3>2
  <2> QED BY <1>6, <1>7, <1>9, <2>4
<1>10. CASE q = p /\ ~Start(p)
  BY <1>5, <1>6, <1>7, <1>10
<1> QED BY <1>8, <1>9, <1>10

LEMMA MkTells ==
  ASSUME Orderly, OneEach, MkInv
  PROVE  MkdirsAgree
<1> SUFFICES ASSUME \A p \in Shells : OnlyMakes(p), NEW p \in Shells, Ended(p), Is(p, "mkdir", {"p"})
             PROVE  /\ run[p].ret = 0 <=> \A a \in Operands(p) : Found(node, cwd[p], a[1])
                    /\ \A a \in Operands(p) :
                         LET i == Lookup(node, cwd[p], a[1]) IN
                         run[p].ret = 0 /\ ~IsDir(node, i) =>
                           \/ i = Lookup(before[p], cwd[p], a[1]) /\ ~IsDir(before[p], i)
                           \/ \E q \in Shells : run[q].cmd.name = "touch" /\ a \in Operands(q)
  BY Zenon DEF MkdirsAgree
<1> DEFINE r == run[p]
           c == r.cmd
<1>1. \A q \in Shells : script[q] = <<>> /\ CommandOf(q) = run[q].cmd
  BY DEF OneEach, OnlyMakes, Idle, CommandOf
<1>2. MkTeam
  BY <1>1 DEF MkTeam, OnlyMakes, Makers
<1>3. c.name = "mkdir" /\ "p" \in c.opts /\ c # Idle /\ ByParts(c)
  BY DEF Is, Ended, ByParts
<1>4. MkRuns(r, node) /\ cwd[p] = Root /\ r \in RunSet /\ RunOK(r) /\ Caused(before[p], node) /\ LineOK(c)
  BY <1>1, <1>2, <1>3 DEF MkInv, MakeRuns, Orderly, OneEach
<1>5. r.todo = <<>> /\ r.args = <<>>
  BY <1>4 DEF Ended, Busy, RunOK
<1>6. c.args \in Seq(Seq(Seq(Names))) /\ c \in CommandLines
  <2>1. c \in CommandLines \cup {Idle}
    BY <1>4 DEF RunSet
  <2> HIDE DEF c
  <2> QED BY <1>3, <2>1 DEF CommandLines
<1>7. Settled(r) = Len(c.args) /\ Len(c.args) \in Nat
  BY <1>5, <1>6 DEF Settled, Taken
<1>8. /\ \A a \in Operands(p) : \E k \in 1..Len(c.args) : a = c.args[k]
      /\ \A k \in 1..Len(c.args) : c.args[k] \in Operands(p)
  BY <1>6 DEF Operands, Range
<1>9. r.ret \in {0, 1}
  BY <1>4 DEF RunSet
<1> HIDE DEF r
<1>10. r.ret = 0 => \A k \in 1..Len(c.args) : Found(node, Root, c.args[k][1])
  BY <1>4, <1>7 DEF MkRuns
<1>11. r.ret = 1 => \E k \in 1..Len(c.args) : ~Found(node, Root, c.args[k][1])
  BY <1>4 DEF MkRuns, Never
<1>12. r.ret = 0 <=> \A a \in Operands(p) : Found(node, Root, a[1])
  BY <1>8, <1>9, <1>10, <1>11
<1>13. ASSUME NEW a \in Operands(p), r.ret = 0, ~IsDir(node, Lookup(node, Root, a[1]))
       PROVE  \/ /\ Lookup(node, Root, a[1]) = Lookup(before[p], Root, a[1])
                 /\ ~IsDir(before[p], Lookup(node, Root, a[1]))
              \/ \E q \in Shells : run[q].cmd.name = "touch" /\ a \in Operands(q)
  <2>1. PICK k \in 1..Len(c.args) : a = c.args[k]
    BY <1>8
  <2>2. a \in Seq(Seq(Names)) /\ Len(a) = 1 /\ a[1] \in Seq(Names)
    <3>1. OperandOK(c, c.args[k]) /\ c.args[k] \in Seq(Seq(Names))
      BY <1>4, <1>6 DEF LineOK
    <3> QED BY <1>3, <2>1, <3>1 DEF OperandOK
  <2>3. NoDir(node, a[1])
    BY <1>12, <1>13 DEF NoDir
  <2>4. CASE NoDir(before[p], a[1]) /\ Lookup(before[p], Root, a[1]) = Lookup(node, Root, a[1])
    BY <2>4 DEF NoDir
  <2>5. CASE \E q \in Shells : TouchedBy(CommandOf(q), a[1])
    <3>1. PICK q \in Shells : TouchedBy(run[q].cmd, a[1])
      BY <1>1, <2>5
    <3> DEFINE e == run[q].cmd
    <3>2. e.name = "touch" /\ LineOK(e) /\ e \in CommandLines \cup {Idle} /\ Idle.name # "touch"
      BY <3>1 DEF TouchedBy, OneEach, Orderly, RunSet, Idle
    <3>3. PICK l \in 1..Len(e.args) : e.args[l][1] = a[1]
      BY <3>1 DEF TouchedBy
    <3> HIDE DEF e
    <3>4. e.args \in Seq(Seq(Seq(Names)))
      BY <3>2 DEF CommandLines
    <3>5. e.args[l] \in Seq(Seq(Names)) /\ Len(e.args[l]) = 1
      BY <3>2, <3>3, <3>4 DEF LineOK, OperandOK
    <3>6. e.args[l] = a
      <4> DEFINE b == e.args[l]
      <4>1. b \in Seq(Seq(Names)) /\ Len(b) = 1 /\ b[1] = a[1]
        BY <3>3, <3>5
      <4> HIDE DEF b
      <4>2. b = a
        BY <2>2, <4>1
      <4> QED BY <4>2 DEF b
    <3>7. a \in Range(e.args)
      BY <3>3, <3>4, <3>6 DEF Range
    <3> QED BY <3>2, <3>7 DEF Operands, e
  <2> QED BY <1>4, <2>2, <2>3, <2>4, <2>5 DEF Caused
<1> QED BY <1>4, <1>12, <1>13 DEF r

\* However the calls of several mkdir and touch come, each mkdir -p tells whether its
\* paths are there, and a file among them was there before or was touched.
THEOREM TogetherTheyMake == Spec /\ OneCommandEach => []MkdirsAgree
<1>1. Init /\ OneCommandEach => OneEach /\ MkInv
  BY OneAtFirst, MkAtFirst
<1>2. ASSUME Orderly, OneEach /\ MkInv, [Next]_vars PROVE (OneEach /\ MkInv)'
  <2>1. CASE Next
    BY <1>2, <2>1, CommandStays, MkGoesOn DEF Next
  <2>2. CASE UNCHANGED vars
    BY <1>2, <2>2 DEF vars, OneEach, MkInv, MkTeam, CommandOf, Caused
  <2> QED BY <1>2, <2>1, <2>2
<1>3. Orderly /\ OneEach /\ MkInv => MkdirsAgree
  BY MkTells
<1> QED BY <1>1, <1>2, <1>3, StaysInOrder, PTL DEF Spec
=============================================================================
