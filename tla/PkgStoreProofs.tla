--------------------------- MODULE PkgStoreProofs ---------------------------
(***************************************************************************)
(* Theorems about the package store, for any packages, versions, files and *)
(* archives: what holds when the commands run one at a time and the disk   *)
(* does what it is told, though a command may die at any point.            *)
(***************************************************************************)
EXTENDS PkgStore, TLAPS, Integers, FiniteSetTheorems, SequenceTheorems,
        WellFoundedInduction

-----------------------------------------------------------------------------
(* Numbers                                                                 *)

LEMMA LeastExists ==
    ASSUME NEW S, S \subseteq Nat, S # {}
    PROVE  \E m \in S : \A x \in S : m <= x
<1>1. PICK m \in S : \A x \in S : <<x, m>> \notin OpToRel(<, Nat)
  BY NatLessThanWellFounded, WFMin, Zenon
<1>2. \A x \in S : ~(x < m)
  BY <1>1, Zenon DEF OpToRel
<1> QED
  BY <1>2

-----------------------------------------------------------------------------
(* Versions and the registry                                               *)

Same(v, w) == \A i \in Nat \ {0} : Part(v, i) = Part(w, i)

LEMMA Parts ==
    ASSUME NEW v \in Seq(Nat), NEW i \in Nat \ {0}
    PROVE  Part(v, i) \in Nat /\ (i \notin DOMAIN v => Part(v, i) = 0)
BY DEF Part

\* Older, with the place of the first difference anywhere.
LEMMA OlderAnywhere ==
    ASSUME NEW v \in Seq(Nat), NEW w \in Seq(Nat)
    PROVE  Older(v, w) <=> \E i \in Nat \ {0} : /\ Part(v, i) < Part(w, i)
                                                /\ \A j \in 1..(i - 1) : Part(v, j) = Part(w, j)
<1>1. DOMAIN v \subseteq Nat \ {0} /\ DOMAIN w \subseteq Nat \ {0}
  OBVIOUS
<1>2. \A i \in Nat \ {0} : Part(v, i) < Part(w, i) => i \in DOMAIN v \cup DOMAIN w
  BY Parts
<1> QED
  BY <1>1, <1>2 DEF Older

\* compare_versions and its twin compareVersions agree with themselves: to be
\* older is irreflexive and transitive, and of two versions one is older
\* unless all their parts are the same, the missing ones counted as zeros.
THEOREM VersionsAreOrdered ==
    ASSUME NEW u \in Seq(Nat), NEW v \in Seq(Nat), NEW w \in Seq(Nat)
    PROVE  /\ ~Older(v, v)
           /\ Older(u, v) /\ Older(v, w) => Older(u, w)
           /\ ~Older(u, v) /\ ~Older(v, u) <=> Same(u, v)
<1> DEFINE First(x, y, i) == /\ i \in Nat \ {0} /\ Part(x, i) < Part(y, i)
                             /\ \A j \in 1..(i - 1) : Part(x, j) = Part(y, j)
<1>1. \A x, y \in {u, v, w} : Older(x, y) <=> \E i \in Nat \ {0} : First(x, y, i)
  BY OlderAnywhere
<1>2. \A x \in {u, v, w}, i \in Nat \ {0} : Part(x, i) \in Nat
  BY Parts
<1>3. ~Older(v, v)
  BY <1>1, <1>2
<1>4. ASSUME Older(u, v), Older(v, w)
      PROVE  Older(u, w)
  <2>1. PICK i \in Nat \ {0} : First(u, v, i)
    BY <1>1, <1>4
  <2>2. PICK k \in Nat \ {0} : First(v, w, k)
    BY <1>1, <1>4
  <2>3. CASE i < k
    <3>1. Part(v, i) = Part(w, i) /\ \A j \in 1..(i - 1) : Part(v, j) = Part(w, j)
      BY <2>2, <2>3
    <3> QED
      BY <1>1, <2>1, <3>1
  <2>4. CASE i >= k
    <3>1. /\ Part(u, k) <= Part(v, k)
          /\ \A j \in 1..(k - 1) : Part(u, j) = Part(v, j)
      <4>1. CASE i = k
        BY <1>2, <2>1, <4>1
      <4>2. CASE i > k
        <5>1. k \in 1..(i - 1)
          BY <4>2
        <5> QED
          BY <1>2, <2>1, <4>2, <5>1
      <4> QED
        BY <2>4, <4>1, <4>2
    <3>2. Part(u, k) < Part(w, k) /\ \A j \in 1..(k - 1) : Part(u, j) = Part(w, j)
      BY <1>2, <2>2, <3>1
    <3> QED
      BY <1>1, <3>2
  <2> QED
    BY <2>3, <2>4
<1>5. Same(u, v) => ~Older(u, v) /\ ~Older(v, u)
  BY <1>1, <1>2 DEF Same
<1>6. ASSUME ~Same(u, v)
      PROVE  Older(u, v) \/ Older(v, u)
  <2> DEFINE D == {i \in Nat \ {0} : Part(u, i) # Part(v, i)}
  <2>1. D \subseteq Nat /\ D # {}
    BY <1>6 DEF Same
  <2>2. PICK i \in D : \A x \in D : i <= x
    BY <2>1, LeastExists
  <2>3. \A j \in 1..(i - 1) : Part(u, j) = Part(v, j)
    BY <2>2
  <2>4. Part(u, i) < Part(v, i) \/ Part(v, i) < Part(u, i)
    BY <1>2, <2>2
  <2> QED
    BY <1>1, <2>2, <2>3, <2>4
<1> QED
  BY <1>3, <1>4, <1>5, <1>6

LEMMA SameVersions ==
    ASSUME NEW u \in Seq(Nat), NEW v \in Seq(Nat), NEW w \in Seq(Nat), Same(u, v)
    PROVE  Same(v, u) /\ (Older(u, w) <=> Older(v, w)) /\ (Older(w, u) <=> Older(w, v))
<1>1. Same(v, u)
  BY DEF Same
<1>2. \A i \in Nat \ {0} : Part(u, i) = Part(v, i)
  BY DEF Same
<1>3. \A i \in Nat \ {0} : \A j \in 1..(i - 1) : j \in Nat \ {0}
  OBVIOUS
<1>4. Older(u, w) <=> Older(v, w)
  BY <1>2, <1>3, OlderAnywhere
<1>5. Older(w, u) <=> Older(w, v)
  BY <1>2, <1>3, OlderAnywhere
<1> QED
  BY <1>1, <1>4, <1>5

\* The modules are packages, and their versions can be compared.
LEMMA ModulesTyped ==
    /\ Modules \in Seq(Pkgs) /\ DOMAIN Modules = 1..Len(Modules) /\ Len(Modules) \in Nat
    /\ \A k \in DOMAIN Modules : /\ Modules[k] \in Pkgs /\ Modules[k].name \in Names
                                 /\ Modules[k].version \in Versions
                                 /\ Modules[k] = [name |-> Modules[k].name,
                                                  version |-> Modules[k].version]
    /\ Versions \subseteq Seq(Nat)
<1>1. Modules \in Seq(Pkgs) /\ Versions \subseteq Seq(Nat)
  BY PkgStoreAssumption
<1>2. \A k \in DOMAIN Modules : Modules[k] \in Pkgs
  BY <1>1
<1> QED
  BY <1>1, <1>2 DEF Pkgs

\* The loop up to place m.
Loop(f, k) == IF k = 0 THEN [n \in Names |-> 0] ELSE LoadModule(f[k - 1], k)
Runs(f, m) == f = [k \in 0..m |-> Loop(f, k)]

\* There is such a run: the least m without one would follow on one that has.
LEMMA LoopRuns == Runs(latestByName, Len(Modules))
<1> DEFINE S == {m \in Nat : ~ \E f : Runs(f, m)}
<1>1. S = {}
  <2>1. SUFFICES ASSUME S # {} PROVE FALSE
    OBVIOUS
  <2>2. PICK m \in S : \A x \in S : m <= x
    BY <2>1, LeastExists
  <2>3. m # 0
    <3> DEFINE f == [k \in 0..0 |-> [n \in Names |-> 0]]
    <3>1. Runs(f, 0)
      BY DEF Runs, Loop
    <3> QED
      BY <2>2, <3>1
  <2>4. m - 1 \in Nat /\ m - 1 \notin S
    BY <2>2, <2>3
  <2>5. PICK g : Runs(g, m - 1)
    BY <2>4
  <2> DEFINE f == [k \in 0..m |-> IF k = m THEN Loop(g, m) ELSE g[k]]
  <2>6. \A k \in 0..(m - 1) : f[k] = g[k] /\ g[k] = Loop(g, k)
    BY <2>2, <2>4, <2>5 DEF Runs
  <2>7. ASSUME NEW k \in 0..m
        PROVE  f[k] = Loop(f, k)
    <3>1. k = 0 \/ k - 1 \in 0..(m - 1)
      BY <2>2
    <3>2. Loop(f, k) = Loop(g, k)
      BY <2>6, <3>1 DEF Loop
    <3>3. k = m \/ k \in 0..(m - 1)
      BY <2>2
    <3> QED
      BY <2>6, <3>2, <3>3
  <2>8. Runs(f, m)
    BY <2>7 DEF Runs
  <2> HIDE DEF f
  <2> QED
    BY <2>2, <2>8
<1>2. \E f : Runs(f, Len(Modules))
  BY <1>1, ModulesTyped
<1> QED
  BY <1>2, Zenon DEF latestByName, Runs, Loop

\* What is kept of name n after the first k modules: one of them, of which
\* none is newer, or nothing because there is none.
Keeps(seen, k, n) ==
  /\ seen[n] = 0 => \A j \in 1..k : Modules[j].name # n
  /\ seen[n] # 0 =>
       /\ seen[n] \in 1..k /\ Modules[seen[n]].name = n
       /\ \A j \in 1..k : Modules[j].name = n =>
             ~Older(Modules[seen[n]].version, Modules[j].version)

LEMMA ModuleLoads ==
    ASSUME NEW seen, DOMAIN seen = Names, NEW k \in DOMAIN Modules,
           \A n \in Names : Keeps(seen, k - 1, n)
    PROVE  LET next == LoadModule(seen, k) IN
           DOMAIN next = Names /\ \A n \in Names : Keeps(next, k, n)
<1> DEFINE next == LoadModule(seen, k)
           name == Modules[k].name
           v(j) == Modules[j].version
<1>1. /\ k \in Nat \ {0} /\ name \in Names
      /\ \A j \in 1..k : j \in DOMAIN Modules /\ (j = k \/ j \in 1..(k - 1))
  BY ModulesTyped
<1>2. \A i, j, l \in DOMAIN Modules :
        ~Older(v(i), v(i)) /\ (Older(v(i), v(j)) /\ Older(v(j), v(l)) => Older(v(i), v(l)))
  BY ModulesTyped, VersionsAreOrdered
<1>3. DOMAIN next = Names
  BY DEF LoadModule
<1>4. ASSUME NEW n \in Names PROVE Keeps(next, k, n)
  <2>1. CASE n # name
    <3>1. next[n] = seen[n]
      BY <1>1, <2>1 DEF LoadModule
    <3>2. 1..(k - 1) \subseteq 1..k
      BY <1>1
    <3> QED
      BY <1>1, <1>4, <2>1, <3>1, <3>2 DEF Keeps
  <2>2. CASE n = name /\ (seen[n] = 0 \/ Older(v(seen[n]), v(k)))
    <3>1. next[n] = k
      BY <1>1, <2>2 DEF LoadModule
    <3>2. ASSUME NEW j \in 1..k, Modules[j].name = n PROVE ~Older(v(k), v(j))
      <4>1. CASE j = k
        BY <1>1, <1>2, <4>1
      <4>2. CASE j # k
        <5>1. j \in 1..(k - 1) /\ seen[n] # 0
          BY <1>1, <1>4, <3>2, <4>2 DEF Keeps
        <5>2. seen[n] \in 1..(k - 1) /\ ~Older(v(seen[n]), v(j))
          BY <1>4, <3>2, <5>1 DEF Keeps
        <5>3. seen[n] \in 1..k
          BY <1>1, <5>2
        <5> QED
          BY <1>1, <1>2, <2>2, <5>1, <5>2, <5>3
      <4> QED
        BY <4>1, <4>2
    <3> QED
      BY <1>1, <2>2, <3>1, <3>2 DEF Keeps
  <2>3. CASE n = name /\ seen[n] # 0 /\ ~Older(v(seen[n]), v(k))
    <3>1. next[n] = seen[n]
      BY <1>1, <2>3 DEF LoadModule
    <3>2. seen[n] \in 1..k
      BY <1>1, <1>4, <2>3 DEF Keeps
    <3> QED
      BY <1>1, <1>4, <2>3, <3>1, <3>2 DEF Keeps
  <2> QED
    BY <2>1, <2>2, <2>3
<1> QED
  BY <1>3, <1>4

\* The registry's answer is a version it has a module of, and no module of
\* that name has a newer one, whatever the order of the directory; and a name
\* that has a module has an answer.  By the loop, module after module: Keeps.
\* (loadPackagesFromModules, compareVersions)
THEOREM NewestIsOffered ==
    ASSUME NEW n \in Names
    PROVE  /\ (\E m \in Range(Modules) : m.name = n) => Fetched(n) # {}
           /\ \A v \in Fetched(n) :
                /\ [name |-> n, version |-> v] \in Range(Modules) /\ v \in Versions
                /\ \A m \in Range(Modules) : m.name = n => ~Older(v, m.version)
<1> DEFINE seen(k) == latestByName[k]
           Good(k) == DOMAIN seen(k) = Names /\ \A l \in Names : Keeps(seen(k), k, l)
           S == {k \in 0..Len(Modules) : ~Good(k)}
           last == Len(Modules)
<1>1. last \in Nat /\ DOMAIN Modules = 1..last
  BY ModulesTyped
<1>2. \A k \in 0..last : seen(k) = Loop(latestByName, k)
  BY LoopRuns DEF Runs
<1>3. S = {}
  <2>1. SUFFICES ASSUME S # {} PROVE FALSE
    OBVIOUS
  <2>2. PICK k \in S : \A x \in S : k <= x
    <3>1. S \subseteq Nat
      BY <1>1
    <3> QED
      BY <2>1, <3>1, LeastExists
  <2>3. k # 0
    <3>1. seen(0) = [l \in Names |-> 0]
      BY <1>1, <1>2 DEF Loop
    <3>2. Good(0)
      BY <3>1 DEF Keeps
    <3> QED
      BY <2>2, <3>2
  <2>4. k - 1 \in 0..last /\ k \in DOMAIN Modules /\ ~(k <= k - 1)
    BY <1>1, <2>2, <2>3
  <2>5. Good(k - 1)
    BY <2>2, <2>4
  <2>6. seen(k) = LoadModule(seen(k - 1), k)
    BY <1>2, <2>2, <2>3 DEF Loop
  <2> HIDE DEF seen
  <2>7. Good(k)
    BY <2>4, <2>5, <2>6, ModuleLoads
  <2> QED
    BY <2>2, <2>7
<1>4. Keeps(seen(last), last, n) /\ seen(last)[n] = Latest(n)
  <2>1. last \in 0..last
    BY <1>1
  <2> QED
    BY <1>3, <2>1 DEF Latest
<1>5. CASE Latest(n) = 0
  BY <1>1, <1>4, <1>5 DEF Keeps, Fetched, Range
<1>6. CASE Latest(n) # 0
  <2>1. /\ Latest(n) \in DOMAIN Modules /\ Modules[Latest(n)].name = n
        /\ \A j \in DOMAIN Modules : Modules[j].name = n =>
              ~Older(Modules[Latest(n)].version, Modules[j].version)
    BY <1>1, <1>4, <1>6 DEF Keeps
  <2>2. Fetched(n) = {Modules[Latest(n)].version}
    BY <1>6 DEF Fetched
  <2> QED
    BY <2>1, <2>2, ModulesTyped DEF Range
<1> QED
  BY <1>5, <1>6

-----------------------------------------------------------------------------
(* The lines that are kept                                                 *)

Increasing(f) == \A i, j \in DOMAIN f : i < j => f[i] < f[j]

\* A set of places has an enumeration in order, and each one meets them all.
LEMMA PlacesInOrder ==
    ASSUME NEW n \in Nat, NEW S, S \subseteq 1..n
    PROVE  /\ Cardinality(S) \in Nat
           /\ \E f \in [1..Cardinality(S) -> S] : Increasing(f)
           /\ \A f \in [1..Cardinality(S) -> S] : Increasing(f) => Range(f) = S
<1> DEFINE N == Cardinality(S)
           upto(k) == {j \in S : j <= k}
           rank == [k \in S |-> Cardinality(upto(k))]
<1>1. IsFiniteSet(S) /\ N \in Nat /\ IsFiniteSet(1..N) /\ Cardinality(1..N) = N
  <2>1. IsFiniteSet(1..n)
    BY FS_Interval
  <2>2. IsFiniteSet(S)
    BY <2>1, FS_Subset
  <2>3. N \in Nat
    BY <2>2, FS_CardinalityType
  <2>4. IsFiniteSet(1..N) /\ Cardinality(1..N) = IF 1 > N THEN 0 ELSE N - 1 + 1
    BY <2>3, FS_Interval
  <2> QED
    BY <2>2, <2>3, <2>4
<1>0. \A k \in S : k \in Nat
  OBVIOUS
<1>2. \A k \in S : k \in Nat /\ IsFiniteSet(upto(k)) /\ rank[k] \in 1..N
  <2>1. TAKE k \in S
  <2>2. k \in Nat /\ k \in upto(k) /\ upto(k) \in SUBSET S
    OBVIOUS
  <2> HIDE DEF upto
  <2>3. IsFiniteSet(upto(k)) /\ Cardinality(upto(k)) <= N
    BY <1>1, <2>2, FS_Subset
  <2>4. Cardinality(upto(k)) \in Nat /\ Cardinality(upto(k)) # 0
    BY <2>2, <2>3, FS_CardinalityType, FS_EmptySet
  <2> QED
    BY <1>1, <2>2, <2>3, <2>4
<1>3. \A k, l \in S : k < l => rank[k] < rank[l]
  <2>1. SUFFICES ASSUME NEW k \in S, NEW l \in S, k < l
                 PROVE  Cardinality(upto(k)) < Cardinality(upto(l))
    OBVIOUS
  <2>2. upto(k) \in SUBSET upto(l) /\ l \in upto(l) /\ l \notin upto(k)
    <3>1. k \in Nat /\ l \in Nat /\ k \in S /\ l \in S
      BY <1>0
    <3>2. \A j \in S : j <= k => j <= l
      BY <1>0, <2>1, <3>1
    <3>3. upto(k) \in SUBSET upto(l)
      BY <3>2
    <3>4. l <= l /\ ~(l <= k)
      BY <2>1, <3>1
    <3> QED
      BY <3>1, <3>3, <3>4
  <2>3. IsFiniteSet(upto(l)) /\ IsFiniteSet(upto(k))
    BY <1>2
  <2> HIDE DEF upto
  <2>4. /\ Cardinality(upto(k)) <= Cardinality(upto(l))
        /\ Cardinality(upto(l)) = Cardinality(upto(k)) => upto(l) = upto(k)
    BY <2>2, <2>3, FS_Subset
  <2>5. Cardinality(upto(k)) \in Nat /\ Cardinality(upto(l)) \in Nat
    BY <2>3, FS_CardinalityType
  <2> QED
    BY <2>2, <2>4, <2>5
<1> HIDE DEF rank
<1>4. rank \in [S -> 1..N]
  BY <1>2 DEF rank
<1>5. \A i \in 1..N : \E k \in S : rank[k] = i
  <2>1. IsInjective(rank)
    <3>1. \A k, l \in S : rank[k] = rank[l] => ~(k < l) /\ ~(l < k)
      <4>1. \A k \in S : rank[k] \in Int
        BY <1>1, <1>4
      <4> QED
        BY <1>3, <4>1
    <3> QED
      BY <1>2, <1>4, <3>1 DEF IsInjective
  <2>2. rank \in Injection(S, 1..N)
    BY <1>4, <2>1 DEF Injection
  <2>3. rank \in Surjection(S, 1..N)
    BY <1>1, <2>2, FS_Injection
  <2> QED
    BY <2>3 DEF Surjection
<1>6. \E f \in [1..N -> S] : Increasing(f)
  <2> DEFINE g == [i \in 1..N |-> CHOOSE k \in S : rank[k] = i]
  <2>1. \A i \in 1..N : g[i] \in S /\ rank[g[i]] = i
    BY <1>5
  <2>2. g \in [1..N -> S]
    BY <2>1
  <2> HIDE DEF g
  <2>3. ASSUME NEW i \in 1..N, NEW j \in 1..N, i < j
        PROVE  g[i] < g[j]
    <3>1. g[i] \in Nat /\ g[j] \in Nat
      BY <1>2, <2>1
    <3>2. g[j] < g[i] => j < i
      BY <1>3, <2>1
    <3>3. g[j] = g[i] => j = i
      BY <2>1
    <3> QED
      BY <1>1, <2>3, <3>1, <3>2, <3>3
  <2> QED
    BY <2>2, <2>3 DEF Increasing
<1>7. ASSUME NEW f \in [1..N -> S], Increasing(f)
      PROVE  Range(f) = S
  <2>1. IsInjective(f)
    <3>1. \A i, j \in 1..N : f[i] = f[j] => ~(i < j) /\ ~(j < i)
      <4>1. \A i \in 1..N : f[i] \in Nat
        <5>1. \A i \in 1..N : f[i] \in S
          OBVIOUS
        <5> HIDE DEF N
        <5> QED
          BY <1>0, <5>1, Zenon
      <4>2. \A i, j \in 1..N : i < j => f[i] < f[j]
        BY <1>7 DEF Increasing
      <4> QED
        BY <4>1, <4>2
    <3> QED
      BY <1>1, <3>1 DEF IsInjective
  <2>2. f \in Injection(1..N, S)
    BY <2>1 DEF Injection
  <2>3. f \in Surjection(1..N, S)
    BY <1>1, <2>2, FS_Injection
  <2> QED
    BY <2>3 DEF Surjection, Range
<1> QED
  BY <1>1, <1>6, <1>7

\* pkgdb_remove keeps the lines of the other names, and no other line.
LEMMA OthersAreKept ==
    ASSUME NEW lines \in Seq(Pkgs), NEW t
    PROVE  /\ KeepOthers(lines, t) \in Seq(Pkgs)
           /\ Range(KeepOthers(lines, t)) = {r \in Range(lines) : r.name # t.name}
<1> DEFINE kept == {k \in DOMAIN lines : lines[k].name # t.name}
           order == CHOOSE f \in [1..Cardinality(kept) -> kept] :
                      \A i, j \in DOMAIN f : i < j => f[i] < f[j]
<1>1. kept \subseteq 1..Len(lines) /\ Len(lines) \in Nat
  OBVIOUS
<1>2. KeepOthers(lines, t) = [i \in DOMAIN order |-> lines[order[i]]]
  BY DEF KeepOthers
<1> HIDE DEF kept
<1>3. /\ Cardinality(kept) \in Nat
      /\ \E f \in [1..Cardinality(kept) -> kept] : Increasing(f)
      /\ \A f \in [1..Cardinality(kept) -> kept] : Increasing(f) => Range(f) = kept
  BY <1>1, PlacesInOrder
<1>4. order \in [1..Cardinality(kept) -> kept] /\ Increasing(order)
  BY <1>3 DEF Increasing
<1> HIDE DEF order
<1>5. Range(order) = kept /\ DOMAIN order = 1..Cardinality(kept)
  BY <1>3, <1>4
<1>6. \A i \in 1..Cardinality(kept) : lines[order[i]] \in Pkgs
  <2>1. TAKE i \in 1..Cardinality(kept)
  <2>2. order[i] \in 1..Len(lines)
    BY <1>1, <1>4
  <2> QED
    BY <2>2
<1>7. KeepOthers(lines, t) \in Seq(Pkgs)
  BY <1>2, <1>3, <1>5, <1>6
<1>8. Range(KeepOthers(lines, t)) = {lines[k] : k \in kept}
  BY <1>2, <1>5 DEF Range
<1> QED
  BY <1>7, <1>8 DEF Range, kept

-----------------------------------------------------------------------------
(* Types                                                                   *)

Installing == {"mkdir", "extract", "cleanup", "unlink", "symlink"}
Recording == {"addOpen", "addWrite"}
Removing == {"meta", "unlinkAll", "rmTree", "rmDir"}
Dropping == {"dropOpen", "dropTmp", "dropCopy", "dropFlush", "dropRename"}

\* Which command is at which step, and what it has to go on.
CommandOK(r) ==
    /\ r.pc = "idle" => r = Idle
    /\ r.pc # "idle" => r.pkg \in Pkgs
    /\ r.pc \in Installing => r.op \in {"install", "upgrade"}
    /\ r.pc \in Recording => r.op \in {"install", "upgrade", "record"}
    /\ r.pc \in Removing => r.op = "remove"
    /\ r.pc \in Dropping => r.op \in {"upgrade", "remove"}
    /\ r.pc \in {"unlink", "symlink", "unlinkAll"} => r.todo # <<>>
    /\ r.pc \in {"dropTmp", "dropCopy"} => r.fin \in Inodes

Typed == TypeOK /\ \A p \in Procs : CommandOK(proc[p])

LEMMA IdleTyped == Idle \in Locals /\ CommandOK(Idle) /\ Idle.pc = "idle" /\ Idle.op = "none"
BY DEF Idle, Command, Locals, CommandOK, Installing, Recording, Removing, Dropping

LEMMA CommandTyped ==
    ASSUME NEW op, NEW t \in Pkgs, NEW label,
           \/ op \in {"install", "upgrade"} /\ label = "mkdir"
           \/ op = "remove" /\ label = "meta"
           \/ op = "record" /\ label = "addOpen"
    PROVE  /\ Command(op, t, label) \in Locals /\ CommandOK(Command(op, t, label))
           /\ Command(op, t, label).pc = label /\ Command(op, t, label).op = op
           /\ Command(op, t, label).pkg = t /\ Command(op, t, label).todo = <<>>
BY DEF Command, Locals, CommandOK, Installing, Recording, Removing, Dropping

\* A step of p leaves the types alone when it leaves them alone for p.
LEMMA StepTyped ==
    ASSUME Typed, NEW p \in Procs, NEW r \in Locals, CommandOK(r),
           proc' = [proc EXCEPT ![p] = r]
    PROVE  proc' \in [Procs -> Locals] /\ \A q \in Procs : CommandOK(proc[q])'
<1>1. proc \in [Procs -> Locals] /\ \A q \in Procs : CommandOK(proc[q])
  BY DEF Typed, TypeOK
<1>2. \A q \in Procs : proc'[q] = IF q = p THEN r ELSE proc[q]
  BY <1>1
<1>3. \A q \in Procs : CommandOK(proc'[q])
  BY <1>1, <1>2
<1> QED
  BY <1>1, <1>3 DEF CommandOK

LEMMA HeadIn ==
    ASSUME NEW S, NEW s \in Seq(S), s # <<>>
    PROVE  /\ Head(s) \in S /\ Tail(s) \in Seq(S) /\ Range(s) = {Head(s)} \cup Range(Tail(s))
<1>1. /\ Head(s) \in S /\ Tail(s) \in Seq(S) /\ Len(Tail(s)) = Len(s) - 1
      /\ \A i \in 1..Len(Tail(s)) : Tail(s)[i] = s[i + 1]
  BY HeadTailProperties
<1>2. Len(s) \in Nat /\ Len(s) # 0 /\ Head(s) = s[1] /\ DOMAIN s = 1..Len(s)
      /\ DOMAIN Tail(s) = 1..(Len(s) - 1)
  BY <1>1
<1>3. \A i \in 1..Len(s) : i = 1 \/ (i - 1 \in 1..(Len(s) - 1) /\ s[i] = Tail(s)[i - 1])
  BY <1>1, <1>2
<1>4. Range(s) \subseteq {Head(s)} \cup Range(Tail(s))
  BY <1>2, <1>3 DEF Range
<1>5. {Head(s)} \cup Range(Tail(s)) \subseteq Range(s)
  <2>1. 1 \in 1..Len(s) /\ \A i \in 1..(Len(s) - 1) : i + 1 \in 1..Len(s) /\ Tail(s)[i] = s[i + 1]
    BY <1>1, <1>2
  <2> QED
    BY <1>2, <2>1 DEF Range
<1> QED
  BY <1>1, <1>4, <1>5

LEMMA FoundTyped ==
    ASSUME Typed, NEW n \in Names, Mentions(n) # {}
    PROVE  [name |-> n, version |-> FoundVersion(n)] \in Pkgs
<1>1. Lines \in Seq(Pkgs)
  BY DEF Typed, TypeOK, Lines
<1>2. Mentions(n) \subseteq Nat
  BY <1>1 DEF Mentions
<1>3. \E k \in Mentions(n) : \A j \in Mentions(n) : k <= j
  BY <1>2, LeastExists
<1>4. (CHOOSE k \in Mentions(n) : \A j \in Mentions(n) : k <= j) \in DOMAIN Lines
  BY <1>3 DEF Mentions
<1>5. Lines[CHOOSE k \in Mentions(n) : \A j \in Mentions(n) : k <= j] \in Pkgs
  BY <1>1, <1>4
<1> QED
  BY <1>5 DEF FoundVersion, Pkgs

\* What the steps of a command make of its locals.
Labels == {"idle"} \cup Installing \cup Recording \cup Removing \cup Dropping

LEMMA Moved ==
    ASSUME NEW r \in Locals, NEW label \in Labels, NEW s, s = [r EXCEPT !.pc = label]
    PROVE  /\ s \in Locals /\ s.pc = label /\ s.op = r.op /\ s.pkg = r.pkg /\ s.todo = r.todo
           /\ s.fin = r.fin /\ s.fout = r.fout /\ s.buf = r.buf
BY DEF Locals, Labels, Installing, Recording, Removing, Dropping

-----------------------------------------------------------------------------
(* What each action does, field by field                                   *)

SameCommand(r, s) == s.op = r.op /\ s.pkg = r.pkg
Step(p, s) == proc' = [proc EXCEPT ![p] = s] /\ s \in Locals /\ CommandOK(s)

LEMMA LocalsOf ==
    ASSUME Typed, NEW p \in Procs
    PROVE  proc[p] \in Locals /\ CommandOK(proc[p])
BY DEF Typed, TypeOK

LEMMA StartDoes ==
    ASSUME Typed, NEW p \in Procs, Start(p)
    PROVE  /\ UNCHANGED <<diskVars, tree, link, histVars>> /\ proc[p].pc = "idle"
           /\ \E s : /\ Step(p, s) /\ s.todo = <<>>
                     /\ \/ s.pc = "mkdir" /\ s.op \in {"install", "upgrade"}
                        \/ s.pc = "meta" /\ s.op = "remove"
<1>1. CASE \E t \in Pkgs : Install(p, t)
  <2>1. PICK t \in Pkgs : Install(p, t)
    BY <1>1
  <2> DEFINE s == Command("install", t, "mkdir")
  <2>2. /\ proc' = [proc EXCEPT ![p] = s] /\ proc[p].pc = "idle"
        /\ UNCHANGED <<diskVars, tree, link, histVars>>
    BY <2>1 DEF Install, At
  <2>3. s \in Locals /\ CommandOK(s) /\ s.todo = <<>> /\ s.pc = "mkdir" /\ s.op = "install"
    BY CommandTyped
  <2> HIDE DEF s
  <2> QED
    BY <2>2, <2>3 DEF Step
<1>2. CASE \E n \in Names : Upgrade(p, n)
  <2>1. PICK n \in Names : Upgrade(p, n)
    BY <1>2
  <2>0. PICK v \in Fetched(n) :
          proc' = [proc EXCEPT ![p] = Command("upgrade", [name |-> n, version |-> v], "mkdir")]
    BY <2>1 DEF Upgrade
  <2> DEFINE t == [name |-> n, version |-> v]
             s == Command("upgrade", t, "mkdir")
  <2>2. /\ proc' = [proc EXCEPT ![p] = s] /\ proc[p].pc = "idle"
        /\ UNCHANGED <<diskVars, tree, link, histVars>>
    BY <2>0, <2>1 DEF Upgrade, At
  <2>3. t \in Pkgs
    BY NewestIsOffered DEF Pkgs
  <2> HIDE DEF t
  <2>4. s \in Locals /\ CommandOK(s) /\ s.todo = <<>> /\ s.pc = "mkdir" /\ s.op = "upgrade"
    BY <2>3, CommandTyped
  <2> HIDE DEF s
  <2> QED
    BY <2>2, <2>4 DEF Step
<1>3. CASE \E n \in Names : Remove(p, n)
  <2>1. PICK n \in Names : Remove(p, n)
    BY <1>3
  <2> DEFINE t == [name |-> n, version |-> FoundVersion(n)]
             s == Command("remove", t, "meta")
  <2>2. /\ proc' = [proc EXCEPT ![p] = s] /\ proc[p].pc = "idle"
        /\ UNCHANGED <<diskVars, tree, link, histVars>> /\ Mentions(n) # {}
    BY <2>1 DEF Remove, At
  <2>3. t \in Pkgs
    BY <2>2, FoundTyped
  <2> HIDE DEF t
  <2>4. s \in Locals /\ CommandOK(s) /\ s.todo = <<>> /\ s.pc = "meta" /\ s.op = "remove"
    BY <2>3, CommandTyped
  <2> HIDE DEF s
  <2> QED
    BY <2>2, <2>4 DEF Step
<1> QED
  BY <1>1, <1>2, <1>3 DEF Start

LEMMA MakeTreeDoes ==
    ASSUME Typed, NEW p \in Procs, MakeTree(p)
    PROVE  LET r == proc[p] IN
           /\ r.pc = "mkdir" /\ r.pkg \in Pkgs /\ UNCHANGED <<diskVars, link, cut>>
           /\ \E s : /\ Step(p, s)
                     /\ \/ /\ tree' = [tree EXCEPT ![r.pkg] = "partial"] /\ torn' = torn \cup {r.pkg}
                           /\ s.pc = "extract" /\ SameCommand(r, s) /\ s.todo = r.todo
                        \/ "disk" \in Faults /\ s = Idle /\ tree' = tree /\ torn' = torn
<1> DEFINE r == proc[p]
           s == [r EXCEPT !.pc = "extract"]
<1>1. r \in Locals /\ CommandOK(r) /\ r.pc = "mkdir" /\ UNCHANGED <<diskVars, link, cut>>
  BY LocalsOf DEF MakeTree, At
<1>2. CASE /\ tree' = [tree EXCEPT ![r.pkg] = "partial"] /\ torn' = torn \cup {r.pkg}
           /\ proc' = [proc EXCEPT ![p] = s]
  <2>1. s \in Locals /\ s.pc = "extract" /\ s.op = r.op /\ s.pkg = r.pkg /\ s.todo = r.todo
    BY <1>1, Moved DEF Labels, Installing
  <2>2. CommandOK(s)
    BY <1>1, <2>1 DEF CommandOK, Installing, Recording, Removing, Dropping
  <2> HIDE DEF s
  <2> QED
    BY <1>1, <1>2, <2>1, <2>2 DEF Step, SameCommand, CommandOK
<1>3. CASE "disk" \in Faults /\ Done(p) /\ UNCHANGED <<tree, torn>>
  BY <1>1, <1>3, IdleTyped DEF Done, Step, CommandOK
<1> QED
  BY <1>2, <1>3 DEF MakeTree, Goto

LEMMA ExtractDoes ==
    ASSUME Typed, NEW p \in Procs, Extract(p)
    PROVE  LET r == proc[p] IN
           /\ r.pc = "extract" /\ r.pkg \in Pkgs /\ UNCHANGED <<diskVars, link, cut>>
           /\ \E s : /\ Step(p, s) /\ SameCommand(r, s)
                     /\ \/ /\ tree' = [tree EXCEPT ![r.pkg] = "full"] /\ torn' = torn \ {r.pkg}
                           /\ s.todo = Files[r.pkg] /\ s.pc = AfterLinks(s.todo)
                        \/ /\ s.pc = "cleanup" /\ s.todo = r.todo
                           /\ tree' = tree /\ torn' = torn
<1> DEFINE r == proc[p]
           todo == Files[r.pkg]
           label == AfterLinks(todo)
           s == [r EXCEPT !.todo = todo, !.pc = label]
           c == [r EXCEPT !.pc = "cleanup"]
<1>1. /\ r \in Locals /\ CommandOK(r) /\ r.pc = "extract" /\ r.pkg \in Pkgs
      /\ UNCHANGED <<diskVars, link, cut>>
  BY LocalsOf DEF Extract, At, CommandOK
<1>2. CASE /\ tree' = [tree EXCEPT ![r.pkg] = "full"] /\ torn' = torn \ {r.pkg}
           /\ proc' = [proc EXCEPT ![p] = s]
  <2>1. todo \in Seq(Bins)
    BY <1>1, PkgStoreAssumption
  <2> HIDE DEF todo
  <2>2. label \in Labels /\ label = IF todo = <<>> THEN "addOpen" ELSE "unlink"
    BY DEF AfterLinks, Labels, Installing, Recording
  <2> HIDE DEF label
  <2>a. s = [r EXCEPT !.todo = todo, !.pc = label]
    OBVIOUS
  <2> HIDE DEF s
  <2>3. /\ s \in Locals /\ s.pc = label /\ s.op = r.op /\ s.pkg = r.pkg /\ s.todo = todo
    <3> HIDE DEF r
    <3>1. r \in Locals /\ label \in Labels
      BY <1>1, <2>2
    <3> QED
      BY <2>1, <2>a, <3>1 DEF Locals, Labels, Installing, Recording, Removing, Dropping
  <2>4. CommandOK(s)
    BY <1>1, <2>2, <2>3 DEF CommandOK, Installing, Recording, Removing, Dropping
  <2> QED
    BY <1>1, <1>2, <2>3, <2>4 DEF Step, SameCommand, todo, label
<1>3. CASE proc' = [proc EXCEPT ![p] = c] /\ UNCHANGED <<tree, torn>>
  <2>1. c \in Locals /\ c.pc = "cleanup" /\ c.op = r.op /\ c.pkg = r.pkg /\ c.todo = r.todo
    BY <1>1, Moved DEF Labels, Installing
  <2>2. CommandOK(c)
    BY <1>1, <2>1 DEF CommandOK, Installing, Recording, Removing, Dropping
  <2> HIDE DEF c
  <2> QED
    BY <1>1, <1>3, <2>1, <2>2 DEF Step, SameCommand
<1> QED
  BY <1>2, <1>3 DEF Extract, Goto

LEMMA CleanupDoes ==
    ASSUME Typed, NEW p \in Procs, Cleanup(p)
    PROVE  LET r == proc[p] IN
           /\ r.pc = "cleanup" /\ r.pkg \in Pkgs /\ UNCHANGED <<diskVars, link, histVars>>
           /\ tree' = [tree EXCEPT ![r.pkg] = "none"] /\ Step(p, Idle)
BY LocalsOf, IdleTyped DEF Cleanup, At, Done, Step, CommandOK

LEMMA UnlinkDoes ==
    ASSUME Typed, NEW p \in Procs, Unlink(p)
    PROVE  LET r == proc[p] IN
           /\ r.pc = "unlink" /\ r.pkg \in Pkgs /\ UNCHANGED <<diskVars, tree, histVars>>
           /\ link' = [link EXCEPT ![Head(r.todo)] = NoPkg]
           /\ \E s : /\ Step(p, s) /\ SameCommand(r, s)
                     /\ s.pc = "symlink" /\ s.todo = r.todo
<1> DEFINE r == proc[p]
           s == [r EXCEPT !.pc = "symlink"]
<1>1. /\ r \in Locals /\ CommandOK(r) /\ r.pc = "unlink" /\ r.pkg \in Pkgs /\ r.todo # <<>>
      /\ UNCHANGED <<diskVars, tree, histVars>>
      /\ link' = [link EXCEPT ![Head(r.todo)] = NoPkg]
      /\ proc' = [proc EXCEPT ![p] = s]
  BY LocalsOf DEF Unlink, At, Goto, CommandOK
<1>2. s \in Locals /\ s.pc = "symlink" /\ s.op = r.op /\ s.pkg = r.pkg /\ s.todo = r.todo
  BY <1>1 DEF Locals
<1> HIDE DEF s
<1>3. CommandOK(s)
  BY <1>1, <1>2 DEF CommandOK, Installing, Recording, Removing, Dropping
<1> QED
  BY <1>1, <1>2, <1>3 DEF Step, SameCommand

\* A turn of the loop over files[] ends, and the next one begins.
LEMMA LoopTurns ==
    ASSUME NEW r \in Locals, CommandOK(r), r.todo # <<>>, NEW label \in Labels, NEW s,
           s = [r EXCEPT !.todo = Tail(r.todo), !.pc = label],
           \/ r.pc = "symlink" /\ label = AfterLinks(Tail(r.todo))
           \/ r.pc = "unlinkAll" /\ label = AfterUnlinks(Tail(r.todo))
    PROVE  s \in Locals /\ CommandOK(s) /\ s.pc = label /\ SameCommand(r, s) /\ s.todo = Tail(r.todo)
<1> DEFINE rest == Tail(r.todo)
<1>1. r.todo \in Seq(Bins) /\ rest \in Seq(Bins)
  BY HeadTailProperties DEF Locals
<1>2. \/ r.pc = "symlink" /\ label = IF rest = <<>> THEN "addOpen" ELSE "unlink"
      \/ r.pc = "unlinkAll" /\ label = IF rest = <<>> THEN "rmTree" ELSE "unlinkAll"
  BY DEF AfterLinks, AfterUnlinks
<1>3. s = [r EXCEPT !.todo = rest, !.pc = label]
  OBVIOUS
<1> HIDE DEF rest
<1>4. s \in Locals /\ s.pc = label /\ s.op = r.op /\ s.pkg = r.pkg /\ s.todo = rest /\ s.fin = r.fin
  BY <1>1, <1>3 DEF Locals, Labels, Installing, Recording, Removing, Dropping
<1>5. CommandOK(s)
  BY <1>2, <1>4 DEF CommandOK, Installing, Recording, Removing, Dropping
<1> QED
  BY <1>4, <1>5 DEF SameCommand, rest

LEMMA SymlinkDoes ==
    ASSUME Typed, NEW p \in Procs, Symlink(p)
    PROVE  LET r == proc[p] IN
           /\ r.pc = "symlink" /\ r.pkg \in Pkgs /\ UNCHANGED <<diskVars, tree, histVars>>
           /\ \/ link' = [link EXCEPT ![Head(r.todo)] = IF @ = NoPkg THEN r.pkg ELSE @]
              \/ "disk" \in Faults /\ link' = link
           /\ \E s : /\ Step(p, s) /\ SameCommand(r, s)
                     /\ s.todo = Tail(r.todo) /\ s.pc = AfterLinks(s.todo)
<1> DEFINE r == proc[p]
           label == AfterLinks(Tail(r.todo))
           s == [r EXCEPT !.todo = Tail(r.todo), !.pc = label]
<1>1. /\ r \in Locals /\ CommandOK(r) /\ r.pc = "symlink" /\ r.pkg \in Pkgs /\ r.todo # <<>>
      /\ UNCHANGED <<diskVars, tree, histVars>>
      /\ \/ link' = [link EXCEPT ![Head(r.todo)] = IF @ = NoPkg THEN r.pkg ELSE @]
         \/ "disk" \in Faults /\ link' = link
      /\ proc' = [proc EXCEPT ![p] = s]
  BY LocalsOf DEF Symlink, At, CommandOK
<1>2. label \in Labels /\ label = AfterLinks(Tail(r.todo))
  BY DEF AfterLinks, Labels, Installing, Recording
<1> HIDE DEF label
<1>a. s = [r EXCEPT !.todo = Tail(r.todo), !.pc = label]
  OBVIOUS
<1> HIDE DEF s
<1>b. /\ r \in Locals /\ CommandOK(r) /\ r.pc = "symlink" /\ r.todo # <<>>
  BY <1>1
<1>3. s \in Locals /\ CommandOK(s) /\ s.pc = label /\ SameCommand(r, s) /\ s.todo = Tail(r.todo)
  <2> HIDE DEF r
  <2> QED
    BY <1>a, <1>b, <1>2, LoopTurns
<1> QED
  BY <1>1, <1>2, <1>3 DEF Step

LEMMA AfterAddOK ==
    ASSUME Typed, NEW p \in Procs, proc[p].pc \in Recording
    PROVE  LET s == AfterAdd(p) IN
           /\ s \in Locals /\ CommandOK(s)
           /\ IF proc[p].op = "upgrade"
              THEN SameCommand(proc[p], s) /\ s.pc = "dropOpen" /\ s.todo = proc[p].todo
              ELSE s = Idle
<1> DEFINE r == proc[p]
           s == [r EXCEPT !.pc = "dropOpen", !.fout = NoInode]
<1>1. r \in Locals /\ CommandOK(r) /\ r.pc \in Recording
  BY LocalsOf
<1>2. CASE r.op = "upgrade"
  <2>1. AfterAdd(p) = s
    BY <1>2 DEF AfterAdd
  <2>2. s \in Locals /\ s.pc = "dropOpen" /\ s.op = r.op /\ s.pkg = r.pkg /\ s.todo = r.todo
    BY <1>1 DEF Locals
  <2> HIDE DEF s
  <2>3. CommandOK(s)
    BY <1>1, <1>2, <2>2 DEF CommandOK, Installing, Recording, Removing, Dropping
  <2> QED
    BY <1>2, <2>1, <2>2, <2>3 DEF SameCommand
<1>3. CASE r.op # "upgrade"
  BY <1>3, IdleTyped DEF AfterAdd
<1> QED
  BY <1>2, <1>3

LEMMA AddOpenDoes ==
    ASSUME Typed, NEW p \in Procs, AddOpen(p)
    PROVE  LET r == proc[p] IN
           /\ r.pc = "addOpen" /\ r.pkg \in Pkgs /\ UNCHANGED <<tmp, tree, link, histVars>>
           /\ \E s : /\ Step(p, s)
                     /\ \/ /\ SameCommand(r, s) /\ s.pc = "addWrite" /\ s.todo = r.todo
                           /\ s.fout = db' /\ db' # NoInode
                           /\ \/ UNCHANGED <<content, db>>
                              \/ /\ db = NoInode /\ db' \in FreeInodes
                                 /\ content' = [content EXCEPT ![db'] = <<>>]
                        \/ "disk" \in Faults /\ s = AfterAdd(p) /\ UNCHANGED diskVars
<1> DEFINE r == proc[p]
           s(f) == [r EXCEPT !.fout = f, !.pc = "addWrite"]
<1>1. /\ r \in Locals /\ CommandOK(r) /\ r.pc = "addOpen" /\ r.pkg \in Pkgs
      /\ UNCHANGED <<tree, link, histVars>>
  BY LocalsOf DEF AddOpen, At, CommandOK
<1>2. ASSUME NEW f \in Inodes
      PROVE  /\ s(f) \in Locals /\ CommandOK(s(f)) /\ SameCommand(r, s(f))
             /\ s(f).pc = "addWrite" /\ s(f).todo = r.todo /\ s(f).fout = f
  <2>1. /\ s(f) \in Locals /\ s(f).pc = "addWrite" /\ s(f).todo = r.todo /\ s(f).fout = f
        /\ s(f).op = r.op /\ s(f).pkg = r.pkg
    BY <1>1 DEF Locals
  <2> HIDE DEF s
  <2>2. CommandOK(s(f))
    BY <1>1, <2>1 DEF CommandOK, Installing, Recording, Removing, Dropping
  <2> QED
    BY <2>1, <2>2 DEF SameCommand
<1>3. CASE /\ db # NoInode /\ UNCHANGED diskVars
           /\ proc' = [proc EXCEPT ![p] = s(db)]
  <2>1. db \in Inodes /\ db' = db /\ tmp' = tmp /\ content' = content
    BY <1>3 DEF Typed, TypeOK, diskVars
  <2> HIDE DEF s
  <2> QED
    BY <1>1, <1>2, <1>3, <2>1 DEF Step
<1>4. CASE /\ db = NoInode /\ UNCHANGED tmp
           /\ \E i \in FreeInodes : /\ content' = [content EXCEPT ![i] = <<>>] /\ db' = i
                                    /\ proc' = [proc EXCEPT ![p] = s(i)]
  <2>1. db' \in FreeInodes /\ db' \in Inodes /\ db' # NoInode
    BY <1>4, PkgStoreAssumption DEF FreeInodes
  <2> HIDE DEF s
  <2> QED
    BY <1>1, <1>2, <1>4, <2>1 DEF Step
<1>5. CASE /\ "disk" \in Faults /\ proc' = [proc EXCEPT ![p] = AfterAdd(p)] /\ UNCHANGED diskVars
  <2>1. AfterAdd(p) \in Locals /\ CommandOK(AfterAdd(p))
    BY <1>1, AfterAddOK DEF Recording
  <2> QED
    BY <1>1, <1>5, <2>1 DEF Step, diskVars
<1> QED
  BY <1>3, <1>4, <1>5 DEF AddOpen

LEMMA AddWriteDoes ==
    ASSUME Typed, NEW p \in Procs, AddWrite(p)
    PROVE  LET r == proc[p] IN
           /\ r.pc = "addWrite" /\ r.pkg \in Pkgs /\ UNCHANGED <<db, tmp, tree, link, histVars>>
           /\ \/ content' = [content EXCEPT ![r.fout] = Append(@, r.pkg)]
              \/ "disk" \in Faults /\ content' = content
           /\ Step(p, AfterAdd(p))
<1>1. /\ proc[p] \in Locals /\ CommandOK(proc[p]) /\ proc[p].pc = "addWrite"
      /\ UNCHANGED <<db, tmp, tree, link, histVars>>
      /\ proc' = [proc EXCEPT ![p] = AfterAdd(p)]
      /\ \/ content' = [content EXCEPT ![proc[p].fout] = Append(@, proc[p].pkg)]
         \/ "disk" \in Faults /\ content' = content
  BY LocalsOf DEF AddWrite, At, Appended
<1>2. AfterAdd(p) \in Locals /\ CommandOK(AfterAdd(p))
  BY <1>1, AfterAddOK DEF Recording
<1> QED
  BY <1>1, <1>2 DEF Step, CommandOK

LEMMA AfterDropOK ==
    ASSUME Typed, NEW p \in Procs, proc[p].pc \in Dropping
    PROVE  LET s == AfterDrop(p) IN
           /\ s \in Locals /\ CommandOK(s) /\ s.todo = <<>>
           /\ IF proc[p].op = "upgrade"
              THEN s.op = "record" /\ s.pkg = proc[p].pkg /\ s.pc = "addOpen"
              ELSE s = Idle /\ proc[p].op = "remove"
<1>1. proc[p] \in Locals /\ CommandOK(proc[p]) /\ proc[p].pkg \in Pkgs
  BY LocalsOf DEF Dropping, CommandOK
<1>2. CASE proc[p].op = "upgrade"
  BY <1>1, <1>2, CommandTyped DEF AfterDrop
<1>3. CASE proc[p].op # "upgrade"
  <2>1. Idle.todo = <<>>
    BY DEF Idle, Command
  <2> QED
    BY <1>1, <1>3, <2>1, IdleTyped DEF AfterDrop, CommandOK
<1> QED
  BY <1>2, <1>3

\* A removal ends, or the record of an upgrade is next.
Ended(p, s) ==
    /\ s = AfterDrop(p)
    /\ cut' = IF proc[p].op = "remove" THEN cut \ {proc[p].pkg.name} ELSE cut

LEMMA EndDropDoes ==
    ASSUME Typed, NEW p \in Procs, proc[p].pc \in Dropping, EndDrop(p)
    PROVE  \E s : Step(p, s) /\ Ended(p, s)
BY AfterDropOK DEF EndDrop, Ended, Step

LEMMA DropOpenDoes ==
    ASSUME Typed, NEW p \in Procs, DropOpen(p)
    PROVE  LET r == proc[p] IN
           /\ r.pc = "dropOpen" /\ r.pkg \in Pkgs /\ UNCHANGED <<diskVars, tree, link, torn>>
           /\ \E s : /\ Step(p, s)
                     /\ \/ /\ SameCommand(r, s) /\ s.pc = "dropTmp" /\ s.todo = r.todo
                           /\ s.fin = db /\ db # NoInode /\ cut' = cut
                        \/ (db = NoInode \/ "disk" \in Faults) /\ Ended(p, s)
<1> DEFINE r == proc[p]
           s == [r EXCEPT !.fin = db, !.pc = "dropTmp"]
<1>1. /\ r \in Locals /\ CommandOK(r) /\ r.pc = "dropOpen" /\ r.pkg \in Pkgs
      /\ UNCHANGED <<diskVars, tree, link, torn>>
  BY LocalsOf DEF DropOpen, At, CommandOK
<1>2. CASE db # NoInode /\ proc' = [proc EXCEPT ![p] = s] /\ UNCHANGED cut
  <2>1. db \in Inodes
    BY <1>2 DEF Typed, TypeOK
  <2>2. /\ s \in Locals /\ s.pc = "dropTmp" /\ s.op = r.op /\ s.pkg = r.pkg /\ s.todo = r.todo
        /\ s.fin = db
    BY <1>1, <2>1 DEF Locals
  <2> HIDE DEF s
  <2>3. CommandOK(s)
    BY <1>1, <2>1, <2>2 DEF CommandOK, Installing, Recording, Removing, Dropping
  <2> QED
    BY <1>1, <1>2, <2>2, <2>3 DEF Step, SameCommand
<1>3. CASE (db = NoInode \/ "disk" \in Faults) /\ EndDrop(p)
  BY <1>1, <1>3, EndDropDoes DEF Dropping
<1> QED
  BY <1>2, <1>3 DEF DropOpen

LEMMA DropTmpDoes ==
    ASSUME Typed, NEW p \in Procs, DropTmp(p)
    PROVE  LET r == proc[p] IN
           /\ r.pc = "dropTmp" /\ r.pkg \in Pkgs /\ UNCHANGED <<db, tree, link, torn>>
           /\ \E s : /\ Step(p, s)
                     /\ \/ /\ SameCommand(r, s) /\ s.pc = "dropCopy" /\ s.todo = r.todo
                           /\ s.fin = r.fin /\ s.fout = tmp' /\ tmp' \in Inodes /\ cut' = cut
                           /\ IF tmp = NoInode THEN tmp' \in FreeInodes ELSE tmp' = tmp
                           /\ content' = [content EXCEPT ![tmp'] = <<>>]
                        \/ "disk" \in Faults /\ Ended(p, s) /\ UNCHANGED <<content, tmp>>
<1> DEFINE r == proc[p]
           s(i) == [r EXCEPT !.fout = i, !.pc = "dropCopy"]
<1>1. /\ r \in Locals /\ CommandOK(r) /\ r.pc = "dropTmp" /\ r.pkg \in Pkgs /\ r.fin \in Inodes
      /\ UNCHANGED <<db, tree, link, torn>>
  BY LocalsOf DEF DropTmp, At, CommandOK
<1>2. ASSUME NEW i \in Inodes
      PROVE  /\ s(i) \in Locals /\ CommandOK(s(i)) /\ SameCommand(r, s(i)) /\ s(i).fin = r.fin
             /\ s(i).pc = "dropCopy" /\ s(i).todo = r.todo /\ s(i).fout = i
  <2>1. /\ s(i) \in Locals /\ s(i).pc = "dropCopy" /\ s(i).todo = r.todo /\ s(i).fout = i
        /\ s(i).op = r.op /\ s(i).pkg = r.pkg /\ s(i).fin = r.fin
    BY <1>1 DEF Locals
  <2> HIDE DEF s
  <2>2. CommandOK(s(i))
    BY <1>1, <2>1 DEF CommandOK, Installing, Recording, Removing, Dropping
  <2> QED
    BY <2>1, <2>2 DEF SameCommand
<1>3. CASE /\ UNCHANGED cut
           /\ \E i \in IF tmp = NoInode THEN FreeInodes ELSE {tmp} :
                /\ content' = [content EXCEPT ![i] = <<>>] /\ tmp' = i
                /\ proc' = [proc EXCEPT ![p] = s(i)]
  <2>1. /\ tmp' \in Inodes /\ IF tmp = NoInode THEN tmp' \in FreeInodes ELSE tmp' = tmp
        /\ content' = [content EXCEPT ![tmp'] = <<>>]
    BY <1>3 DEF FreeInodes, Typed, TypeOK
  <2>2. proc' = [proc EXCEPT ![p] = s(tmp')]
    BY <1>3
  <2> HIDE DEF s
  <2>3. Step(p, s(tmp'))
    BY <1>2, <2>1, <2>2 DEF Step
  <2> QED
    BY <1>1, <1>2, <1>3, <2>1, <2>3
<1>4. CASE "disk" \in Faults /\ EndDrop(p) /\ UNCHANGED <<content, tmp>>
  BY <1>1, <1>4, EndDropDoes DEF Dropping
<1> QED
  BY <1>3, <1>4 DEF DropTmp

LEMMA DropCopyDoes ==
    ASSUME Typed, NEW p \in Procs, DropCopy(p)
    PROVE  LET r == proc[p] IN
           /\ r.pc = "dropCopy" /\ r.pkg \in Pkgs /\ UNCHANGED <<diskVars, tree, link, histVars>>
           /\ \E s : /\ Step(p, s) /\ SameCommand(r, s)
                     /\ s.pc = "dropFlush" /\ s.todo = r.todo /\ s.fout = r.fout
                     /\ s.buf = KeepOthers(content[r.fin], r.pkg)
<1> DEFINE r == proc[p]
           buf == KeepOthers(content[r.fin], r.pkg)
           s == [r EXCEPT !.buf = buf, !.pc = "dropFlush"]
<1>1. /\ r \in Locals /\ CommandOK(r) /\ r.pc = "dropCopy" /\ r.pkg \in Pkgs /\ r.fin \in Inodes
      /\ UNCHANGED <<diskVars, tree, link, histVars>>
      /\ proc' = [proc EXCEPT ![p] = s]
  BY LocalsOf DEF DropCopy, At, CommandOK
<1>2. buf \in Seq(Pkgs)
  <2>1. content[r.fin] \in Seq(Pkgs)
    BY <1>1 DEF Typed, TypeOK
  <2> QED
    BY <2>1, OthersAreKept
<1> HIDE DEF buf
<1>3. /\ s \in Locals /\ s.pc = "dropFlush" /\ s.op = r.op /\ s.pkg = r.pkg /\ s.todo = r.todo
      /\ s.fout = r.fout /\ s.buf = buf
  BY <1>1, <1>2 DEF Locals
<1> HIDE DEF s
<1>4. CommandOK(s)
  BY <1>1, <1>3 DEF CommandOK, Installing, Recording, Removing, Dropping
<1> QED
  BY <1>1, <1>3, <1>4 DEF Step, SameCommand, buf

LEMMA DropFlushDoes ==
    ASSUME Typed, NEW p \in Procs, DropFlush(p)
    PROVE  LET r == proc[p] IN
           /\ r.pc = "dropFlush" /\ r.pkg \in Pkgs /\ UNCHANGED <<db, tmp, tree, link, histVars>>
           /\ \E s : /\ Step(p, s) /\ SameCommand(r, s)
                     /\ s.pc = "dropRename" /\ s.todo = r.todo /\ s.fout = r.fout
           /\ r.buf \in Seq(Pkgs)
           /\ \E k \in 0..Len(r.buf) :
                /\ "disk" \notin Faults => k = Len(r.buf)
                /\ content' = [content EXCEPT ![r.fout] = WrittenOver(@, SubSeq(r.buf, 1, k))]
<1> DEFINE r == proc[p]
           s == [r EXCEPT !.pc = "dropRename"]
<1>1. /\ r \in Locals /\ CommandOK(r) /\ r.pc = "dropFlush" /\ r.pkg \in Pkgs /\ r.buf \in Seq(Pkgs)
      /\ UNCHANGED <<db, tmp, tree, link, histVars>>
      /\ proc' = [proc EXCEPT ![p] = s]
  BY LocalsOf DEF DropFlush, At, CommandOK, Goto, Locals
<1>2. \E k \in 0..Len(r.buf) :
        /\ "disk" \notin Faults => k = Len(r.buf)
        /\ content' = [content EXCEPT ![r.fout] = WrittenOver(@, SubSeq(r.buf, 1, k))]
  <2>1. Len(r.buf) \in Nat /\ Len(r.buf) \in 0..Len(r.buf)
    BY <1>1
  <2>2. PICK k \in IF "disk" \in Faults THEN 0..Len(r.buf) ELSE {Len(r.buf)} :
          content' = [content EXCEPT ![r.fout] = WrittenOver(@, SubSeq(r.buf, 1, k))]
    BY DEF DropFlush
  <2>3. k \in 0..Len(r.buf) /\ ("disk" \notin Faults => k = Len(r.buf))
    BY <2>1, <2>2
  <2> HIDE DEF r
  <2> QED
    BY <2>2, <2>3
<1>3. /\ s \in Locals /\ s.pc = "dropRename" /\ s.op = r.op /\ s.pkg = r.pkg /\ s.todo = r.todo
      /\ s.fout = r.fout
  BY <1>1 DEF Locals
<1> HIDE DEF s
<1>4. CommandOK(s)
  BY <1>1, <1>3 DEF CommandOK, Installing, Recording, Removing, Dropping
<1> QED
  BY <1>1, <1>2, <1>3, <1>4 DEF Step, SameCommand

LEMMA DropRenameDoes ==
    ASSUME Typed, NEW p \in Procs, DropRename(p)
    PROVE  LET r == proc[p] IN
           /\ r.pc = "dropRename" /\ r.pkg \in Pkgs /\ UNCHANGED <<tree, link, torn>>
           /\ \E s : Step(p, s) /\ Ended(p, s)
           /\ \/ tmp # NoInode /\ db' = tmp /\ tmp' = NoInode
              \/ (tmp = NoInode \/ "disk" \in Faults) /\ UNCHANGED <<db, tmp>>
           /\ content' = [i \in Inodes |-> IF i \in OpenFiles' THEN content[i] ELSE <<>>]
<1>1. /\ CommandOK(proc[p]) /\ proc[p].pc = "dropRename" /\ EndDrop(p)
      /\ UNCHANGED <<tree, link, torn>>
      /\ \/ tmp # NoInode /\ db' = tmp /\ tmp' = NoInode
         \/ (tmp = NoInode \/ "disk" \in Faults) /\ UNCHANGED <<db, tmp>>
      /\ content' = [i \in Inodes |-> IF i \in OpenFiles' THEN content[i] ELSE <<>>]
  BY LocalsOf DEF DropRename, At
<1>2. \E s : Step(p, s) /\ Ended(p, s)
  BY <1>1, EndDropDoes DEF Dropping
<1> QED
  BY <1>1, <1>2 DEF CommandOK

LEMMA ReadMetaDoes ==
    ASSUME Typed, NEW p \in Procs, ReadMeta(p)
    PROVE  LET r == proc[p] IN
           /\ r.pc = "meta" /\ r.pkg \in Pkgs /\ UNCHANGED <<diskVars, tree, link, histVars>>
           /\ \E s : /\ Step(p, s) /\ SameCommand(r, s)
                     /\ s.todo \in FilesRead(r.pkg) /\ s.pc = AfterUnlinks(s.todo)
<1> DEFINE r == proc[p]
           s(todo, label) == [r EXCEPT !.todo = todo, !.pc = label]
<1>1. /\ r \in Locals /\ CommandOK(r) /\ r.pc = "meta" /\ r.pkg \in Pkgs
      /\ UNCHANGED <<diskVars, tree, link, histVars>>
      /\ \E todo \in FilesRead(r.pkg) : proc' = [proc EXCEPT ![p] = s(todo, AfterUnlinks(todo))]
  BY LocalsOf DEF ReadMeta, At, CommandOK
<1>2. PICK todo \in FilesRead(r.pkg) : proc' = [proc EXCEPT ![p] = s(todo, AfterUnlinks(todo))]
  BY <1>1
<1>3. todo \in Seq(Bins)
  <2>1. tree[r.pkg] \in {"none", "partial", "full"} /\ Files[r.pkg] \in Seq(Bins)
    BY <1>1, PkgStoreAssumption DEF Typed, TypeOK
  <2>2. /\ tree[r.pkg] = "full" => FilesRead(r.pkg) = {Files[r.pkg]}
        /\ tree[r.pkg] = "partial" =>
             FilesRead(r.pkg) = {SubSeq(Files[r.pkg], 1, k) : k \in 0..Len(Files[r.pkg])}
        /\ tree[r.pkg] = "none" => FilesRead(r.pkg) = {<<>>}
    BY DEF FilesRead
  <2>3. todo \in FilesRead(r.pkg) /\ <<>> \in Seq(Bins)
    OBVIOUS
  <2> HIDE DEF r, s
  <2>4. \/ todo = Files[r.pkg] \/ todo = <<>>
        \/ \E k \in 0..Len(Files[r.pkg]) : todo = SubSeq(Files[r.pkg], 1, k)
    BY <2>1, <2>2, <2>3
  <2>5. \A k \in 0..Len(Files[r.pkg]) : SubSeq(Files[r.pkg], 1, k) \in Seq(Bins)
    BY <2>1, SubSeqProperties
  <2> QED
    BY <2>1, <2>3, <2>4, <2>5
<1> DEFINE label == AfterUnlinks(todo)
<1>4. label = IF todo = <<>> THEN "rmTree" ELSE "unlinkAll"
  BY DEF AfterUnlinks
<1>5. proc' = [proc EXCEPT ![p] = s(todo, label)]
  BY <1>2
<1> HIDE DEF label
<1>6. /\ s(todo, label) \in Locals /\ s(todo, label).pc = label /\ s(todo, label).op = r.op
      /\ s(todo, label).pkg = r.pkg /\ s(todo, label).todo = todo
  BY <1>1, <1>3, <1>4 DEF Locals
<1> HIDE DEF s
<1>7. CommandOK(s(todo, label))
  BY <1>1, <1>4, <1>6 DEF CommandOK, Installing, Recording, Removing, Dropping
<1> QED
  BY <1>1, <1>2, <1>5, <1>6, <1>7 DEF Step, SameCommand, label

LEMMA UnlinkAllDoes ==
    ASSUME Typed, NEW p \in Procs, UnlinkAll(p)
    PROVE  LET r == proc[p] IN
           /\ r.pc = "unlinkAll" /\ r.pkg \in Pkgs /\ UNCHANGED <<diskVars, tree, histVars>>
           /\ link' = [link EXCEPT ![Head(r.todo)] = NoPkg]
           /\ \E s : /\ Step(p, s) /\ SameCommand(r, s)
                     /\ s.todo = Tail(r.todo) /\ s.pc = AfterUnlinks(s.todo)
<1> DEFINE r == proc[p]
           label == AfterUnlinks(Tail(r.todo))
           s == [r EXCEPT !.todo = Tail(r.todo), !.pc = label]
<1>1. /\ r \in Locals /\ CommandOK(r) /\ r.pc = "unlinkAll" /\ r.pkg \in Pkgs /\ r.todo # <<>>
      /\ UNCHANGED <<diskVars, tree, histVars>>
      /\ link' = [link EXCEPT ![Head(r.todo)] = NoPkg]
      /\ proc' = [proc EXCEPT ![p] = s]
  BY LocalsOf DEF UnlinkAll, At, CommandOK
<1>2. label \in Labels /\ label = AfterUnlinks(Tail(r.todo))
  BY DEF AfterUnlinks, Labels, Removing
<1> HIDE DEF label
<1>a. s = [r EXCEPT !.todo = Tail(r.todo), !.pc = label]
  OBVIOUS
<1> HIDE DEF s
<1>b. /\ r \in Locals /\ CommandOK(r) /\ r.pc = "unlinkAll" /\ r.todo # <<>>
  BY <1>1
<1>3. s \in Locals /\ CommandOK(s) /\ s.pc = label /\ SameCommand(r, s) /\ s.todo = Tail(r.todo)
  <2> HIDE DEF r
  <2> QED
    BY <1>a, <1>b, <1>2, LoopTurns
<1> QED
  BY <1>1, <1>2, <1>3 DEF Step

\* A step that only moves on.
LEMMA GotoDoes ==
    ASSUME Typed, NEW p \in Procs, NEW label, Goto(p, label),
           \/ proc[p].pc = "rmTree" /\ label = "rmDir"
           \/ proc[p].pc = "rmDir" /\ label = "dropOpen"
    PROVE  \E s : Step(p, s) /\ SameCommand(proc[p], s) /\ s.pc = label /\ s.todo = proc[p].todo
<1> DEFINE r == proc[p]
           s == [r EXCEPT !.pc = label]
<1>1. r \in Locals /\ CommandOK(r) /\ proc' = [proc EXCEPT ![p] = s]
  BY LocalsOf DEF Goto
<1>2. s \in Locals /\ s.pc = label /\ s.op = r.op /\ s.pkg = r.pkg /\ s.todo = r.todo
  BY <1>1 DEF Locals
<1> HIDE DEF s
<1>3. CommandOK(s)
  BY <1>1, <1>2 DEF CommandOK, Installing, Recording, Removing, Dropping
<1> QED
  BY <1>1, <1>2, <1>3 DEF Step, SameCommand

LEMMA RemoveFilesDoes ==
    ASSUME Typed, NEW p \in Procs, RemoveFiles(p)
    PROVE  LET r == proc[p] IN
           /\ r.pc = "rmTree" /\ r.pkg \in Pkgs /\ r.op = "remove"
           /\ UNCHANGED <<diskVars, link, histVars>>
           /\ tree' = [tree EXCEPT ![r.pkg] = IF @ = "none" THEN "none" ELSE "partial"]
           /\ \E s : Step(p, s) /\ SameCommand(r, s) /\ s.pc = "rmDir" /\ s.todo = r.todo
<1>1. /\ CommandOK(proc[p]) /\ proc[p].pc = "rmTree" /\ Goto(p, "rmDir")
      /\ UNCHANGED <<diskVars, link, histVars>>
      /\ tree' = [tree EXCEPT ![proc[p].pkg] = IF @ = "none" THEN "none" ELSE "partial"]
  BY LocalsOf DEF RemoveFiles, At
<1> QED
  BY <1>1, GotoDoes DEF CommandOK, Removing

LEMMA RemoveDirDoes ==
    ASSUME Typed, NEW p \in Procs, RemoveDir(p)
    PROVE  LET r == proc[p] IN
           /\ r.pc = "rmDir" /\ r.pkg \in Pkgs /\ r.op = "remove"
           /\ UNCHANGED <<diskVars, link, histVars>>
           /\ \/ tree' = [tree EXCEPT ![r.pkg] = "none"]
              \/ "disk" \in Faults /\ tree' = tree
           /\ \E s : Step(p, s) /\ SameCommand(r, s) /\ s.pc = "dropOpen" /\ s.todo = r.todo
<1>1. /\ CommandOK(proc[p]) /\ proc[p].pc = "rmDir" /\ Goto(p, "dropOpen")
      /\ UNCHANGED <<diskVars, link, histVars>>
      /\ \/ tree' = [tree EXCEPT ![proc[p].pkg] = "none"]
         \/ "disk" \in Faults /\ tree' = tree
  BY LocalsOf DEF RemoveDir, At
<1> QED
  BY <1>1, GotoDoes DEF CommandOK, Removing

LEMMA CrashDoes ==
    ASSUME Typed, NEW p \in Procs, Crash(p)
    PROVE  LET r == proc[p] IN
           /\ r.pkg \in Pkgs /\ UNCHANGED <<diskVars, tree, link, torn>> /\ Step(p, Idle)
           /\ cut' = IF r.op = "remove" THEN cut \cup {r.pkg.name} ELSE cut
BY LocalsOf, IdleTyped DEF Crash, At, Done, Step, CommandOK

-----------------------------------------------------------------------------
(* Types, for any processes and faults                                     *)

LEMMA Step1Typed ==
    ASSUME Typed, NEW p \in Procs, NEW s, Step(p, s),
           content' \in [Inodes -> Seq(Pkgs)],
           db' \in Inodes \cup {NoInode}, tmp' \in Inodes \cup {NoInode},
           tree' \in [Pkgs -> {"none", "partial", "full"}],
           link' \in [Bins -> Pkgs \cup {NoPkg}],
           torn' \subseteq Pkgs, cut' \subseteq Names
    PROVE  Typed'
<1>1. s \in Locals /\ CommandOK(s) /\ proc' = [proc EXCEPT ![p] = s]
  BY DEF Step
<1>2. proc' \in [Procs -> Locals] /\ \A q \in Procs : CommandOK(proc[q])'
  BY <1>1, StepTyped
<1>3. TypeOK'
  BY <1>2 DEF TypeOK
<1> QED
  BY <1>2, <1>3, Zenon DEF Typed

LEMMA PutTyped ==
    ASSUME NEW D, NEW T, NEW f \in [D -> T], NEW i, NEW e, i \in D => e \in T
    PROVE  [f EXCEPT ![i] = e] \in [D -> T]
OBVIOUS

LEMMA EmptiedTyped ==
    ASSUME Typed, NEW i
    PROVE  [content EXCEPT ![i] = <<>>] \in [Inodes -> Seq(Pkgs)]
<1>1. content \in [Inodes -> Seq(Pkgs)] /\ <<>> \in Seq(Pkgs)
  BY DEF Typed, TypeOK
<1> QED
  BY <1>1, PutTyped

LEMMA WrittenTyped ==
    ASSUME NEW old \in Seq(Pkgs), NEW new \in Seq(Pkgs), NEW k \in 0..Len(new)
    PROVE  WrittenOver(old, SubSeq(new, 1, k)) \in Seq(Pkgs)
<1> DEFINE first == SubSeq(new, 1, k)
<1>1. first \in Seq(Pkgs)
  <2>1. \A i \in 1..k : new[i] \in Pkgs
    <3>1. Len(new) \in Nat /\ k \in Nat /\ k <= Len(new)
      OBVIOUS
    <3> QED
      BY <3>1
  <2> QED
    BY <2>1, SubSeqProperties
<1> HIDE DEF first
<1>2. Len(first) \in Nat /\ Len(old) \in Nat
  BY <1>1
<1>3. \A i \in Len(first) + 1 .. Len(old) : old[i] \in Pkgs
  BY <1>2
<1>4. SubSeq(old, Len(first) + 1, Len(old)) \in Seq(Pkgs)
  BY <1>2, <1>3, SubSeqProperties
<1>5. first \o SubSeq(old, Len(first) + 1, Len(old)) \in Seq(Pkgs)
  BY <1>1, <1>4, ConcatProperties
<1> QED
  BY <1>5 DEF WrittenOver, first

LEMMA NextTyped ==
    ASSUME Typed, [Next]_vars
    PROVE  Typed'
<1>0. /\ content \in [Inodes -> Seq(Pkgs)]
      /\ db \in Inodes \cup {NoInode} /\ tmp \in Inodes \cup {NoInode}
      /\ tree \in [Pkgs -> {"none", "partial", "full"}]
      /\ link \in [Bins -> Pkgs \cup {NoPkg}]
      /\ torn \subseteq Pkgs /\ cut \subseteq Names
  BY DEF Typed, TypeOK
<1>1. CASE UNCHANGED vars
  BY <1>1 DEF vars, diskVars, histVars, Typed, TypeOK, CommandOK
<1>2. CASE Next
  <2>1. PICK p \in Procs : Start(p) \/ InstallStep(p) \/ RemoveStep(p) \/ DropStep(p) \/ Crash(p)
    BY <1>2 DEF Next
  <2>2. CASE Start(p)
    BY <1>0, <2>2, StartDoes, Step1Typed DEF diskVars, histVars
  <2>3. CASE MakeTree(p)
    <3>1. PICK s : Step(p, s)
      BY <2>3, MakeTreeDoes
    <3>2. /\ proc[p].pkg \in Pkgs /\ UNCHANGED <<diskVars, link, cut>>
          /\ \/ /\ tree' = [tree EXCEPT ![proc[p].pkg] = "partial"]
                /\ torn' = torn \cup {proc[p].pkg}
             \/ tree' = tree /\ torn' = torn
      BY <2>3, MakeTreeDoes
    <3> QED
      BY <1>0, <3>1, <3>2, Step1Typed DEF diskVars
  <2>4. CASE Extract(p)
    <3>1. PICK s : Step(p, s)
      BY <2>4, ExtractDoes
    <3>2. /\ proc[p].pkg \in Pkgs /\ UNCHANGED <<diskVars, link, cut>>
          /\ \/ /\ tree' = [tree EXCEPT ![proc[p].pkg] = "full"]
                /\ torn' = torn \ {proc[p].pkg}
             \/ tree' = tree /\ torn' = torn
      BY <2>4, ExtractDoes
    <3> QED
      BY <1>0, <3>1, <3>2, Step1Typed DEF diskVars
  <2>5. CASE Cleanup(p)
    BY <1>0, <2>5, CleanupDoes, Step1Typed DEF diskVars, histVars
  <2>6. CASE Unlink(p)
    <3>1. PICK s : Step(p, s)
      BY <2>6, UnlinkDoes
    <3>2. /\ UNCHANGED <<diskVars, tree, histVars>>
          /\ link' = [link EXCEPT ![Head(proc[p].todo)] = NoPkg]
      BY <2>6, UnlinkDoes
    <3> QED
      BY <1>0, <3>1, <3>2, Step1Typed DEF diskVars, histVars
  <2>7. CASE Symlink(p)
    <3>1. PICK s : Step(p, s)
      BY <2>7, SymlinkDoes
    <3>2. /\ UNCHANGED <<diskVars, tree, histVars>> /\ proc[p].pkg \in Pkgs
          /\ \/ link' = [link EXCEPT ![Head(proc[p].todo)] = IF @ = NoPkg THEN proc[p].pkg ELSE @]
             \/ link' = link
      BY <2>7, SymlinkDoes
    <3>3. link' \in [Bins -> Pkgs \cup {NoPkg}]
      BY <1>0, <3>2
    <3> QED
      BY <1>0, <3>1, <3>2, <3>3, Step1Typed DEF diskVars, histVars
  <2>8. CASE AddOpen(p)
    <3>1. PICK s : /\ Step(p, s) /\ UNCHANGED <<tmp, tree, link, histVars>>
                   /\ \/ /\ SameCommand(proc[p], s) /\ s.fout = db' /\ db' # NoInode
                         /\ \/ UNCHANGED <<content, db>>
                            \/ /\ db = NoInode /\ db' \in FreeInodes
                               /\ content' = [content EXCEPT ![db'] = <<>>]
                      \/ UNCHANGED diskVars
      BY <2>8, AddOpenDoes
    <3>2. content' \in [Inodes -> Seq(Pkgs)] /\ db' \in Inodes \cup {NoInode}
      BY <1>0, <3>1, EmptiedTyped DEF diskVars, FreeInodes
    <3> QED
      BY <1>0, <3>1, <3>2, Step1Typed DEF histVars
  <2>9. CASE AddWrite(p)
    <3>1. /\ Step(p, AfterAdd(p)) /\ proc[p].pkg \in Pkgs
          /\ UNCHANGED <<db, tmp, tree, link, histVars>>
          /\ \/ content' = [content EXCEPT ![proc[p].fout] = Append(@, proc[p].pkg)]
             \/ content' = content
      BY <2>9, AddWriteDoes
    <3>2. content' \in [Inodes -> Seq(Pkgs)]
      <4> DEFINE f == proc[p].fout
                 t == proc[p].pkg
                 new == Append(content[f], t)
      <4>1. content' = [content EXCEPT ![f] = new] \/ content' = content
        BY <3>1
      <4>2. f \in Inodes => new \in Seq(Pkgs)
        BY <1>0, <3>1
      <4> HIDE DEF f, new
      <4> QED
        BY <1>0, <4>1, <4>2, PutTyped
    <3> QED
      BY <1>0, <3>1, <3>2, Step1Typed DEF histVars
  <2>10. CASE ReadMeta(p)
    <3>1. PICK s : Step(p, s) /\ UNCHANGED <<diskVars, tree, link, histVars>>
      BY <2>10, ReadMetaDoes
    <3> QED
      BY <1>0, <3>1, Step1Typed DEF diskVars, histVars
  <2>11. CASE UnlinkAll(p)
    <3>1. PICK s : Step(p, s)
      BY <2>11, UnlinkAllDoes
    <3>2. /\ UNCHANGED <<diskVars, tree, histVars>>
          /\ link' = [link EXCEPT ![Head(proc[p].todo)] = NoPkg]
      BY <2>11, UnlinkAllDoes
    <3> QED
      BY <1>0, <3>1, <3>2, Step1Typed DEF diskVars, histVars
  <2>12. CASE RemoveFiles(p)
    <3>1. PICK s : Step(p, s)
      BY <2>12, RemoveFilesDoes
    <3>2. /\ UNCHANGED <<diskVars, link, histVars>>
          /\ tree' = [tree EXCEPT ![proc[p].pkg] = IF @ = "none" THEN "none" ELSE "partial"]
      BY <2>12, RemoveFilesDoes
    <3> QED
      BY <1>0, <3>1, <3>2, Step1Typed DEF diskVars, histVars
  <2>13. CASE RemoveDir(p)
    <3>1. PICK s : Step(p, s)
      BY <2>13, RemoveDirDoes
    <3>2. /\ UNCHANGED <<diskVars, link, histVars>>
          /\ tree' = [tree EXCEPT ![proc[p].pkg] = "none"] \/ tree' = tree
      BY <2>13, RemoveDirDoes
    <3> QED
      BY <1>0, <3>1, <3>2, Step1Typed DEF diskVars, histVars
  <2>14. CASE DropOpen(p)
    <3>1. PICK s : /\ Step(p, s) /\ UNCHANGED <<diskVars, tree, link, torn>>
                   /\ cut' = cut \/ Ended(p, s)
      BY <2>14, DropOpenDoes
    <3> QED
      BY <1>0, <3>1, Step1Typed DEF diskVars, Ended
  <2>15. CASE DropTmp(p)
    <3>1. PICK s : /\ Step(p, s) /\ UNCHANGED <<db, tree, link, torn>>
                   /\ cut' = cut \/ Ended(p, s)
                   /\ \/ content' = [content EXCEPT ![tmp'] = <<>>] /\ tmp' \in Inodes
                      \/ UNCHANGED <<content, tmp>>
      BY <2>15, DropTmpDoes
    <3>2. content' \in [Inodes -> Seq(Pkgs)]
      BY <1>0, <3>1, EmptiedTyped
    <3> QED
      BY <1>0, <3>1, <3>2, Step1Typed DEF Ended
  <2>16. CASE DropCopy(p)
    <3>1. PICK s : Step(p, s) /\ UNCHANGED <<diskVars, tree, link, histVars>>
      BY <2>16, DropCopyDoes
    <3> QED
      BY <1>0, <3>1, Step1Typed DEF diskVars, histVars
  <2>17. CASE DropFlush(p)
    <3> DEFINE r == proc[p]
    <3>1. PICK s : Step(p, s)
      BY <2>17, DropFlushDoes
    <3>2. UNCHANGED <<db, tmp, tree, link, histVars>> /\ r.buf \in Seq(Pkgs)
      BY <2>17, DropFlushDoes
    <3>3. PICK k \in 0..Len(r.buf) :
            content' = [content EXCEPT ![r.fout] = WrittenOver(@, SubSeq(r.buf, 1, k))]
      BY <2>17, DropFlushDoes
    <3>4. r.fout \in Inodes => WrittenOver(content[r.fout], SubSeq(r.buf, 1, k)) \in Seq(Pkgs)
      BY <1>0, <3>2, WrittenTyped
    <3>5. content' \in [Inodes -> Seq(Pkgs)]
      <4> DEFINE new == WrittenOver(content[r.fout], SubSeq(r.buf, 1, k))
                 f == r.fout
      <4>1. content' = [content EXCEPT ![f] = new] /\ (f \in Inodes => new \in Seq(Pkgs))
        BY <3>3, <3>4
      <4> HIDE DEF new, f
      <4> QED
        BY <1>0, <4>1
    <3> QED
      BY <1>0, <3>1, <3>2, <3>5, Step1Typed DEF histVars
  <2>18. CASE DropRename(p)
    <3>1. PICK s : Step(p, s) /\ Ended(p, s)
      BY <2>18, DropRenameDoes
    <3>2. /\ UNCHANGED <<tree, link, torn>>
          /\ (db' = tmp /\ tmp' = NoInode) \/ UNCHANGED <<db, tmp>>
          /\ content' = [i \in Inodes |-> IF i \in OpenFiles' THEN content[i] ELSE <<>>]
      BY <2>18, DropRenameDoes
    <3>3. content' \in [Inodes -> Seq(Pkgs)]
      BY <1>0, <3>2
    <3> QED
      BY <1>0, <3>1, <3>2, <3>3, Step1Typed DEF Ended
  <2>19. CASE Crash(p)
    <3>1. proc[p].op = "remove" => proc[p].pkg.name \in Names
      BY <2>19, CrashDoes DEF Pkgs
    <3> QED
      BY <1>0, <2>19, <3>1, CrashDoes, Step1Typed DEF diskVars
  <2> QED
    BY <2>1, <2>2, <2>3, <2>4, <2>5, <2>6, <2>7, <2>8, <2>9, <2>10, <2>11, <2>12, <2>13, <2>14,
       <2>15, <2>16, <2>17, <2>18, <2>19 DEF InstallStep, RemoveStep, DropStep
<1> QED
  BY <1>1, <1>2

LEMMA InitTyped ==
    ASSUME Init
    PROVE  Typed
BY IdleTyped DEF Init, Typed, TypeOK

\* However many commands run, and whatever goes wrong: every variable keeps
\* its type, and a command has what its next step needs.
THEOREM TypesHold == Spec => []TypeOK
<1>1. Init => Typed
  BY InitTyped
<1>2. Typed /\ [Next]_vars => Typed'
  BY NextTyped
<1>3. Typed => TypeOK
  BY DEF Typed
<1> QED
  BY <1>1, <1>2, <1>3, PTL DEF Spec

-----------------------------------------------------------------------------
(* One command at a time, on a disk that does not fail: the trees and the  *)
(* links. The parts of the invariant are operators of the values they      *)
(* speak of, so that they read the same before and after a step.           *)

OneAtATime == (\A p, q \in Procs : p = q) /\ "disk" \notin Faults

\* The tree is there, and so is each link that the loop has come past.
Linking(r) ==
    \/ r.pc \in {"unlink", "symlink"} \cup Recording
    \/ r.pc \in Dropping /\ r.op = "upgrade"

Linked(r, tr, li) ==
    /\ tr[r.pkg] = "full" /\ Range(r.todo) \subseteq Range(Files[r.pkg])
    /\ \A b \in Range(Files[r.pkg]) : b \notin Range(r.todo) => li[b] = r.pkg

\* What a command knows of the trees (tr), the links (li) and the torn (to).
TreesOf(r, tr, li, to) ==
    /\ r.pc \in {"extract", "cleanup"} => r.pkg \in to
    /\ Linking(r) => Linked(r, tr, li)
    /\ r.pc \notin {"unlink", "symlink", "unlinkAll"} => r.todo = <<>>
    /\ r.pc = "symlink" => li[Head(r.todo)] = NoPkg
    /\ r.pc \in {"unlinkAll", "rmTree", "rmDir"} =>
         \A b \in Bins : li[b] = r.pkg => b \in Range(r.todo) \/ r.pkg \in to

LinksLead(tr, li, to) ==
    \A b \in Bins : li[b] # NoPkg =>
      b \in Range(Files[li[b]]) /\ (tr[li[b]] = "full" \/ li[b] \in to)

Trees ==
    /\ LinksLead(tree, link, torn)
    /\ \A p \in Procs : TreesOf(proc[p], tree, link, torn)

LEMMA TreesStep ==
    ASSUME OneAtATime, Typed, NEW p \in Procs, NEW s, Step(p, s),
           LinksLead(tree', link', torn'), TreesOf(s, tree', link', torn')
    PROVE  Trees'
<1>1. proc' = [proc EXCEPT ![p] = s] /\ proc \in [Procs -> Locals]
  BY DEF Step, Typed, TypeOK
<1>2. \A q \in Procs : proc'[q] = s
  BY <1>1 DEF OneAtATime
<1>3. LinksLead(tree, link, torn)' /\ \A q \in Procs : TreesOf(proc'[q], tree', link', torn')
  BY <1>2 DEF LinksLead
<1> QED
  BY <1>3 DEF Trees, TreesOf, LinksLead

LEMMA FilesOfPkg ==
    ASSUME NEW t \in Pkgs
    PROVE  Files[t] \in Seq(Bins) /\ Range(Files[t]) \subseteq Bins
<1>1. Files[t] \in Seq(Bins)
  BY PkgStoreAssumption
<1> QED
  BY <1>1 DEF Range

LEMMA RangeEmpty == Range(<<>>) = {}
BY DEF Range

LEMMA InstallTrees ==
    ASSUME OneAtATime, Typed, Trees, NEW p \in Procs,
           MakeTree(p) \/ Extract(p) \/ Cleanup(p) \/ Unlink(p) \/ Symlink(p)
    PROVE  Trees'
<1> DEFINE r == proc[p]
           t == r.pkg
<1>0. /\ LinksLead(tree, link, torn) /\ TreesOf(r, tree, link, torn)
      /\ tree \in [Pkgs -> {"none", "partial", "full"}]
      /\ link \in [Bins -> Pkgs \cup {NoPkg}] /\ NoPkg \notin Pkgs
      /\ r.todo \in Seq(Bins) /\ CommandOK(r)
  BY LocalsOf, PkgStoreAssumption DEF Trees, Typed, TypeOK, Locals
<1>1. CASE MakeTree(p)
  <2>1. PICK s : /\ Step(p, s) /\ t \in Pkgs /\ link' = link /\ r.pc = "mkdir"
                 /\ tree' = [tree EXCEPT ![t] = "partial"] /\ torn' = torn \cup {t}
                 /\ s.pc = "extract" /\ s.pkg = t /\ s.todo = r.todo
    BY <1>1, MakeTreeDoes DEF OneAtATime, SameCommand
  <2> HIDE DEF t
  <2>2. LinksLead(tree', link', torn')
    BY <1>0, <2>1 DEF LinksLead
  <2>3. TreesOf(s, tree', link', torn')
    BY <1>0, <2>1 DEF TreesOf, Linking, Recording, Dropping
  <2> QED
    BY <2>1, <2>2, <2>3, TreesStep
<1>2. CASE Extract(p)
  <2>1. PICK s : /\ Step(p, s) /\ t \in Pkgs /\ link' = link /\ r.pc = "extract" /\ s.pkg = t
                 /\ \/ /\ tree' = [tree EXCEPT ![t] = "full"] /\ torn' = torn \ {t}
                       /\ s.todo = Files[t] /\ s.pc = AfterLinks(s.todo)
                    \/ s.pc = "cleanup" /\ tree' = tree /\ torn' = torn /\ s.todo = r.todo
    <3>1. PICK s : /\ Step(p, s) /\ SameCommand(r, s)
                   /\ \/ /\ tree' = [tree EXCEPT ![t] = "full"] /\ torn' = torn \ {t}
                         /\ s.todo = Files[t] /\ s.pc = AfterLinks(s.todo)
                      \/ /\ s.pc = "cleanup" /\ tree' = tree /\ torn' = torn
                         /\ s.todo = r.todo
      BY <1>2, ExtractDoes
    <3> QED
      BY <1>2, <3>1, ExtractDoes DEF SameCommand
  <2>2. s.pc = AfterLinks(s.todo) => s.pc = IF s.todo = <<>> THEN "addOpen" ELSE "unlink"
    BY DEF AfterLinks
  <2> HIDE DEF t
  <2>3. LinksLead(tree', link', torn')
    BY <1>0, <2>1 DEF LinksLead
  <2>4. TreesOf(s, tree', link', torn')
    <3>1. CASE s.pc = "cleanup"
      <4>1. torn' = torn /\ s.todo = r.todo
        BY <2>1, <2>2, <3>1
      <4>2. t \in torn /\ r.todo = <<>>
        BY <1>0, <2>1 DEF TreesOf, t
      <4> QED
        BY <2>1, <3>1, <4>1, <4>2 DEF TreesOf, Linking, Recording, Dropping
    <3>2. CASE s.pc # "cleanup"
      <4>1. Linked(s, tree', link')
        BY <1>0, <2>1, <3>2 DEF Linked
      <4> QED
        BY <2>1, <2>2, <3>2, <4>1 DEF TreesOf
    <3> QED
      BY <3>1, <3>2
  <2> QED
    BY <2>1, <2>3, <2>4, TreesStep
<1>3. CASE Cleanup(p)
  <2>1. /\ Step(p, Idle) /\ t \in Pkgs /\ link' = link /\ torn' = torn
        /\ tree' = [tree EXCEPT ![t] = "none"] /\ t \in torn
    BY <1>0, <1>3, CleanupDoes DEF TreesOf, histVars
  <2> HIDE DEF t
  <2>2. LinksLead(tree', link', torn')
    BY <1>0, <2>1 DEF LinksLead
  <2>3. TreesOf(Idle, tree', link', torn')
    BY DEF TreesOf, Idle, Command, Linking, Recording, Dropping
  <2> QED
    BY <2>1, <2>2, <2>3, TreesStep
<1>4. CASE Unlink(p)
  <2> DEFINE h == Head(r.todo)
  <2>1. PICK s : /\ Step(p, s) /\ s.pkg = t /\ s.pc = "symlink" /\ s.todo = r.todo
    BY <1>4, UnlinkDoes DEF SameCommand
  <2>2. /\ t \in Pkgs /\ tree' = tree /\ torn' = torn /\ r.pc = "unlink" /\ r.todo # <<>>
        /\ link' = [link EXCEPT ![h] = NoPkg]
    BY <1>0, <1>4, UnlinkDoes DEF histVars, CommandOK
  <2>3. h \in Bins /\ h \in Range(r.todo)
    BY <1>0, <2>2, HeadIn
  <2>4. Linked(r, tree, link)
    BY <1>0, <2>2 DEF TreesOf, Linking
  <2>5. h = Head(s.todo)
    BY <2>1
  <2> HIDE DEF h
  <2>6. LinksLead(tree', link', torn')
    BY <1>0, <2>2, <2>3 DEF LinksLead
  <2>7. Linked(s, tree', link')
    <3>1. \A b \in Range(Files[t]) : b \in Bins
      BY <2>2, FilesOfPkg
    <3> QED
      BY <1>0, <2>1, <2>2, <2>3, <2>4, <3>1 DEF Linked
  <2>8. link'[h] = NoPkg
    BY <1>0, <2>2, <2>3
  <2>9. TreesOf(s, tree', link', torn')
    BY <2>1, <2>5, <2>7, <2>8 DEF TreesOf
  <2> QED
    BY <2>1, <2>6, <2>9, TreesStep
<1>5. CASE Symlink(p)
  <2> DEFINE h == Head(r.todo)
             rest == Tail(r.todo)
  <2>1. PICK s : /\ Step(p, s) /\ s.pkg = t /\ s.todo = rest /\ s.pc = AfterLinks(s.todo)
    BY <1>5, SymlinkDoes DEF SameCommand
  <2>2. /\ t \in Pkgs /\ tree' = tree /\ torn' = torn /\ r.pc = "symlink" /\ r.todo # <<>>
        /\ link' = [link EXCEPT ![h] = IF @ = NoPkg THEN t ELSE @]
    BY <1>0, <1>5, SymlinkDoes DEF histVars, CommandOK, OneAtATime
  <2>3. h \in Bins /\ Range(r.todo) = {h} \cup Range(rest)
    BY <1>0, <2>2, HeadIn
  <2>4. Linked(r, tree, link) /\ link[h] = NoPkg
    BY <1>0, <2>2 DEF TreesOf, Linking
  <2>5. s.pc = IF s.todo = <<>> THEN "addOpen" ELSE "unlink"
    BY <2>1 DEF AfterLinks
  <2> HIDE DEF h, rest
  <2>6. link' = [link EXCEPT ![h] = t]
    BY <2>2, <2>4
  <2>7. LinksLead(tree', link', torn')
    BY <1>0, <2>2, <2>3, <2>4, <2>6 DEF LinksLead, Linked
  <2>8. Linked(s, tree', link')
    <3>1. \A b \in Range(Files[t]) : b \in Bins
      BY <2>2, FilesOfPkg
    <3> QED
      BY <1>0, <2>1, <2>2, <2>3, <2>4, <2>6, <3>1 DEF Linked
  <2>9. TreesOf(s, tree', link', torn')
    BY <2>5, <2>8 DEF TreesOf
  <2> QED
    BY <2>1, <2>7, <2>9, TreesStep
<1> QED
  BY <1>1, <1>2, <1>3, <1>4, <1>5

LEMMA RemoveTrees ==
    ASSUME OneAtATime, Typed, Trees, NEW p \in Procs, RemoveStep(p)
    PROVE  Trees'
<1> DEFINE r == proc[p]
           t == r.pkg
<1>0. /\ LinksLead(tree, link, torn) /\ TreesOf(r, tree, link, torn)
      /\ tree \in [Pkgs -> {"none", "partial", "full"}]
      /\ link \in [Bins -> Pkgs \cup {NoPkg}] /\ NoPkg \notin Pkgs
      /\ r.todo \in Seq(Bins) /\ CommandOK(r)
  BY LocalsOf, PkgStoreAssumption DEF Trees, Typed, TypeOK, Locals
<1>1. CASE ReadMeta(p)
  <2>1. PICK s : /\ Step(p, s) /\ s.pkg = t /\ s.todo \in FilesRead(t)
                 /\ s.pc = AfterUnlinks(s.todo)
    BY <1>1, ReadMetaDoes DEF SameCommand
  <2>2. t \in Pkgs /\ tree' = tree /\ torn' = torn /\ link' = link
    BY <1>1, ReadMetaDoes DEF histVars
  <2>3. s.pc = IF s.todo = <<>> THEN "rmTree" ELSE "unlinkAll"
    BY <2>1 DEF AfterUnlinks
  <2>4. tree[t] = "full" => s.todo = Files[t]
    BY <2>1 DEF FilesRead
  <2> HIDE DEF t
  <2>5. \A b \in Bins : link[b] = t => b \in Range(s.todo) \/ t \in torn
    BY <1>0, <2>2, <2>4 DEF LinksLead
  <2>6. TreesOf(s, tree, link, torn)
    BY <2>1, <2>3, <2>5 DEF TreesOf, Linking, Recording, Dropping
  <2> QED
    BY <1>0, <2>1, <2>2, <2>6, TreesStep
<1>2. CASE UnlinkAll(p)
  <2> DEFINE h == Head(r.todo)
             rest == Tail(r.todo)
  <2>1. PICK s : /\ Step(p, s) /\ s.pkg = t /\ s.todo = rest /\ s.pc = AfterUnlinks(s.todo)
    BY <1>2, UnlinkAllDoes DEF SameCommand
  <2>2. /\ t \in Pkgs /\ tree' = tree /\ torn' = torn /\ r.pc = "unlinkAll" /\ r.todo # <<>>
        /\ link' = [link EXCEPT ![h] = NoPkg]
    BY <1>0, <1>2, UnlinkAllDoes DEF histVars, CommandOK
  <2>3. h \in Bins /\ Range(r.todo) = {h} \cup Range(rest)
    BY <1>0, <2>2, HeadIn
  <2>4. \A b \in Bins : link[b] = t => b \in Range(r.todo) \/ t \in torn
    BY <1>0, <2>2 DEF TreesOf
  <2>5. s.pc = IF s.todo = <<>> THEN "rmTree" ELSE "unlinkAll"
    BY <2>1 DEF AfterUnlinks
  <2> HIDE DEF h, rest, t, r
  <2>6. LinksLead(tree', link', torn')
    BY <1>0, <2>2, <2>3 DEF LinksLead
  <2>7. \A b \in Bins : link'[b] = t => b \in Range(s.todo) \/ t \in torn'
    BY <1>0, <2>1, <2>2, <2>3, <2>4
  <2>8. TreesOf(s, tree', link', torn')
    BY <2>1, <2>5, <2>7 DEF TreesOf, Linking, Recording, Dropping
  <2> QED
    BY <2>1, <2>6, <2>8, TreesStep
<1>3. CASE RemoveFiles(p) \/ RemoveDir(p)
  <2>1. PICK s : /\ Step(p, s) /\ s.pkg = t /\ s.todo = r.todo /\ s.op = r.op
                 /\ \/ r.pc = "rmTree" /\ s.pc = "rmDir"
                    \/ r.pc = "rmDir" /\ s.pc = "dropOpen"
    BY <1>3, RemoveFilesDoes, RemoveDirDoes DEF SameCommand
  <2>2. /\ t \in Pkgs /\ torn' = torn /\ link' = link /\ r.op = "remove"
        /\ \/ tree' = [tree EXCEPT ![t] = IF @ = "none" THEN "none" ELSE "partial"]
           \/ tree' = [tree EXCEPT ![t] = "none"]
    BY <1>3, RemoveFilesDoes, RemoveDirDoes DEF histVars, OneAtATime
  <2>3. r.todo = <<>> /\ \A b \in Bins : link[b] = t => t \in torn
    BY <1>0, <2>1, RangeEmpty DEF TreesOf
  <2> HIDE DEF t, r
  <2>4. \A u \in Pkgs : u # t => tree'[u] = tree[u]
    BY <1>0, <2>2
  <2>5. LinksLead(tree', link', torn')
    BY <1>0, <2>2, <2>3, <2>4 DEF LinksLead
  <2>6. TreesOf(s, tree', link', torn')
    BY <2>1, <2>2, <2>3 DEF TreesOf, Linking, Recording, Dropping
  <2> QED
    BY <2>1, <2>5, <2>6, TreesStep
<1> QED
  BY <1>1, <1>2, <1>3 DEF RemoveStep

\* A step that leaves the trees and the links alone.
LEMMA QuietTrees ==
    ASSUME OneAtATime, Typed, Trees, NEW p \in Procs, NEW s, Step(p, s),
           UNCHANGED <<tree, link, torn>>,
           s.pc \in {"idle", "mkdir", "meta"} \cup Recording \cup Dropping, s.todo = <<>>,
           Linking(s) => Linking(proc[p]) /\ s.pkg = proc[p].pkg /\ s.todo = proc[p].todo
    PROVE  Trees'
<1>1. LinksLead(tree, link, torn) /\ TreesOf(proc[p], tree, link, torn)
  BY DEF Trees
<1>2. Linking(s) => Linked(s, tree, link)
  BY <1>1 DEF TreesOf, Linked
<1>3. TreesOf(s, tree, link, torn)
  BY <1>2 DEF TreesOf, Recording, Dropping
<1> QED
  BY <1>1, <1>3, TreesStep

LEMMA TreesKept ==
    ASSUME OneAtATime, Typed, Trees, [Next]_vars
    PROVE  Trees'
<1>1. CASE UNCHANGED vars
  <2>1. UNCHANGED <<tree, link, torn, proc>>
    BY <1>1 DEF vars, histVars
  <2> QED
    BY <2>1 DEF Trees, TreesOf, LinksLead, Linked
<1>2. CASE Next
  <2>1. PICK p \in Procs : Start(p) \/ InstallStep(p) \/ RemoveStep(p) \/ DropStep(p) \/ Crash(p)
    BY <1>2 DEF Next
  <2> DEFINE r == proc[p]
  <2>0. TreesOf(r, tree, link, torn) /\ Idle.pc = "idle" /\ Idle.todo = <<>>
    BY DEF Trees, Idle, Command
  <2>a. r.pc \in Recording \cup Dropping => r.todo = <<>>
    BY <2>0 DEF TreesOf, Recording, Dropping
  <2>b. Idle.pc \notin {"unlink", "symlink"} \cup Recording \cup Dropping
    BY <2>0 DEF Recording, Dropping
  <2>2. CASE Start(p)
    <3>1. PICK s : /\ Step(p, s) /\ s.todo = <<>> /\ s.pc \in {"mkdir", "meta"}
                   /\ UNCHANGED <<tree, link, torn>>
      BY <2>2, StartDoes DEF histVars
    <3>2. ~Linking(s)
      BY <3>1 DEF Linking, Recording, Dropping
    <3> QED
      BY <3>1, <3>2, QuietTrees
  <2>3. CASE AddOpen(p)
    <3>1. PICK s : Step(p, s) /\ SameCommand(r, s) /\ s.pc = "addWrite" /\ s.todo = r.todo
      BY <2>3, AddOpenDoes DEF OneAtATime
    <3>2. r.pc \in Recording /\ s.pc \in Recording /\ UNCHANGED <<tree, link, torn>> /\ Linking(r)
      BY <2>3, <3>1, AddOpenDoes DEF histVars, Recording, Linking
    <3> QED
      BY <2>a, <3>1, <3>2, QuietTrees DEF SameCommand
  <2>4. CASE AddWrite(p)
    <3> DEFINE s == AfterAdd(p)
    <3>1. /\ Step(p, s) /\ r.pc \in Recording /\ UNCHANGED <<tree, link, torn>> /\ Linking(r)
      BY <2>4, AddWriteDoes DEF histVars, Recording, Linking
    <3>2. IF r.op = "upgrade"
          THEN SameCommand(r, s) /\ s.pc = "dropOpen" /\ s.todo = r.todo ELSE s = Idle
      BY <3>1, AfterAddOK
    <3> HIDE DEF s
    <3>3. CASE r.op = "upgrade"
      <4>1. s.pc \in Dropping
        BY <3>2, <3>3 DEF Dropping
      <4> QED
        BY <2>a, <3>1, <3>2, <3>3, <4>1, QuietTrees DEF SameCommand
    <3>4. CASE r.op # "upgrade"
      BY <2>0, <2>b, <3>1, <3>2, <3>4, QuietTrees DEF Linking
    <3> QED
      BY <3>3, <3>4
  <2>5. CASE DropStep(p)
    <3>1. PICK s : /\ Step(p, s)
                   /\ \/ SameCommand(r, s) /\ s.pc \in Dropping /\ s.todo = r.todo
                      \/ Ended(p, s)
      BY <2>5, DropOpenDoes, DropTmpDoes, DropCopyDoes, DropFlushDoes, DropRenameDoes
      DEF DropStep, Dropping
    <3>2. r.pc \in Dropping
      BY <2>5, DropOpenDoes, DropTmpDoes, DropCopyDoes, DropFlushDoes, DropRenameDoes
      DEF DropStep, Dropping
    <3>3. UNCHANGED <<tree, link, torn>>
      BY <2>5, DropOpenDoes, DropTmpDoes, DropCopyDoes, DropFlushDoes, DropRenameDoes
      DEF DropStep, histVars
    <3>4. CASE SameCommand(r, s) /\ s.pc \in Dropping /\ s.todo = r.todo
      <4>1. Linking(s) => Linking(r)
        BY <3>2, <3>4 DEF Linking, SameCommand, Recording, Dropping
      <4> QED
        BY <2>a, <3>1, <3>2, <3>3, <3>4, <4>1, QuietTrees DEF SameCommand
    <3>5. CASE Ended(p, s)
      <4>1. /\ s.todo = <<>>
            /\ IF r.op = "upgrade" THEN s.pkg = r.pkg /\ s.pc = "addOpen" ELSE s = Idle
        BY <3>2, <3>5, AfterDropOK DEF Ended
      <4>2. Linking(s) => r.op = "upgrade"
        BY <2>b, <4>1 DEF Linking
      <4>3. s.pc \in {"idle"} \cup Recording
        BY <2>0, <4>1 DEF Recording
      <4> QED
        BY <2>a, <3>1, <3>2, <3>3, <4>1, <4>2, <4>3, QuietTrees DEF Linking
    <3> QED
      BY <3>1, <3>4, <3>5
  <2>6. CASE Crash(p)
    <3>1. Step(p, Idle) /\ UNCHANGED <<tree, link, torn>>
      BY <2>6, CrashDoes
    <3>2. ~Linking(Idle)
      BY <2>b DEF Linking
    <3> QED
      BY <2>0, <3>1, <3>2, QuietTrees
  <2> QED
    BY <2>1, <2>2, <2>3, <2>4, <2>5, <2>6, InstallTrees, RemoveTrees DEF InstallStep
<1> QED
  BY <1>1, <1>2

-----------------------------------------------------------------------------
(* The database: its files, and what a removal has copied so far           *)

LinesIn(c, d) == IF d = NoInode THEN <<>> ELSE c[d]
OtherLines(c, d, n) == {t \in Range(LinesIn(c, d)) : t.name # n}

\* What a command knows of the files (c), the database (d) and its copy (t).
FilesOf(r, c, d, t) ==
    /\ r.pc = "addWrite" => r.fout = d /\ d # NoInode
    /\ r.pc \in {"dropTmp", "dropCopy"} => r.fin = d /\ d # NoInode
    /\ r.pc \in {"dropCopy", "dropFlush", "dropRename"} =>
         d # NoInode /\ t # NoInode /\ r.fout = t
    /\ r.pc \in {"dropCopy", "dropFlush"} => c[t] = <<>>
    /\ r.pc = "dropFlush" => Range(r.buf) = OtherLines(c, d, r.pkg.name)
    /\ r.pc = "dropRename" => Range(c[t]) = OtherLines(c, d, r.pkg.name)
    /\ r.op = "record" => \A u \in Range(LinesIn(c, d)) : u.name # r.pkg.name

Apart(d, t) == d # NoInode => t # d

Database ==
    /\ Apart(db, tmp)
    /\ \A p \in Procs : FilesOf(proc[p], content, db, tmp)

LEMMA DatabaseStep ==
    ASSUME OneAtATime, Typed, NEW p \in Procs, NEW s, Step(p, s),
           Apart(db', tmp'), FilesOf(s, content', db', tmp')
    PROVE  Database'
<1>1. proc' = [proc EXCEPT ![p] = s] /\ proc \in [Procs -> Locals]
  BY DEF Step, Typed, TypeOK
<1>2. \A q \in Procs : proc'[q] = s
  BY <1>1 DEF OneAtATime
<1>3. \A q \in Procs : FilesOf(proc'[q], content', db', tmp')
  BY <1>2
<1> QED
  BY <1>3 DEF Database, FilesOf, Apart, OtherLines, LinesIn

\* A step that leaves the files alone, and is not among those that use them.
LEMMA QuietFiles ==
    ASSUME OneAtATime, Typed, Database, NEW p \in Procs, NEW s, Step(p, s),
           UNCHANGED <<content, db, tmp>>,
           s.pc \notin {"addWrite", "dropTmp", "dropCopy", "dropFlush", "dropRename"},
           s.op = "record" => proc[p].op = "record" /\ s.pkg = proc[p].pkg
    PROVE  Database'
<1>1. Apart(db, tmp) /\ FilesOf(proc[p], content, db, tmp)
  BY DEF Database
<1>2. FilesOf(s, content, db, tmp)
  BY <1>1 DEF FilesOf
<1> QED
  BY <1>1, <1>2, DatabaseStep

LEMMA LinesInDb == Lines = LinesIn(content, db) /\ Recorded = Range(LinesIn(content, db))
BY DEF Lines, Recorded, LinesIn

\* fclose writes the whole buffer into the empty copy.
LEMMA CopyWritten ==
    ASSUME NEW buf \in Seq(Pkgs)
    PROVE  WrittenOver(<<>>, SubSeq(buf, 1, Len(buf))) = buf
<1> DEFINE n == Len(buf)
           first == SubSeq(buf, 1, n)
<1>1. n \in Nat /\ DOMAIN buf = 1..n /\ \A i \in 1..n : buf[i] \in Pkgs
  OBVIOUS
<1>2. /\ first \in Seq(Pkgs) /\ Len(first) = n
      /\ \A i \in 1..n : first[i] = buf[i]
  <2>1. /\ first \in Seq(Pkgs) /\ Len(first) = IF 1 <= n THEN n - 1 + 1 ELSE 0
        /\ \A i \in 1 .. n - 1 + 1 : first[i] = buf[1 + i - 1]
    BY <1>1, SubSeqProperties
  <2> QED
    BY <1>1, <2>1
<1>3. first = buf
  BY <1>1, <1>2
<1>4. SubSeq(<<>>, n + 1, 0) = <<>>
  BY <1>1, SubSeqEmpty
<1>5. Len(<<>>) = 0 /\ buf \o <<>> = buf
  BY ConcatEmptySeq
<1> HIDE DEF n
<1>6. WrittenOver(<<>>, buf) = buf \o SubSeq(<<>>, n + 1, 0)
  BY <1>5 DEF WrittenOver, n
<1> QED
  BY <1>3, <1>4, <1>5, <1>6 DEF n

LEMMA SameLines ==
    ASSUME Typed, NEW i, NEW e, i # db, db' = db, content' = [content EXCEPT ![i] = e]
    PROVE  LinesIn(content', db') = LinesIn(content, db)
BY DEF LinesIn, Typed, TypeOK

LEMMA FreeFile ==
    ASSUME NEW i \in FreeInodes
    PROVE  i \in Inodes /\ i # NoInode /\ i # db /\ i # tmp
BY PkgStoreAssumption DEF FreeInodes, OpenFiles

LEMMA AddFiles ==
    ASSUME OneAtATime, Typed, Database, NEW p \in Procs, AddOpen(p) \/ AddWrite(p)
    PROVE  /\ Database'
           /\ AddOpen(p) => LinesIn(content', db') = LinesIn(content, db)
           /\ AddWrite(p) =>
                LinesIn(content', db') = Append(LinesIn(content, db), proc[p].pkg)
<1> DEFINE r == proc[p]
           t == r.pkg
<1>0. /\ Apart(db, tmp) /\ FilesOf(r, content, db, tmp)
      /\ content \in [Inodes -> Seq(Pkgs)] /\ db \in Inodes \cup {NoInode}
      /\ NoInode \notin Inodes
  BY PkgStoreAssumption DEF Database, Typed, TypeOK
<1>1. CASE AddOpen(p)
  <2>1. PICK s : /\ Step(p, s) /\ SameCommand(r, s) /\ s.pc = "addWrite"
                 /\ s.fout = db' /\ db' # NoInode
                 /\ \/ UNCHANGED <<content, db>>
                    \/ /\ db = NoInode /\ db' \in FreeInodes
                       /\ content' = [content EXCEPT ![db'] = <<>>]
    BY <1>1, AddOpenDoes DEF OneAtATime
  <2>2. tmp' = tmp
    BY <1>1, AddOpenDoes
  <2> HIDE DEF r
  <2>3. LinesIn(content', db') = LinesIn(content, db) /\ Apart(db', tmp')
    <3>1. CASE UNCHANGED <<content, db>>
      BY <1>0, <2>2, <3>1 DEF Apart
    <3>2. CASE db = NoInode /\ db' \in FreeInodes /\ content' = [content EXCEPT ![db'] = <<>>]
      <4>1. db' \in Inodes /\ db' # NoInode /\ db' # tmp
        BY <3>2, FreeFile
      <4> QED
        BY <1>0, <2>2, <3>2, <4>1 DEF LinesIn, Apart
    <3> QED
      BY <2>1, <3>1, <3>2
  <2>4. FilesOf(s, content', db', tmp')
    BY <1>0, <2>1, <2>3 DEF FilesOf, SameCommand
  <2>5. Database'
    BY <2>1, <2>3, <2>4, DatabaseStep
  <2>6. ~AddWrite(p)
    BY <1>1 DEF AddOpen, AddWrite, At
  <2> QED
    BY <2>3, <2>5, <2>6
<1>2. CASE AddWrite(p)
  <2> DEFINE s == AfterAdd(p)
             f == r.fout
  <2>1. /\ Step(p, s) /\ r.pc = "addWrite" /\ t \in Pkgs /\ db' = db /\ tmp' = tmp
        /\ content' = [content EXCEPT ![f] = Append(@, t)]
    BY <1>2, AddWriteDoes DEF OneAtATime
  <2>2. f = db /\ db # NoInode
    BY <1>0, <2>1 DEF FilesOf
  <2>3. s.pc \in {"dropOpen", "idle"} /\ s.op # "record"
    BY <2>1, AfterAddOK, IdleTyped DEF Recording, SameCommand
  <2> HIDE DEF s, f, t
  <2>4. LinesIn(content', db') = Append(LinesIn(content, db), t)
    BY <1>0, <2>1, <2>2 DEF LinesIn
  <2>5. FilesOf(s, content', db', tmp') /\ Apart(db', tmp')
    BY <1>0, <2>1, <2>3 DEF FilesOf, Apart
  <2>6. Database'
    BY <2>1, <2>5, DatabaseStep
  <2>7. ~AddOpen(p)
    BY <1>2 DEF AddOpen, AddWrite, At
  <2> QED
    BY <2>4, <2>6, <2>7 DEF t
<1> QED
  BY <1>1, <1>2

\* The record of an upgrade is made when the name has no line left.
LEMMA EndedFiles ==
    ASSUME OneAtATime, Typed, NEW p \in Procs, NEW s, Step(p, s), Ended(p, s),
           proc[p].pc \in Dropping, Apart(db', tmp'),
           \A u \in Range(LinesIn(content', db')) : u.name # proc[p].pkg.name
    PROVE  Database'
<1>1. /\ s.pc \in {"addOpen", "idle"}
      /\ s.op = "record" => s.pkg = proc[p].pkg
  BY AfterDropOK, IdleTyped DEF Ended
<1>2. FilesOf(s, content', db', tmp')
  BY <1>1 DEF FilesOf
<1> QED
  BY <1>2, DatabaseStep

LEMMA DropFiles ==
    ASSUME OneAtATime, Typed, Database, NEW p \in Procs, DropStep(p)
    PROVE  /\ Database'
           /\ ~DropRename(p) => LinesIn(content', db') = LinesIn(content, db)
           /\ DropRename(p) =>
                Range(LinesIn(content', db')) = OtherLines(content, db, proc[p].pkg.name)
<1> DEFINE r == proc[p]
           n == r.pkg.name
<1>0. /\ Apart(db, tmp) /\ FilesOf(r, content, db, tmp)
      /\ content \in [Inodes -> Seq(Pkgs)] /\ db \in Inodes \cup {NoInode}
      /\ tmp \in Inodes \cup {NoInode} /\ NoInode \notin Inodes
  BY PkgStoreAssumption DEF Database, Typed, TypeOK
<1>1. CASE DropOpen(p)
  <2>1. /\ content' = content /\ db' = db /\ tmp' = tmp /\ r.pc = "dropOpen"
    BY <1>1, DropOpenDoes DEF diskVars
  <2>2. PICK s : /\ Step(p, s)
                 /\ \/ /\ SameCommand(r, s) /\ s.pc = "dropTmp" /\ s.fin = db /\ db # NoInode
                    \/ db = NoInode /\ Ended(p, s)
    BY <1>1, DropOpenDoes DEF OneAtATime
  <2>3. ASSUME SameCommand(r, s) /\ s.pc = "dropTmp" /\ s.fin = db /\ db # NoInode
        PROVE  Database'
    <3>1. FilesOf(s, content', db', tmp')
      BY <1>0, <2>1, <2>3 DEF FilesOf, SameCommand
    <3>2. Apart(db', tmp') /\ Step(p, s)
      BY <1>0, <2>1, <2>2
    <3> QED
      BY <3>1, <3>2, DatabaseStep
  <2>4. ASSUME db = NoInode /\ Ended(p, s)
        PROVE  Database'
    <3>1. Range(LinesIn(content', db')) = {}
      BY <2>1, <2>4, RangeEmpty DEF LinesIn
    <3>2. Apart(db', tmp') /\ Step(p, s) /\ r.pc \in Dropping
      BY <1>0, <2>1, <2>2 DEF Dropping
    <3> QED
      BY <2>4, <3>1, <3>2, EndedFiles
  <2>5. Database'
    BY <2>2, <2>3, <2>4
  <2>6. ~DropRename(p)
    BY <2>1 DEF DropRename, At
  <2> QED
    BY <2>1, <2>5, <2>6
<1>2. CASE DropTmp(p)
  <2>1. PICK s : /\ Step(p, s) /\ SameCommand(r, s) /\ s.pc = "dropCopy"
                 /\ s.fin = r.fin /\ s.fout = tmp' /\ tmp' \in Inodes
                 /\ IF tmp = NoInode THEN tmp' \in FreeInodes ELSE tmp' = tmp
                 /\ content' = [content EXCEPT ![tmp'] = <<>>]
    BY <1>2, DropTmpDoes DEF OneAtATime
  <2>2. db' = db /\ r.pc = "dropTmp"
    BY <1>2, DropTmpDoes
  <2>3. tmp' # db /\ tmp' # NoInode /\ db # NoInode /\ r.fin = db
    BY <1>0, <2>1, <2>2, FreeFile DEF Apart, FilesOf
  <2> HIDE DEF r
  <2>4. LinesIn(content', db') = LinesIn(content, db) /\ content'[tmp'] = <<>>
    BY <1>0, <2>1, <2>2, <2>3, SameLines
  <2>5. FilesOf(s, content', db', tmp') /\ Apart(db', tmp')
    BY <1>0, <2>1, <2>2, <2>3, <2>4 DEF FilesOf, SameCommand, Apart
  <2>6. Database'
    BY <2>1, <2>5, DatabaseStep
  <2>7. ~DropRename(p)
    BY <2>2 DEF DropRename, At, r
  <2> QED
    BY <2>4, <2>6, <2>7
<1>3. CASE DropCopy(p)
  <2>1. PICK s : /\ Step(p, s) /\ SameCommand(r, s) /\ s.pc = "dropFlush" /\ s.fout = r.fout
                 /\ s.buf = KeepOthers(content[r.fin], r.pkg)
    BY <1>3, DropCopyDoes
  <2>2. content' = content /\ db' = db /\ tmp' = tmp /\ r.pc = "dropCopy"
    BY <1>3, DropCopyDoes DEF diskVars
  <2>3. r.fin = db /\ db # NoInode /\ db \in Inodes
    BY <1>0, <2>2 DEF FilesOf
  <2>4. Range(s.buf) = OtherLines(content, db, n)
    <3>1. content[db] \in Seq(Pkgs)
      BY <1>0, <2>3
    <3> QED
      BY <2>1, <2>3, <3>1, OthersAreKept DEF OtherLines, LinesIn
  <2>5. FilesOf(s, content', db', tmp')
    BY <1>0, <2>1, <2>2, <2>4 DEF FilesOf, SameCommand
  <2>6. Database'
    BY <1>0, <2>1, <2>2, <2>5, DatabaseStep
  <2>7. ~DropRename(p)
    BY <2>2 DEF DropRename, At
  <2> QED
    BY <2>2, <2>6, <2>7
<1>4. CASE DropFlush(p)
  <2> DEFINE f == r.fout
             b == r.buf
  <2>1. PICK s : /\ Step(p, s) /\ SameCommand(r, s) /\ s.pc = "dropRename" /\ s.fout = f
    BY <1>4, DropFlushDoes
  <2>2. db' = db /\ tmp' = tmp /\ r.pc = "dropFlush" /\ b \in Seq(Pkgs)
    BY <1>4, DropFlushDoes
  <2>3. content' = [content EXCEPT ![f] = WrittenOver(@, SubSeq(b, 1, Len(b)))]
    BY <1>4, DropFlushDoes DEF OneAtATime
  <2>4. /\ f = tmp /\ tmp # NoInode /\ db # NoInode /\ content[tmp] = <<>>
        /\ Range(b) = OtherLines(content, db, n)
    BY <1>0, <2>2 DEF FilesOf
  <2>5. content' = [content EXCEPT ![tmp] = b]
    BY <2>2, <2>3, <2>4, CopyWritten
  <2> HIDE DEF f, b
  <2>6. LinesIn(content', db') = LinesIn(content, db) /\ content'[tmp'] = b
    BY <1>0, <2>2, <2>4, <2>5, SameLines DEF Apart
  <2>7. FilesOf(s, content', db', tmp')
    BY <1>0, <2>1, <2>2, <2>4, <2>6 DEF FilesOf, SameCommand, OtherLines
  <2>8. Database'
    BY <1>0, <2>1, <2>2, <2>7, DatabaseStep
  <2>9. ~DropRename(p)
    BY <2>2 DEF DropRename, At
  <2> QED
    BY <2>6, <2>8, <2>9
<1>5. CASE DropRename(p)
  <2>1. PICK s : Step(p, s) /\ Ended(p, s)
    BY <1>5, DropRenameDoes
  <2>2. /\ r.pc = "dropRename"
        /\ \/ tmp # NoInode /\ db' = tmp /\ tmp' = NoInode
           \/ tmp = NoInode /\ UNCHANGED <<db, tmp>>
        /\ content' = [i \in Inodes |-> IF i \in OpenFiles' THEN content[i] ELSE <<>>]
    BY <1>5, DropRenameDoes DEF OneAtATime
  <2>3. tmp # NoInode /\ Range(content[tmp]) = OtherLines(content, db, n)
    BY <1>0, <2>2 DEF FilesOf
  <2>4. db' = tmp /\ tmp' = NoInode /\ db' \in OpenFiles' /\ tmp \in Inodes
    BY <1>0, <2>2, <2>3 DEF OpenFiles
  <2>5. LinesIn(content', db') = content[tmp] /\ Apart(db', tmp')
    BY <2>2, <2>3, <2>4 DEF LinesIn, Apart
  <2>6. Database'
    BY <2>1, <2>2, <2>3, <2>5, EndedFiles DEF Dropping, OtherLines
  <2> QED
    BY <1>5, <2>3, <2>5, <2>6
<1> QED
  BY <1>1, <1>2, <1>3, <1>4, <1>5 DEF DropStep

\* The other steps leave the database alone.
OtherStep(p) ==
    \/ Start(p) \/ MakeTree(p) \/ Extract(p) \/ Cleanup(p) \/ Unlink(p) \/ Symlink(p)
    \/ RemoveStep(p) \/ Crash(p)

LEMMA OtherFiles ==
    ASSUME OneAtATime, Typed, Database, NEW p \in Procs, OtherStep(p)
    PROVE  Database' /\ UNCHANGED <<content, db, tmp>>
<1>1. UNCHANGED <<content, db, tmp>>
  BY StartDoes, MakeTreeDoes, ExtractDoes, CleanupDoes, UnlinkDoes, SymlinkDoes, ReadMetaDoes,
     UnlinkAllDoes, RemoveFilesDoes, RemoveDirDoes, CrashDoes DEF OtherStep, RemoveStep, diskVars
<1> DEFINE Quiet(s) ==
      /\ s.pc \notin {"addWrite", "dropTmp", "dropCopy", "dropFlush", "dropRename"}
      /\ s.op = "record" => proc[p].op = "record" /\ s.pkg = proc[p].pkg
<1>2. Quiet(Idle)
  BY IdleTyped
<1>3. \E s : Step(p, s) /\ Quiet(s)
  <2>1. CASE Start(p)
    BY <2>1, StartDoes
  <2>2. CASE MakeTree(p)
    BY <1>2, <2>2, MakeTreeDoes DEF SameCommand
  <2>3. CASE Extract(p)
    BY <2>3, ExtractDoes DEF SameCommand, AfterLinks
  <2>4. CASE Cleanup(p) \/ Crash(p)
    BY <1>2, <2>4, CleanupDoes, CrashDoes
  <2>5. CASE Unlink(p)
    BY <2>5, UnlinkDoes DEF SameCommand
  <2>6. CASE Symlink(p)
    BY <2>6, SymlinkDoes DEF SameCommand, AfterLinks
  <2>7. CASE ReadMeta(p)
    BY <2>7, ReadMetaDoes DEF SameCommand, AfterUnlinks
  <2>8. CASE UnlinkAll(p)
    BY <2>8, UnlinkAllDoes DEF SameCommand, AfterUnlinks
  <2>9. CASE RemoveFiles(p) \/ RemoveDir(p)
    BY <2>9, RemoveFilesDoes, RemoveDirDoes DEF SameCommand
  <2> QED
    BY <2>1, <2>2, <2>3, <2>4, <2>5, <2>6, <2>7, <2>8, <2>9 DEF OtherStep, RemoveStep
<1> QED
  BY <1>1, <1>3, QuietFiles

-----------------------------------------------------------------------------
(* What the steps make of the recorded packages                            *)

LEMMA AppendRange ==
    ASSUME NEW lines \in Seq(Pkgs), NEW t
    PROVE  Range(Append(lines, t)) = Range(lines) \cup {t}
<1> DEFINE new == Append(lines, t)
           n == Len(lines)
<1>1. /\ n \in Nat /\ DOMAIN lines = 1..n /\ DOMAIN new = 1..(n + 1)
      /\ new[n + 1] = t /\ \A i \in 1..n : new[i] = lines[i]
  OBVIOUS
<1> HIDE DEF new, n
<1>2. n + 1 \in 1..(n + 1) /\ \A i \in 1..(n + 1) : i \in 1..n \/ i = n + 1
  BY <1>1
<1>3. 1..n \subseteq 1..(n + 1)
  BY <1>1
<1> QED
  BY <1>1, <1>2, <1>3 DEF Range, new

\* A step of pkgdb_remove goes on, or it ends with no line of the name left.
LEMMA DropStepDoes ==
    ASSUME OneAtATime, Typed, Database, NEW p \in Procs, DropStep(p)
    PROVE  /\ proc[p].pc \in Dropping /\ proc[p].pkg \in Pkgs
           /\ UNCHANGED <<tree, link, torn>>
           /\ Recorded' \subseteq Recorded
           /\ DropRename(p) \/ Recorded' = Recorded
           /\ \A u \in Recorded : u \in Recorded' \/ u.name = proc[p].pkg.name
           /\ \E s : /\ Step(p, s)
                     /\ \/ SameCommand(proc[p], s) /\ s.pc \in Dropping /\ cut' = cut
                        \/ Ended(p, s) /\ \A u \in Recorded' : u.name # proc[p].pkg.name
<1>1. proc[p].pc \in Dropping /\ proc[p].pkg \in Pkgs /\ UNCHANGED <<tree, link, torn>>
  BY DropOpenDoes, DropTmpDoes, DropCopyDoes, DropFlushDoes, DropRenameDoes
  DEF DropStep, Dropping, histVars
<1>2. Recorded = Range(LinesIn(content, db)) /\ Recorded' = Range(LinesIn(content', db'))
  BY DEF Recorded, Lines, LinesIn
<1>3. /\ ~DropRename(p) => Recorded' = Recorded
      /\ DropRename(p) => Recorded' = {u \in Recorded : u.name # proc[p].pkg.name}
  BY <1>2, DropFiles DEF OtherLines
<1>4. \E s : /\ Step(p, s)
             /\ \/ SameCommand(proc[p], s) /\ s.pc \in Dropping /\ cut' = cut
                \/ Ended(p, s) /\ \A u \in Recorded' : u.name # proc[p].pkg.name
  <2>1. CASE DropOpen(p)
    <3>1. Recorded' = Recorded
      BY <1>3, <2>1 DEF DropOpen, DropRename, At
    <3>2. db = NoInode => Recorded' = {}
      BY <1>2, <3>1, RangeEmpty DEF LinesIn
    <3>3. \E s : /\ Step(p, s)
                 /\ \/ SameCommand(proc[p], s) /\ s.pc = "dropTmp" /\ cut' = cut
                    \/ db = NoInode /\ Ended(p, s)
      BY <2>1, DropOpenDoes DEF OneAtATime
    <3> QED
      BY <3>2, <3>3 DEF Dropping
  <2>2. CASE DropTmp(p)
    BY <2>2, DropTmpDoes DEF OneAtATime, Dropping
  <2>3. CASE DropCopy(p)
    BY <2>3, DropCopyDoes DEF Dropping, histVars
  <2>4. CASE DropFlush(p)
    BY <2>4, DropFlushDoes DEF Dropping, histVars
  <2>5. CASE DropRename(p)
    BY <1>3, <2>5, DropRenameDoes
  <2> QED
    BY <2>1, <2>2, <2>3, <2>4, <2>5 DEF DropStep
<1> QED
  BY <1>1, <1>3, <1>4

LEMMA AddStepDoes ==
    ASSUME OneAtATime, Typed, Trees, Database, NEW p \in Procs
    PROVE  /\ AddOpen(p) => Recorded' = Recorded
           /\ AddWrite(p) => /\ Recorded' = Recorded \cup {proc[p].pkg}
                             /\ Lines \in Seq(Pkgs) /\ Lines' = Append(Lines, proc[p].pkg)
                             /\ Linked(proc[p], tree, link) /\ proc[p].todo = <<>>
<1>1. /\ Recorded = Range(LinesIn(content, db)) /\ Recorded' = Range(LinesIn(content', db'))
      /\ Lines = LinesIn(content, db) /\ Lines' = LinesIn(content', db')
  BY DEF Recorded, Lines, LinesIn
<1>2. Lines \in Seq(Pkgs)
  BY DEF Lines, Typed, TypeOK
<1>3. AddOpen(p) => Recorded' = Recorded
  BY <1>1, AddFiles
<1>4. ASSUME AddWrite(p)
      PROVE  /\ Recorded' = Recorded \cup {proc[p].pkg}
             /\ Lines' = Append(Lines, proc[p].pkg)
             /\ Linked(proc[p], tree, link) /\ proc[p].todo = <<>>
  <2>1. Lines' = Append(Lines, proc[p].pkg)
    BY <1>1, <1>4, AddFiles
  <2>2. Recorded' = Recorded \cup {proc[p].pkg}
    BY <1>1, <1>2, <2>1, AppendRange
  <2>3. TreesOf(proc[p], tree, link, torn) /\ proc[p].pc = "addWrite"
    BY <1>4, AddWriteDoes DEF Trees
  <2>4. Linked(proc[p], tree, link) /\ proc[p].todo = <<>>
    BY <2>3 DEF TreesOf, Linking, Recording
  <2> QED
    BY <2>1, <2>2, <2>4
<1> QED
  BY <1>2, <1>3, <1>4

LEMMA OtherRecorded ==
    ASSUME OneAtATime, Typed, Database, NEW p \in Procs, OtherStep(p)
    PROVE  Recorded' = Recorded
BY OtherFiles DEF Recorded, Lines

\* Why a recorded package has its tree, or need not have it.
HasTree(u, tr, to, cu, r) ==
    \/ tr[u] = "full" \/ u \in to \/ u.name \in cu
    \/ r.op = "remove" /\ r.pkg.name = u.name

LEMMA HasTreeHere ==
    ASSUME OneAtATime, RecordedHasTree, NEW p \in Procs
    PROVE  \A u \in Recorded : HasTree(u, tree, torn, cut, proc[p])
BY DEF RecordedHasTree, HasTree, OneAtATime

LEMMA HasTreeStep ==
    ASSUME OneAtATime, Typed, NEW p \in Procs, NEW s, Step(p, s),
           \A u \in Recorded' : HasTree(u, tree', torn', cut', s)
    PROVE  RecordedHasTree'
<1>1. proc' = [proc EXCEPT ![p] = s] /\ proc \in [Procs -> Locals]
  BY DEF Step, Typed, TypeOK
<1>2. proc'[p] = s
  BY <1>1
<1> QED
  BY <1>2 DEF RecordedHasTree, HasTree

LEMMA RecordedKept ==
    ASSUME OneAtATime, Typed, Trees, Database, RecordedHasTree, NEW p \in Procs,
           Start(p) \/ InstallStep(p) \/ RemoveStep(p) \/ DropStep(p) \/ Crash(p)
    PROVE  RecordedHasTree'
<1> DEFINE r == proc[p]
           t == r.pkg
<1>0. /\ \A u \in Recorded : HasTree(u, tree, torn, cut, r)
      /\ CommandOK(r) /\ tree \in [Pkgs -> {"none", "partial", "full"}]
      /\ TreesOf(r, tree, link, torn) /\ Recorded \subseteq Pkgs
  <2>1. Lines \in Seq(Pkgs)
    BY DEF Typed, TypeOK, Lines
  <2>2. Recorded \subseteq Pkgs
    BY <2>1 DEF Recorded, Range
  <2> QED
    BY <2>2, HasTreeHere, LocalsOf DEF Typed, TypeOK, Trees
<1>1. CASE Start(p)
  <2>1. PICK s : Step(p, s)
    BY <1>1, StartDoes
  <2>2. UNCHANGED <<tree, torn, cut>> /\ r.op = "none" /\ Recorded' = Recorded
    BY <1>0, <1>1, StartDoes, IdleTyped, OtherRecorded DEF CommandOK, histVars, OtherStep
  <2>3. \A u \in Recorded' : HasTree(u, tree', torn', cut', s)
    BY <1>0, <2>2 DEF HasTree
  <2> QED
    BY <2>1, <2>3, HasTreeStep
<1>2. CASE MakeTree(p) \/ Extract(p) \/ Cleanup(p)
  <2>1. PICK s : Step(p, s)
    BY <1>2, MakeTreeDoes, ExtractDoes, CleanupDoes
  <2>2. /\ t \in Pkgs /\ r.pc \in {"mkdir", "extract", "cleanup"} /\ cut' = cut
        /\ \/ tree' = [tree EXCEPT ![t] = "partial"] /\ torn' = torn \cup {t}
           \/ tree' = [tree EXCEPT ![t] = "full"] /\ torn' = torn \ {t}
           \/ tree' = tree /\ torn' = torn
           \/ tree' = [tree EXCEPT ![t] = "none"] /\ torn' = torn /\ r.pc = "cleanup"
    BY <1>2, MakeTreeDoes, ExtractDoes, CleanupDoes DEF histVars
  <2>3. r.op # "remove" /\ (r.pc = "cleanup" => t \in torn)
    BY <1>0, <2>2 DEF CommandOK, TreesOf, Installing
  <2>4. Recorded' = Recorded
    BY <1>2, OtherRecorded DEF OtherStep
  <2> HIDE DEF t, r
  <2>5. \A u \in Pkgs : tree[u] = "full" \/ u \in torn => tree'[u] = "full" \/ u \in torn'
    BY <1>0, <2>2, <2>3
  <2>6. \A u \in Recorded' : HasTree(u, tree', torn', cut', s)
    BY <1>0, <2>2, <2>3, <2>4, <2>5 DEF HasTree
  <2> QED
    BY <2>1, <2>6, HasTreeStep
<1>3. CASE Unlink(p) \/ Symlink(p) \/ AddOpen(p)
  <2>1. PICK s : Step(p, s)
    BY <1>3, UnlinkDoes, SymlinkDoes, AddOpenDoes
  <2>2. /\ r.pc \in {"unlink", "symlink", "addOpen"} /\ UNCHANGED <<tree, torn, cut>>
    BY <1>3, UnlinkDoes, SymlinkDoes, AddOpenDoes DEF histVars
  <2>3. r.op # "remove"
    BY <1>0, <2>2 DEF CommandOK, Installing, Recording
  <2>4. Recorded' = Recorded
    BY <1>3, OtherRecorded, AddStepDoes DEF OtherStep
  <2>5. \A u \in Recorded' : HasTree(u, tree', torn', cut', s)
    BY <1>0, <2>2, <2>3, <2>4 DEF HasTree
  <2> QED
    BY <2>1, <2>5, HasTreeStep
<1>4. CASE AddWrite(p)
  <2>1. Step(p, AfterAdd(p)) /\ UNCHANGED <<tree, torn, cut>> /\ r.pc = "addWrite"
    BY <1>4, AddWriteDoes DEF histVars
  <2>2. Recorded' = Recorded \cup {t} /\ tree[t] = "full" /\ r.op # "remove"
    BY <1>0, <1>4, <2>1, AddStepDoes DEF Linked, CommandOK, Recording
  <2>3. \A u \in Recorded' : HasTree(u, tree', torn', cut', AfterAdd(p))
    BY <1>0, <2>1, <2>2 DEF HasTree
  <2> QED
    BY <2>1, <2>3, HasTreeStep
<1>5. CASE RemoveStep(p)
  <2>1. PICK s : Step(p, s) /\ SameCommand(r, s)
    BY <1>5, ReadMetaDoes, UnlinkAllDoes, RemoveFilesDoes, RemoveDirDoes DEF RemoveStep
  <2>2. /\ t \in Pkgs /\ r.pc \in Removing /\ UNCHANGED <<torn, cut>>
        /\ \/ tree' = tree
           \/ tree' = [tree EXCEPT ![t] = IF @ = "none" THEN "none" ELSE "partial"]
           \/ tree' = [tree EXCEPT ![t] = "none"]
    BY <1>5, ReadMetaDoes, UnlinkAllDoes, RemoveFilesDoes, RemoveDirDoes
    DEF RemoveStep, histVars, Removing
  <2>3. r.op = "remove" /\ s.op = "remove" /\ s.pkg = t
    BY <1>0, <2>1, <2>2 DEF CommandOK, SameCommand
  <2>4. Recorded' = Recorded
    BY <1>5, OtherRecorded DEF OtherStep
  <2>5. \A u \in Pkgs : u # t => tree'[u] = tree[u]
    BY <1>0, <2>2
  <2>6. \A u \in Recorded' : HasTree(u, tree', torn', cut', s)
    BY <1>0, <2>2, <2>3, <2>4, <2>5 DEF HasTree
  <2> QED
    BY <2>1, <2>6, HasTreeStep
<1>6. CASE DropStep(p)
  <2>1. r.pc \in Dropping /\ UNCHANGED <<tree, torn>> /\ Recorded' \subseteq Recorded
    BY <1>6, DropStepDoes
  <2>2. PICK s : /\ Step(p, s)
                 /\ \/ SameCommand(r, s) /\ cut' = cut
                    \/ Ended(p, s) /\ \A u \in Recorded' : u.name # t.name
    BY <1>6, DropStepDoes
  <2>3. \A u \in Recorded' : HasTree(u, tree', torn', cut', s)
    BY <1>0, <2>1, <2>2 DEF HasTree, SameCommand, Ended
  <2> QED
    BY <2>2, <2>3, HasTreeStep
<1>7. CASE Crash(p)
  <2>1. /\ Step(p, Idle) /\ UNCHANGED <<tree, torn>>
        /\ cut' = IF r.op = "remove" THEN cut \cup {t.name} ELSE cut
    BY <1>7, CrashDoes
  <2>2. Recorded' = Recorded
    BY <1>7, OtherRecorded DEF OtherStep
  <2>3. \A u \in Recorded' : HasTree(u, tree', torn', cut', Idle)
    BY <1>0, <2>1, <2>2 DEF HasTree
  <2> QED
    BY <2>1, <2>3, HasTreeStep
<1> QED
  BY <1>1, <1>2, <1>3, <1>4, <1>5, <1>6, <1>7 DEF InstallStep

-----------------------------------------------------------------------------
(* The theorems                                                            *)

Inv == Typed /\ Trees /\ Database /\ RecordedHasTree

LEMMA InitInv ==
    ASSUME Init
    PROVE  Inv
<1>1. Typed /\ db = NoInode /\ \A p \in Procs : proc[p] = Idle
  BY InitTyped DEF Init
<1>2. LinksLead(tree, link, torn)
  BY DEF Init, LinksLead
<1>3. TreesOf(Idle, tree, link, torn)
  BY DEF TreesOf, Idle, Command, Linking, Recording, Dropping
<1>4. Apart(db, tmp) /\ FilesOf(Idle, content, db, tmp)
  BY <1>1 DEF Apart, FilesOf, Idle, Command
<1>5. Recorded = {}
  BY <1>1, RangeEmpty DEF Recorded, Lines
<1> QED
  BY <1>1, <1>2, <1>3, <1>4, <1>5 DEF Inv, Trees, Database, RecordedHasTree

LEMMA InvKept ==
    ASSUME OneAtATime, Inv, [Next]_vars
    PROVE  Inv'
<1>0. Typed /\ Trees /\ Database /\ RecordedHasTree
  BY DEF Inv
<1>1. Typed' /\ Trees'
  BY <1>0, NextTyped, TreesKept
<1>2. CASE UNCHANGED vars
  <2>1. UNCHANGED <<content, db, tmp, tree, torn, cut, proc>>
    BY <1>2 DEF vars, diskVars, histVars
  <2>2. Database'
    BY <1>0, <2>1 DEF Database, FilesOf, Apart, LinesIn, OtherLines
  <2>3. RecordedHasTree'
    BY <1>0, <2>1 DEF RecordedHasTree, Recorded, Lines
  <2> QED
    BY <1>1, <2>2, <2>3 DEF Inv
<1>3. CASE Next
  <2>1. PICK p \in Procs : Start(p) \/ InstallStep(p) \/ RemoveStep(p) \/ DropStep(p) \/ Crash(p)
    BY <1>3 DEF Next
  <2>2. Database'
    BY <1>0, <2>1, AddFiles, DropFiles, OtherFiles DEF InstallStep, OtherStep
  <2>3. RecordedHasTree'
    BY <1>0, <2>1, RecordedKept
  <2> QED
    BY <1>1, <2>2, <2>3 DEF Inv
<1> QED
  BY <1>2, <1>3

LEMMA SafeInv == OneAtATime /\ Spec => []Inv
<1>1. Init => Inv
  BY InitInv
<1>2. OneAtATime /\ Inv /\ [Next]_vars => Inv'
  BY InvKept
<1>3. OneAtATime => []OneAtATime
  <2>1. OneAtATime => OneAtATime'
    BY DEF OneAtATime
  <2> QED
    BY <2>1, PTL
<1> QED
  BY <1>1, <1>2, <1>3, PTL DEF Spec

\* Commands that run one at a time, and may die at any point, leave no link in
\* bin that leads to a tree that is not there (cmd_install, cmd_remove).
THEOREM LinksAlwaysResolve == OneAtATime /\ Spec => []LinksResolve
<1>1. Inv => LinksResolve
  BY DEF Inv, Trees, LinksLead, LinksResolve
<1> QED
  BY <1>1, SafeInv, PTL

\* They leave no line in pkgdb.txt without the tree it stands for, unless a
\* command on that package was cut short.
THEOREM RecordedAlwaysHasTree == OneAtATime /\ Spec => []RecordedHasTree
<1>1. Inv => RecordedHasTree
  BY DEF Inv
<1> QED
  BY <1>1, SafeInv, PTL

\* A record leaves pkgdb.txt only in the rename of a command on its own name,
\* though every command that drops a record writes the whole database anew.
THEOREM OthersAreSafe == OneAtATime /\ Spec => OthersKept
<1>1. ASSUME OneAtATime, Inv, [Next]_vars, NEW t \in Recorded, t \notin Recorded'
      PROVE  \E p \in Procs : At(p, "dropRename") /\ proc[p].pkg.name = t.name
  <2>0. Typed /\ Trees /\ Database
    BY <1>1 DEF Inv
  <2>1. CASE UNCHANGED vars
    BY <1>1, <2>1 DEF vars, diskVars, Recorded, Lines
  <2>2. CASE Next
    <3>1. PICK p \in Procs : Start(p) \/ InstallStep(p) \/ RemoveStep(p) \/ DropStep(p) \/ Crash(p)
      BY <2>2 DEF Next
    <3>2. ~OtherStep(p) /\ ~AddOpen(p) /\ ~AddWrite(p)
      BY <1>1, <2>0, OtherRecorded, AddStepDoes
    <3>3. DropStep(p)
      BY <3>1, <3>2 DEF OtherStep, InstallStep
    <3>4. DropRename(p) /\ proc[p].pkg.name = t.name
      BY <1>1, <2>0, <3>3, DropStepDoes
    <3>5. At(p, "dropRename")
      BY <3>4 DEF DropRename
    <3> QED
      BY <3>4, <3>5
  <2> QED
    BY <1>1, <2>1, <2>2
<1>2. OneAtATime /\ Inv /\ [Next]_vars =>
        [\A t \in Recorded :
           t \notin Recorded' =>
             \E p \in Procs : At(p, "dropRename") /\ proc[p].pkg.name = t.name]_vars
  BY <1>1
<1>3. OneAtATime => []OneAtATime
  <2>1. OneAtATime => OneAtATime'
    BY DEF OneAtATime
  <2> QED
    BY <2>1, PTL
<1> QED
  BY <1>2, <1>3, SafeInv, PTL DEF Spec, OthersKept

\* A removal that is not killed leaves no line of its package (pkgdb_remove),
\* whatever earlier commands left in the database and in its copy.
THEOREM RemovalForgets == OneAtATime /\ Spec => RemoveForgets
<1>1. ASSUME OneAtATime, Inv, [Next]_vars, NEW p \in Procs, NEW n \in Names,
             Removed(p), proc[p].pkg.name = n
      PROVE  Mentions(n)' = {}
  <2>0. Typed /\ Trees /\ Database
    BY <1>1 DEF Inv
  <2>1. proc[p].op = "remove" /\ proc'[p].pc = "idle" /\ n \notin cut'
    BY <1>1 DEF Removed, At
  <2>2. CommandOK(proc[p]) /\ proc[p].pc # "idle" /\ proc \in [Procs -> Locals]
    BY <2>0, <2>1, LocalsOf, IdleTyped DEF CommandOK, Typed, TypeOK
  <2>3. PICK q \in Procs : Start(q) \/ InstallStep(q) \/ RemoveStep(q) \/ DropStep(q) \/ Crash(q)
    BY <1>1, <2>1, <2>2 DEF Next, vars
  <2>4. q = p
    BY <1>1 DEF OneAtATime
  <2>5. \A s : Step(p, s) => s = proc'[p]
    BY <2>2 DEF Step
  <2>6. ~Start(p)
    BY <2>0, <2>2, StartDoes
  <2>7. ~InstallStep(p)
    BY <2>0, <2>1, <2>2, MakeTreeDoes, ExtractDoes, CleanupDoes, UnlinkDoes, SymlinkDoes,
       AddOpenDoes, AddWriteDoes DEF InstallStep, CommandOK, Installing, Recording
  <2>8. ~RemoveStep(p)
    <3>1. RemoveStep(p) => \E s : Step(p, s) /\ s.pc # "idle"
      BY <2>0, ReadMetaDoes, UnlinkAllDoes, RemoveFilesDoes, RemoveDirDoes
      DEF RemoveStep, AfterUnlinks
    <3> QED
      BY <2>1, <2>5, <3>1
  <2>9. ~Crash(p)
    BY <1>1, <2>0, <2>1, CrashDoes
  <2>10. DropStep(p)
    BY <2>3, <2>4, <2>6, <2>7, <2>8, <2>9
  <2>11. \A u \in Recorded' : u.name # n
    <3>1. PICK s : /\ Step(p, s)
                   /\ \/ s.pc \in Dropping
                      \/ \A u \in Recorded' : u.name # proc[p].pkg.name
      BY <1>1, <2>0, <2>10, DropStepDoes
    <3>2. s.pc \notin Dropping
      BY <2>1, <2>5, <3>1 DEF Dropping
    <3> QED
      BY <1>1, <3>1, <3>2
  <2>12. \A k \in DOMAIN Lines' : Lines'[k].name # n
    BY <2>11 DEF Recorded, Range
  <2> QED
    BY <2>12 DEF Mentions
<1>2. OneAtATime /\ Inv /\ [Next]_vars =>
        [\A p \in Procs, n \in Names :
           Removed(p) /\ proc[p].pkg.name = n => Mentions(n)' = {}]_vars
  BY <1>1
<1>3. OneAtATime => []OneAtATime
  <2>1. OneAtATime => OneAtATime'
    BY DEF OneAtATime
  <2> QED
    BY <2>1, PTL
<1> QED
  BY <1>2, <1>3, SafeInv, PTL DEF Spec, RemoveForgets

\* An upgrade leaves one line of its package, the version it has installed,
\* and its links lead to that version (cmd_upgrade).
THEOREM UpgradesTakeEffect == OneAtATime /\ Spec => UpgradeTakesEffect
<1>1. ASSUME OneAtATime, Inv, [Next]_vars, NEW p \in Procs, NEW t \in Pkgs,
             Upgraded(p), proc[p].pkg = t
      PROVE  /\ Cardinality(Mentions(t.name)') = 1
             /\ FoundVersion(t.name)' = t.version
             /\ \A b \in Range(Files[t]) : link[b] = t
  <2>0. Typed /\ Trees /\ Database
    BY <1>1 DEF Inv
  <2>1. proc[p].op = "record" /\ proc[p].pc = "addWrite" /\ content' # content
    BY <1>1 DEF Upgraded, At
  <2>2. PICK q \in Procs : Start(q) \/ InstallStep(q) \/ RemoveStep(q) \/ DropStep(q) \/ Crash(q)
    BY <1>1, <2>1 DEF Next, vars, diskVars
  <2>3. q = p
    BY <1>1 DEF OneAtATime
  <2>4. ~OtherStep(p)
    BY <1>1, <2>0, <2>1, OtherFiles
  <2>5. ~AddOpen(p) /\ ~DropStep(p)
    BY <1>1, <2>0, <2>1, AddOpenDoes, DropStepDoes DEF Dropping
  <2>6. AddWrite(p)
    BY <2>2, <2>3, <2>4, <2>5 DEF OtherStep, InstallStep
  <2>7. /\ Lines \in Seq(Pkgs) /\ Lines' = Append(Lines, t)
        /\ Linked(proc[p], tree, link) /\ proc[p].todo = <<>>
    BY <1>1, <2>0, <2>6, AddStepDoes
  <2>8. \A b \in Range(Files[t]) : link[b] = t
    BY <1>1, <2>7, RangeEmpty DEF Linked
  <2>9. \A k \in DOMAIN Lines : Lines[k].name # t.name
    <3>1. \A u \in Range(Lines) : u.name # t.name
      BY <1>1, <2>0, <2>1, LinesInDb DEF Database, FilesOf
    <3> QED
      BY <3>1 DEF Range
  <2> DEFINE k == Len(Lines) + 1
             found == Mentions(t.name)'
  <2>10. /\ k \in Nat /\ k \in 1..k /\ DOMAIN Lines' = 1..k /\ Lines'[k] = t
         /\ \A i \in 1..k : i # k => i \in DOMAIN Lines /\ Lines'[i] = Lines[i]
    BY <2>7
  <2>11. found = {i \in 1..k : Lines'[i].name = t.name}
    BY <2>10 DEF Mentions
  <2> HIDE DEF k
  <2>12. found = {k}
    BY <2>9, <2>10, <2>11
  <2>13. Cardinality(found) = 1
    BY <2>12, FS_Singleton
  <2>14. FoundVersion(t.name)' = Lines'[CHOOSE i \in found : \A j \in found : i <= j].version
    BY DEF FoundVersion
  <2> HIDE DEF found
  <2>15. (CHOOSE i \in found : \A j \in found : i <= j) = k
    BY <2>10, <2>12
  <2>16. FoundVersion(t.name)' = t.version
    BY <2>10, <2>14, <2>15
  <2> QED
    BY <2>8, <2>13, <2>16 DEF found
<1>2. OneAtATime /\ Inv /\ [Next]_vars =>
        [\A p \in Procs, t \in Pkgs :
           Upgraded(p) /\ proc[p].pkg = t =>
             /\ Cardinality(Mentions(t.name)') = 1
             /\ FoundVersion(t.name)' = t.version
             /\ \A b \in Range(Files[t]) : link[b] = t]_vars
  BY <1>1
<1>3. OneAtATime => []OneAtATime
  <2>1. OneAtATime => OneAtATime'
    BY DEF OneAtATime
  <2> QED
    BY <2>1, PTL
<1> QED
  BY <1>2, <1>3, SafeInv, PTL DEF Spec, UpgradeTakesEffect

-----------------------------------------------------------------------------
(***************************************************************************)
(* The package manager, one command at a time, is a map from names to      *)
(* versions. What pkgdb_find finds is the first line of a name: a line at  *)
(* the end changes it where there was none (FoundAfterAppend), and the     *)
(* copy that pkgdb_remove makes keeps the order of the lines it keeps      *)
(* (FoundAfterDrop), so all other names are found as before. Copied says   *)
(* that from the copy to the rename it is this that is in the buffer, and  *)
(* then in the file.                                                       *)
(***************************************************************************)

-----------------------------------------------------------------------------
(* What is found in a list of lines                                        *)

Places(lines, n) == {k \in DOMAIN lines : lines[k].name = n}
FoundIn(lines, n) ==
  IF Places(lines, n) = {} THEN <<>>
  ELSE lines[CHOOSE k \in Places(lines, n) : \A j \in Places(lines, n) : k <= j].version

LEMMA InstalledIsFound ==
    ASSUME NEW n
    PROVE  Installed(n) = FoundIn(LinesIn(content, db), n)
BY LinesInDb DEF Installed, FoundIn, Mentions, Places, FoundVersion

LEMMA InstalledIsFoundNext ==
    ASSUME NEW n
    PROVE  Installed(n)' = FoundIn(LinesIn(content', db'), n)
<1>1. Lines' = LinesIn(content', db')
  BY DEF Lines, LinesIn
<1> QED
  BY <1>1 DEF Installed, FoundIn, Mentions, Places, FoundVersion

\* The first line of a name, and a name without one.
IsFirst(lines, n, k) ==
  /\ k \in 1..Len(lines) /\ lines[k].name = n
  /\ \A j \in 1..(k - 1) : lines[j].name # n

LEMMA FirstIsFound ==
    ASSUME NEW lines \in Seq(Pkgs), NEW n, NEW k, IsFirst(lines, n, k)
    PROVE  FoundIn(lines, n) = lines[k].version
<1> DEFINE S == Places(lines, n)
           L == Len(lines)
<1>1. L \in Nat /\ DOMAIN lines = 1..L /\ k \in 1..L
  BY DEF IsFirst
<1>2. k \in S /\ S \subseteq 1..L
  BY <1>1 DEF Places, IsFirst
<1>3. \A j \in S : j \notin 1..(k - 1)
  BY DEF Places, IsFirst
<1> HIDE DEF S, L
<1>4. \A j \in S : k <= j
  BY <1>1, <1>2, <1>3
<1>5. \A i \in S : (\A j \in S : i <= j) => i = k
  BY <1>1, <1>2, <1>4
<1> HIDE DEF IsFirst
<1>6. (CHOOSE i \in S : \A j \in S : i <= j) = k
  BY <1>2, <1>4, <1>5
<1> QED
  BY <1>2, <1>6 DEF FoundIn, S

LEMMA FirstExists ==
    ASSUME NEW lines \in Seq(Pkgs), NEW n, Places(lines, n) # {}
    PROVE  \E k : IsFirst(lines, n, k)
<1> DEFINE L == Len(lines)
<1>1. L \in Nat /\ DOMAIN lines = 1..L /\ Places(lines, n) \subseteq 1..L
  BY DEF Places
<1>2. PICK k \in Places(lines, n) : \A j \in Places(lines, n) : k <= j
  BY <1>1, LeastExists
<1>3. k \in 1..L /\ lines[k].name = n
  BY <1>1, <1>2 DEF Places
<1>4. ASSUME NEW j \in 1..(k - 1) PROVE lines[j].name # n
  <2>1. j \in 1..L /\ ~(k <= j)
    BY <1>1, <1>3
  <2> QED
    BY <1>1, <1>2, <2>1 DEF Places
<1> QED
  BY <1>3, <1>4 DEF IsFirst

LEMMA NoneFound ==
    ASSUME NEW lines, NEW n, Places(lines, n) = {}
    PROVE  FoundIn(lines, n) = <<>>
BY DEF FoundIn

\* Versions are not empty: what is found tells whether something is.
LEMMA FoundIsVersion ==
    ASSUME NEW lines \in Seq(Pkgs), NEW n
    PROVE  /\ Places(lines, n) = {} <=> FoundIn(lines, n) = <<>>
           /\ FoundIn(lines, n) # <<>> => FoundIn(lines, n) \in Versions
<1>1. CASE Places(lines, n) = {}
  BY <1>1, NoneFound
<1>2. CASE Places(lines, n) # {}
  <2>1. PICK k : IsFirst(lines, n, k)
    BY <1>2, FirstExists
  <2>2. lines[k] \in Pkgs /\ FoundIn(lines, n) = lines[k].version
    BY <2>1, FirstIsFound DEF IsFirst
  <2>3. FoundIn(lines, n) \in Versions
    BY <2>2 DEF Pkgs
  <2> QED
    BY <1>2, <2>3, PkgStoreAssumption
<1> QED
  BY <1>1, <1>2

\* pkgdb_add writes at the end, where only a name without a line is found.
LEMMA FoundAfterAppend ==
    ASSUME NEW lines \in Seq(Pkgs), NEW t \in Pkgs, NEW n
    PROVE  FoundIn(Append(lines, t), n) =
             IF n = t.name /\ FoundIn(lines, n) = <<>> THEN t.version ELSE FoundIn(lines, n)
<1> DEFINE new == Append(lines, t)
           L == Len(lines)
<1>1. /\ L \in Nat /\ new \in Seq(Pkgs) /\ Len(new) = L + 1 /\ DOMAIN lines = 1..L
      /\ DOMAIN new = 1..(L + 1) /\ new[L + 1] = t /\ \A i \in 1..L : new[i] = lines[i]
  OBVIOUS
<1> HIDE DEF new
<1>2. CASE Places(lines, n) # {}
  <2>1. PICK k : IsFirst(lines, n, k)
    BY <1>2, FirstExists
  <2>2. k \in 1..L /\ lines[k].name = n /\ \A j \in 1..(k - 1) : lines[j].name # n
    BY <2>1 DEF IsFirst
  <2> HIDE DEF L
  <2>3. k \in 1..(L + 1) /\ \A j \in 1..(k - 1) : j \in 1..L
    BY <1>1, <2>2
  <2>4. IsFirst(new, n, k)
    BY <1>1, <2>2, <2>3 DEF IsFirst
  <2>5. FoundIn(new, n) = lines[k].version /\ FoundIn(lines, n) = lines[k].version
    BY <1>1, <2>1, <2>2, <2>4, FirstIsFound
  <2>6. FoundIn(lines, n) # <<>>
    BY <1>2, FoundIsVersion
  <2> QED
    BY <2>5, <2>6 DEF new
<1>3. CASE Places(lines, n) = {} /\ n = t.name
  <2>1. \A j \in 1..L : lines[j].name # n
    BY <1>1, <1>3 DEF Places
  <2> HIDE DEF L
  <2> DEFINE k == L + 1
  <2>2. k \in 1..(L + 1) /\ 1..(k - 1) = 1..L /\ new[k] = t
    BY <1>1
  <2> HIDE DEF k
  <2>3. IsFirst(new, n, k)
    BY <1>1, <1>3, <2>1, <2>2 DEF IsFirst
  <2>4. FoundIn(new, n) = t.version
    BY <1>1, <2>2, <2>3, FirstIsFound
  <2> QED
    BY <1>3, <2>4, NoneFound DEF new
<1>4. CASE Places(lines, n) = {} /\ n # t.name
  <2>1. \A j \in 1..L : lines[j].name # n
    BY <1>1, <1>4 DEF Places
  <2> HIDE DEF L
  <2>2. \A j \in 1..(L + 1) : j \in 1..L \/ j = L + 1
    BY <1>1
  <2>3. Places(new, n) = {}
    BY <1>1, <1>4, <2>1, <2>2 DEF Places
  <2> QED
    BY <1>4, <2>3, NoneFound DEF new
<1> QED
  BY <1>2, <1>3, <1>4

\* pkgdb_remove keeps the lines of the other names in their order.
LEMMA FoundAfterDrop ==
    ASSUME NEW lines \in Seq(Pkgs), NEW t, NEW n
    PROVE  FoundIn(KeepOthers(lines, t), n) = IF n = t.name THEN <<>> ELSE FoundIn(lines, n)
<1> DEFINE kept == {k \in DOMAIN lines : lines[k].name # t.name}
           order == CHOOSE f \in [1..Cardinality(kept) -> kept] :
                      \A i, j \in DOMAIN f : i < j => f[i] < f[j]
           c == Cardinality(kept)
           new == KeepOthers(lines, t)
<1>1. kept \subseteq 1..Len(lines) /\ Len(lines) \in Nat
  OBVIOUS
<1>2. new = [i \in DOMAIN order |-> lines[order[i]]]
  BY DEF KeepOthers
<1>0. \A k : k \in kept <=> k \in 1..Len(lines) /\ lines[k].name # t.name
  OBVIOUS
<1> HIDE DEF kept
<1>3. /\ c \in Nat /\ \E f \in [1..c -> kept] : Increasing(f)
      /\ \A f \in [1..c -> kept] : Increasing(f) => Range(f) = kept
  BY <1>1, PlacesInOrder
<1>4. order \in [1..c -> kept] /\ Increasing(order)
  BY <1>3 DEF Increasing
<1>5. new \in Seq(Pkgs)
  BY OthersAreKept
<1> HIDE DEF order, c
<1>6. Range(order) = kept
  BY <1>3, <1>4
<1>7. /\ DOMAIN order = 1..c /\ \A i \in 1..c : order[i] \in kept
      /\ \A i, j \in 1..c : i < j => order[i] < order[j]
  BY <1>4 DEF Increasing
<1>8. DOMAIN new = 1..c /\ \A i \in 1..c : new[i] = lines[order[i]]
  BY <1>2, <1>7
<1> HIDE DEF new
<1>9. Len(new) = c
  BY <1>3, <1>5, <1>8
<1>10. CASE n = t.name
  <2>1. Places(new, n) = {}
    BY <1>0, <1>7, <1>8, <1>10 DEF Places
  <2> QED
    BY <1>10, <2>1, NoneFound DEF new
<1>11. CASE n # t.name /\ Places(lines, n) = {}
  <2>1. \A k \in 1..Len(lines) : lines[k].name # n
    BY <1>11 DEF Places
  <2>2. Places(new, n) = {}
    BY <1>0, <1>7, <1>8, <2>1 DEF Places
  <2> QED
    BY <1>11, <2>2, NoneFound DEF new
<1>12. CASE n # t.name /\ Places(lines, n) # {}
  <2>1. PICK k : IsFirst(lines, n, k)
    BY <1>12, FirstExists
  <2>2. k \in 1..Len(lines) /\ lines[k].name = n /\ \A j \in 1..(k - 1) : lines[j].name # n
    BY <2>1 DEF IsFirst
  <2>3. PICK i \in 1..c : order[i] = k
    <3>1. k \in Range(order)
      BY <1>0, <1>6, <1>12, <2>2
    <3> QED
      BY <1>7, <3>1 DEF Range
  <2>4. ASSUME NEW j \in 1..(i - 1) PROVE new[j].name # n
    <3>1. j \in 1..c /\ j < i
      BY <1>3
    <3>2. order[j] < k /\ order[j] \in 1..Len(lines)
      BY <1>0, <1>7, <2>3, <3>1
    <3>3. order[j] \in 1..(k - 1)
      BY <1>1, <2>2, <3>2
    <3> QED
      BY <1>8, <2>2, <3>1, <3>3
  <2>5. new[i] = lines[k] /\ IsFirst(new, n, i)
    BY <1>8, <1>9, <2>2, <2>3, <2>4 DEF IsFirst
  <2>6. FoundIn(new, n) = FoundIn(lines, n)
    BY <1>5, <2>1, <2>5, FirstIsFound
  <2> QED
    BY <1>12, <2>6 DEF new
<1> QED
  BY <1>10, <1>11, <1>12

-----------------------------------------------------------------------------
(* The copy of the database, and what an upgrade is an upgrade of          *)

\* What a command knows of the files (c), the database (d) and its copy (t).
CopyOf(r, c, d, t) ==
  /\ r.pc = "dropFlush" => r.buf = KeepOthers(LinesIn(c, d), r.pkg)
  /\ r.pc = "dropRename" => c[t] = KeepOthers(LinesIn(c, d), r.pkg)
  /\ r.op = "upgrade" => FoundIn(LinesIn(c, d), r.pkg.name) # <<>>

Copied == \A p \in Procs : CopyOf(proc[p], content, db, tmp)

LEMMA CopiedStep ==
    ASSUME OneAtATime, Typed, NEW p \in Procs, NEW s, Step(p, s),
           CopyOf(s, content', db', tmp')
    PROVE  Copied'
<1>1. proc' = [proc EXCEPT ![p] = s] /\ proc \in [Procs -> Locals]
  BY DEF Step, Typed, TypeOK
<1>2. \A q \in Procs : proc'[q] = s
  BY <1>1 DEF OneAtATime
<1>3. \A q \in Procs : CopyOf(proc'[q], content', db', tmp')
  BY <1>2
<1> QED
  BY <1>3 DEF Copied, CopyOf, LinesIn, FoundIn, Places

\* What the user sees of a step: nothing, the end of a command without effect,
\* or the beginning of one; the two that write the database are apart.
Unseen(p, s) == SameCommand(proc[p], s) /\ s.pc \notin {"dropFlush", "dropRename"}

LEMMA StartIsSeen ==
    ASSUME Typed, NEW p \in Procs, Start(p)
    PROVE  /\ UNCHANGED <<content, db, tmp>> /\ proc[p] = Idle
           /\ \E s : /\ Step(p, s) /\ s.pc \in {"mkdir", "meta"} /\ s.pkg \in Pkgs
                     /\ LET v == FoundIn(LinesIn(content, db), s.pkg.name) IN
                        \/ s.op = "install"
                        \/ s.op = "upgrade" /\ v # <<>> /\ Older(v, s.pkg.version)
                        \/ s.op = "remove" /\ v = s.pkg.version
<1>0. UNCHANGED <<content, db, tmp>> /\ proc[p] = Idle
  BY StartDoes, LocalsOf DEF diskVars, CommandOK
<1>1. CASE \E t \in Pkgs : Install(p, t)
  <2>1. PICK t \in Pkgs : Install(p, t)
    BY <1>1
  <2> DEFINE s == Command("install", t, "mkdir")
  <2>2. proc' = [proc EXCEPT ![p] = s]
    BY <2>1 DEF Install
  <2>3. s \in Locals /\ CommandOK(s) /\ s.pc = "mkdir" /\ s.op = "install" /\ s.pkg = t
    BY CommandTyped
  <2> HIDE DEF s
  <2> QED
    BY <1>0, <2>2, <2>3 DEF Step
<1>2. CASE \E n \in Names : Upgrade(p, n)
  <2>1. PICK n \in Names : Upgrade(p, n)
    BY <1>2
  <2>0. PICK v \in Fetched(n) :
          /\ Older(FoundVersion(n), v)
          /\ proc' = [proc EXCEPT ![p] = Command("upgrade", [name |-> n, version |-> v], "mkdir")]
    BY <2>1 DEF Upgrade
  <2> DEFINE t == [name |-> n, version |-> v]
             s == Command("upgrade", t, "mkdir")
             w == FoundIn(LinesIn(content, db), n)
  <2>2. proc' = [proc EXCEPT ![p] = s]
    BY <2>0
  <2>3. t \in Pkgs /\ t.name = n /\ t.version = v
    BY NewestIsOffered DEF Pkgs
  <2>4. w = FoundVersion(n) /\ w # <<>>
    <3>1. Mentions(n) # {} /\ Installed(n) = w
      BY <2>1, InstalledIsFound DEF Upgrade
    <3>2. Installed(n) = FoundVersion(n)
      BY <3>1 DEF Installed
    <3>3. FoundVersion(n) \in Versions
      BY <3>1, FoundTyped DEF Pkgs
    <3> QED
      BY <3>1, <3>2, <3>3, PkgStoreAssumption
  <2>5. Older(w, v)
    BY <2>0, <2>4
  <2> HIDE DEF t, w
  <2>6. s \in Locals /\ CommandOK(s) /\ s.pc = "mkdir" /\ s.op = "upgrade" /\ s.pkg = t
    BY <2>3, CommandTyped
  <2> HIDE DEF s
  <2> QED
    BY <1>0, <2>2, <2>3, <2>4, <2>5, <2>6 DEF Step, w
<1>3. CASE \E n \in Names : Remove(p, n)
  <2>1. PICK n \in Names : Remove(p, n)
    BY <1>3
  <2> DEFINE t == [name |-> n, version |-> FoundVersion(n)]
             s == Command("remove", t, "meta")
             w == FoundIn(LinesIn(content, db), n)
  <2>2. proc' = [proc EXCEPT ![p] = s] /\ Mentions(n) # {}
    BY <2>1 DEF Remove
  <2>3. t \in Pkgs /\ t.name = n /\ t.version = FoundVersion(n)
    BY <2>2, FoundTyped
  <2>4. w = FoundVersion(n)
    BY <2>2, InstalledIsFound DEF Installed
  <2> HIDE DEF t, w
  <2>6. s \in Locals /\ CommandOK(s) /\ s.pc = "meta" /\ s.op = "remove" /\ s.pkg = t
    BY <2>3, CommandTyped
  <2> HIDE DEF s
  <2> QED
    BY <1>0, <2>2, <2>3, <2>4, <2>6 DEF Step, w
<1> QED
  BY <1>1, <1>2, <1>3 DEF Start

LEMMA OtherIsSeen ==
    ASSUME OneAtATime, Typed, NEW p \in Procs, OtherStep(p), ~Start(p)
    PROVE  \E s : Step(p, s) /\ (Unseen(p, s) \/ s = Idle)
<1>1. CASE MakeTree(p)
  BY <1>1, MakeTreeDoes DEF Unseen
<1>2. CASE Extract(p)
  BY <1>2, ExtractDoes DEF Unseen, AfterLinks
<1>3. CASE Cleanup(p) \/ Crash(p)
  BY <1>3, CleanupDoes, CrashDoes
<1>4. CASE Unlink(p)
  BY <1>4, UnlinkDoes DEF Unseen
<1>5. CASE Symlink(p)
  BY <1>5, SymlinkDoes DEF Unseen, AfterLinks
<1>6. CASE ReadMeta(p)
  BY <1>6, ReadMetaDoes DEF Unseen, AfterUnlinks
<1>7. CASE UnlinkAll(p)
  BY <1>7, UnlinkAllDoes DEF Unseen, AfterUnlinks
<1>8. CASE RemoveFiles(p) \/ RemoveDir(p)
  BY <1>8, RemoveFilesDoes, RemoveDirDoes DEF Unseen
<1> QED
  BY <1>1, <1>2, <1>3, <1>4, <1>5, <1>6, <1>7, <1>8 DEF OtherStep, RemoveStep

LEMMA AddIsSeen ==
    ASSUME OneAtATime, Typed, Database, NEW p \in Procs, AddOpen(p) \/ AddWrite(p)
    PROVE  /\ AddOpen(p) => \E s : Step(p, s) /\ Unseen(p, s)
           /\ AddWrite(p) => /\ proc[p].op \in {"install", "upgrade", "record"}
                             /\ proc[p].pkg \in Pkgs
                             /\ \E s : /\ Step(p, s)
                                       /\ IF proc[p].op = "upgrade" THEN Unseen(p, s) ELSE s = Idle
<1>1. ASSUME AddOpen(p) PROVE \E s : Step(p, s) /\ Unseen(p, s)
  BY <1>1, AddOpenDoes DEF OneAtATime, Unseen
<1>2. ASSUME AddWrite(p)
      PROVE  /\ proc[p].op \in {"install", "upgrade", "record"} /\ proc[p].pkg \in Pkgs
             /\ \E s : Step(p, s) /\ IF proc[p].op = "upgrade" THEN Unseen(p, s) ELSE s = Idle
  <2>1. Step(p, AfterAdd(p)) /\ proc[p].pc = "addWrite" /\ proc[p].pkg \in Pkgs
    BY <1>2, AddWriteDoes
  <2>2. IF proc[p].op = "upgrade" THEN Unseen(p, AfterAdd(p)) ELSE AfterAdd(p) = Idle
    BY <2>1, AfterAddOK DEF Recording, Unseen
  <2>3. proc[p].op \in {"install", "upgrade", "record"}
    BY <2>1, LocalsOf DEF CommandOK, Recording
  <2> QED
    BY <2>1, <2>2, <2>3
<1> QED
  BY <1>1, <1>2

\* The copy of a removal goes on, or is what the database becomes.
Progresses(p, s) ==
  /\ SameCommand(proc[p], s)
  /\ s.pc = "dropFlush" => s.buf = KeepOthers(LinesIn(content', db'), s.pkg)
  /\ s.pc = "dropRename" => content'[tmp'] = KeepOthers(LinesIn(content', db'), s.pkg)

LEMMA NothingInRange ==
    ASSUME NEW lines \in Seq(Pkgs), Range(lines) = {}
    PROVE  lines = <<>>
<1>1. Len(lines) \in Nat /\ DOMAIN lines = 1..Len(lines)
  OBVIOUS
<1>2. 1 \notin 1..Len(lines)
  BY <1>1 DEF Range
<1>3. Len(lines) = 0
  BY <1>1, <1>2
<1> QED
  BY <1>3

LEMMA DropIsSeen ==
    ASSUME OneAtATime, Typed, Database, Copied, NEW p \in Procs, DropStep(p)
    PROVE  /\ proc[p].op \in {"upgrade", "remove"} /\ proc[p].pkg \in Pkgs
           /\ \/ /\ LinesIn(content', db') = LinesIn(content, db)
                 /\ \E s : Step(p, s) /\ Progresses(p, s)
              \/ /\ LinesIn(content', db') = KeepOthers(LinesIn(content, db), proc[p].pkg)
                 /\ Step(p, AfterDrop(p))
<1> DEFINE r == proc[p]
           Goes == /\ LinesIn(content', db') = LinesIn(content, db)
                   /\ \E s : Step(p, s) /\ Progresses(p, s)
           Ends == /\ LinesIn(content', db') = KeepOthers(LinesIn(content, db), r.pkg)
                   /\ Step(p, AfterDrop(p))
<1>0. /\ Apart(db, tmp) /\ FilesOf(r, content, db, tmp) /\ CopyOf(r, content, db, tmp)
      /\ content \in [Inodes -> Seq(Pkgs)] /\ db \in Inodes \cup {NoInode}
      /\ tmp \in Inodes \cup {NoInode} /\ NoInode \notin Inodes
  BY PkgStoreAssumption DEF Database, Typed, TypeOK, Copied
<1>1. r.pc \in Dropping /\ r.pkg \in Pkgs
  BY DropOpenDoes, DropTmpDoes, DropCopyDoes, DropFlushDoes, DropRenameDoes DEF DropStep, Dropping
<1>2. r.op \in {"upgrade", "remove"}
  BY <1>1, LocalsOf DEF CommandOK
<1>3. CASE DropOpen(p)
  <2>1. ~DropRename(p) /\ UNCHANGED <<content, db, tmp>>
    BY <1>3, DropOpenDoes DEF DropOpen, DropRename, At, diskVars
  <2>2. PICK s : /\ Step(p, s)
                 /\ \/ SameCommand(r, s) /\ s.pc = "dropTmp"
                    \/ db = NoInode /\ Ended(p, s)
    BY <1>3, DropOpenDoes DEF OneAtATime
  <2>3. CASE SameCommand(r, s) /\ s.pc = "dropTmp"
    BY <1>1, <1>2, <2>1, <2>2, <2>3 DEF Progresses
  <2>4. CASE db = NoInode /\ Ended(p, s)
    <3> DEFINE new == KeepOthers(LinesIn(content, db), r.pkg)
               old == LinesIn(content, db)
    <3>1. old \in Seq(Pkgs) /\ Range(old) = {} /\ LinesIn(content', db') = old
      BY <2>1, <2>4, RangeEmpty DEF LinesIn
    <3>2. new \in Seq(Pkgs) /\ Range(new) = {}
      BY <3>1, OthersAreKept
    <3> HIDE DEF new, old
    <3>3. new = <<>> /\ old = <<>>
      BY <3>1, <3>2, NothingInRange
    <3> QED
      BY <1>1, <1>2, <2>2, <2>4, <3>1, <3>3 DEF Ended, new, old
  <2> QED
    BY <2>2, <2>3, <2>4
<1>4. CASE DropTmp(p)
  <2>1. ~DropRename(p)
    BY <1>4 DEF DropTmp, DropRename, At
  <2>2. PICK s : Step(p, s) /\ SameCommand(r, s) /\ s.pc = "dropCopy"
    BY <1>4, DropTmpDoes DEF OneAtATime
  <2>3. LinesIn(content', db') = LinesIn(content, db)
    BY <2>1, DropFiles
  <2> QED
    BY <1>1, <1>2, <2>2, <2>3 DEF Progresses
<1>5. CASE DropCopy(p)
  <2>1. PICK s : /\ Step(p, s) /\ SameCommand(r, s) /\ s.pc = "dropFlush"
                 /\ s.buf = KeepOthers(content[r.fin], r.pkg)
    BY <1>5, DropCopyDoes
  <2>2. UNCHANGED <<content, db>> /\ r.pc = "dropCopy"
    BY <1>5, DropCopyDoes DEF diskVars
  <2>3. content[r.fin] = LinesIn(content', db') /\ LinesIn(content', db') = LinesIn(content, db)
    BY <1>0, <2>2 DEF FilesOf, LinesIn
  <2>4. Progresses(p, s)
    BY <2>1, <2>3 DEF Progresses, SameCommand
  <2> QED
    BY <1>1, <1>2, <2>1, <2>3, <2>4
<1>6. CASE DropFlush(p)
  <2> DEFINE f == r.fout
             b == r.buf
  <2>1. PICK s : Step(p, s) /\ SameCommand(r, s) /\ s.pc = "dropRename"
    BY <1>6, DropFlushDoes
  <2>2. db' = db /\ tmp' = tmp /\ r.pc = "dropFlush" /\ b \in Seq(Pkgs)
    BY <1>6, DropFlushDoes
  <2>3. content' = [content EXCEPT ![f] = WrittenOver(@, SubSeq(b, 1, Len(b)))]
    BY <1>6, DropFlushDoes DEF OneAtATime
  <2>4. f = tmp /\ tmp # NoInode /\ db # NoInode /\ content[tmp] = <<>>
    BY <1>0, <2>2 DEF FilesOf
  <2>5. content' = [content EXCEPT ![tmp] = b]
    BY <2>2, <2>3, <2>4, CopyWritten
  <2>6. b = KeepOthers(LinesIn(content, db), r.pkg)
    BY <1>0, <2>2 DEF CopyOf
  <2> HIDE DEF f, b
  <2>7. LinesIn(content', db') = LinesIn(content, db) /\ content'[tmp'] = b
    BY <1>0, <2>2, <2>4, <2>5, SameLines DEF Apart
  <2>8. Progresses(p, s)
    BY <2>1, <2>6, <2>7 DEF Progresses, SameCommand
  <2> QED
    BY <1>1, <1>2, <2>1, <2>7, <2>8
<1>7. CASE DropRename(p)
  <2>1. PICK s : Step(p, s) /\ Ended(p, s)
    BY <1>7, DropRenameDoes
  <2>2. /\ r.pc = "dropRename"
        /\ \/ tmp # NoInode /\ db' = tmp /\ tmp' = NoInode
           \/ tmp = NoInode /\ UNCHANGED <<db, tmp>>
        /\ content' = [i \in Inodes |-> IF i \in OpenFiles' THEN content[i] ELSE <<>>]
    BY <1>7, DropRenameDoes DEF OneAtATime
  <2>3. tmp # NoInode /\ content[tmp] = KeepOthers(LinesIn(content, db), r.pkg)
    BY <1>0, <2>2 DEF FilesOf, CopyOf
  <2>4. db' = tmp /\ db' \in OpenFiles' /\ tmp \in Inodes
    BY <1>0, <2>2, <2>3 DEF OpenFiles
  <2>5. LinesIn(content', db') = content[tmp]
    BY <2>2, <2>3, <2>4 DEF LinesIn
  <2> QED
    BY <1>1, <1>2, <2>1, <2>3, <2>5 DEF Ended
<1> QED
  BY <1>3, <1>4, <1>5, <1>6, <1>7 DEF DropStep

LEMMA CopiedAtFirst ==
    ASSUME Init
    PROVE  Copied
BY IdleTyped DEF Init, Copied, CopyOf

\* A step that goes on with a command that has no copy to keep.
LEMMA UnseenCopied ==
    ASSUME OneAtATime, Typed, Copied, NEW p \in Procs, NEW s, Step(p, s),
           Unseen(p, s) \/ s = Idle,
           s.op = "upgrade" /\ FoundIn(LinesIn(content, db), s.pkg.name) # <<>> =>
             FoundIn(LinesIn(content', db'), s.pkg.name) # <<>>
    PROVE  Copied'
<1>1. CopyOf(proc[p], content, db, tmp)
  BY DEF Copied
<1>2. CopyOf(s, content', db', tmp')
  BY <1>1, IdleTyped DEF CopyOf, Unseen, SameCommand
<1> QED
  BY <1>2, CopiedStep

LEMMA LinesTyped == ASSUME Typed PROVE LinesIn(content, db) \in Seq(Pkgs)
BY DEF Typed, TypeOK, LinesIn

LEMMA CopiedKept ==
    ASSUME OneAtATime, Inv, Copied, [Next]_vars
    PROVE  Copied'
<1>0. Typed /\ Database
  BY DEF Inv
<1>1. CASE UNCHANGED vars
  <2>1. content' = content /\ db' = db /\ tmp' = tmp /\ proc' = proc
    BY <1>1 DEF vars, diskVars
  <2>2. \A p \in Procs : CopyOf(proc'[p], content', db', tmp')
    BY <2>1 DEF Copied
  <2> QED
    BY <2>2 DEF Copied, CopyOf, LinesIn, FoundIn, Places
<1>2. CASE Next
  <2>1. PICK p \in Procs : Start(p) \/ InstallStep(p) \/ RemoveStep(p) \/ DropStep(p) \/ Crash(p)
    BY <1>2 DEF Next
  <2> DEFINE old == LinesIn(content, db)
             new == LinesIn(content', db')
  <2>2. old \in Seq(Pkgs)
    BY <1>0, LinesTyped
  <2> HIDE DEF old, new
  <2>3. CASE Start(p)
    <3>1. PICK s : /\ Step(p, s) /\ s.pc \in {"mkdir", "meta"}
                   /\ s.op = "upgrade" => FoundIn(old, s.pkg.name) # <<>>
      BY <1>0, <2>3, StartIsSeen DEF old
    <3>2. new = old
      BY <1>0, <2>3, StartIsSeen DEF new, old, LinesIn
    <3>3. CopyOf(s, content', db', tmp')
      BY <3>1, <3>2 DEF CopyOf, new
    <3> QED
      BY <1>0, <3>1, <3>3, CopiedStep
  <2>4. CASE OtherStep(p) /\ ~Start(p)
    <3>1. new = old
      BY <1>0, <2>4, OtherFiles DEF new, old
    <3>2. PICK s : Step(p, s) /\ (Unseen(p, s) \/ s = Idle)
      BY <1>0, <2>4, OtherIsSeen
    <3> QED
      BY <1>0, <3>1, <3>2, UnseenCopied DEF new, old
  <2>5. CASE AddOpen(p)
    <3>1. new = old
      BY <1>0, <2>5, AddFiles DEF new, old
    <3>2. PICK s : Step(p, s) /\ Unseen(p, s)
      BY <1>0, <2>5, AddIsSeen
    <3> QED
      BY <1>0, <3>1, <3>2, UnseenCopied DEF new, old
  <2>6. CASE AddWrite(p)
    <3>1. new = Append(old, proc[p].pkg) /\ proc[p].pkg \in Pkgs
      BY <1>0, <2>6, AddFiles, AddIsSeen DEF new, old
    <3>2. PICK s : Step(p, s) /\ (Unseen(p, s) \/ s = Idle)
      BY <1>0, <2>6, AddIsSeen
    <3>3. proc[p].pkg.version # <<>>
      BY <3>1, PkgStoreAssumption DEF Pkgs
    <3>4. \A n : FoundIn(old, n) # <<>> => FoundIn(new, n) # <<>>
      BY <2>2, <3>1, <3>3, FoundAfterAppend
    <3> QED
      BY <1>0, <3>2, <3>4, UnseenCopied DEF new, old
  <2>7. CASE DropStep(p)
    <3>1. CASE new = old /\ \E s : Step(p, s) /\ Progresses(p, s)
      <4>1. PICK s : Step(p, s) /\ Progresses(p, s)
        BY <3>1
      <4>2. CopyOf(proc[p], content, db, tmp)
        BY DEF Copied
      <4>3. CopyOf(s, content', db', tmp')
        BY <3>1, <4>1, <4>2 DEF CopyOf, Progresses, SameCommand, new, old
      <4> QED
        BY <1>0, <4>1, <4>3, CopiedStep
    <3>2. CASE Step(p, AfterDrop(p))
      <4>1. proc[p].pc \in Dropping
        BY <1>0, <2>7, DropStepDoes
      <4>2. AfterDrop(p).pc \notin {"dropFlush", "dropRename"} /\ AfterDrop(p).op # "upgrade"
        BY <1>0, <4>1, AfterDropOK, IdleTyped
      <4>3. CopyOf(AfterDrop(p), content', db', tmp')
        BY <4>2 DEF CopyOf
      <4> QED
        BY <1>0, <3>2, <4>3, CopiedStep
    <3> QED
      BY <1>0, <2>7, <3>1, <3>2, DropIsSeen DEF new, old
  <2> QED
    BY <2>1, <2>3, <2>4, <2>5, <2>6, <2>7 DEF InstallStep, OtherStep
<1> QED
  BY <1>1, <1>2

-----------------------------------------------------------------------------
(* Each step is one of the map, or leaves it alone                         *)

\* Found and Tasks after a step of p.
LEMMA MapAfter ==
    ASSUME OneAtATime, Typed, NEW p \in Procs, NEW s, Step(p, s)
    PROVE  /\ Found = [n \in Names |-> FoundIn(LinesIn(content, db), n)]
           /\ Found' = [n \in Names |-> FoundIn(LinesIn(content', db'), n)]
           /\ Tasks[p] = [op |-> proc[p].op, pkg |-> proc[p].pkg]
           /\ Tasks' = [Tasks EXCEPT ![p] = [op |-> s.op, pkg |-> s.pkg]]
<1>1. Found = [n \in Names |-> FoundIn(LinesIn(content, db), n)]
  BY InstalledIsFound DEF Found
<1>2. Found' = [n \in Names |-> FoundIn(LinesIn(content', db'), n)]
  <2>1. \A n \in Names : Installed(n)' = FoundIn(LinesIn(content', db'), n)
    BY InstalledIsFoundNext
  <2> QED
    BY <2>1 DEF Found
<1>3. Tasks' = [Tasks EXCEPT ![p] = [op |-> s.op, pkg |-> s.pkg]]
  <2>1. proc' = [proc EXCEPT ![p] = s] /\ proc \in [Procs -> Locals]
    BY DEF Step, Typed, TypeOK
  <2>2. \A q \in Procs : proc'[q] = IF q = p THEN s ELSE proc[q]
    BY <2>1
  <2> QED
    BY <2>2 DEF Tasks
<1> QED
  BY <1>1, <1>2, <1>3 DEF Tasks

LEMMA StutterIsSeen ==
    ASSUME OneAtATime, Typed, NEW p \in Procs, NEW s, Step(p, s), SameCommand(proc[p], s),
           \A n \in Names :
             FoundIn(LinesIn(content', db'), n) = FoundIn(LinesIn(content, db), n)
    PROVE  Found' = Found /\ Tasks' = Tasks
<1>1. Found' = Found
  BY MapAfter, Zenon
<1>2. DOMAIN Tasks = Procs /\ Tasks = [q \in Procs |-> Tasks[q]]
  BY DEF Tasks
<1>3. Tasks' = [Tasks EXCEPT ![p] = Tasks[p]]
  <2> DEFINE t == [op |-> s.op, pkg |-> s.pkg]
  <2>1. Tasks[p] = [op |-> proc[p].op, pkg |-> proc[p].pkg] /\ Tasks' = [Tasks EXCEPT ![p] = t]
    BY MapAfter
  <2>2. t = Tasks[p]
    BY <2>1 DEF SameCommand
  <2> QED
    BY <2>1, <2>2
<1> DEFINE now == Tasks
           next == Tasks'
<1> HIDE DEF now, next
<1>4. next = now
  BY <1>2, <1>3 DEF now, next
<1> QED
  BY <1>1, <1>4 DEF now, next

\* A command ends without an effect: an extraction failed, or it was killed.
LEMMA GivesUp ==
    ASSUME OneAtATime, Typed, NEW p \in Procs, Step(p, Idle),
           LinesIn(content', db') = LinesIn(content, db)
    PROVE  Map!GiveUp(p)
<1>1. Found' = Found
  BY MapAfter, Zenon
<1>2. Tasks' = [Tasks EXCEPT ![p] = [op |-> Idle.op, pkg |-> Idle.pkg]]
  BY MapAfter
<1>3. Idle.op = "none" /\ Idle.pkg = NoPkg
  BY DEF Idle, Command
<1> QED
  BY <1>1, <1>2, <1>3 DEF Map!GiveUp, Map!Idle, Map!Task

LEMMA Begins ==
    ASSUME OneAtATime, Typed, NEW p \in Procs, Start(p)
    PROVE  Map!Begin(p)
<1>1. UNCHANGED <<content, db, tmp>> /\ proc[p] = Idle
  BY StartIsSeen
<1>2. PICK s : /\ Step(p, s) /\ s.pkg \in Pkgs
               /\ LET v == FoundIn(LinesIn(content, db), s.pkg.name) IN
                  \/ s.op = "install"
                  \/ s.op = "upgrade" /\ v # <<>> /\ Older(v, s.pkg.version)
                  \/ s.op = "remove" /\ v = s.pkg.version
  BY StartIsSeen
<1> DEFINE t == s.pkg
           v == FoundIn(LinesIn(content, db), t.name)
<1>3. t \in Map!Pkgs /\ t.name \in Names /\ t.version \in Versions
  BY <1>2 DEF Map!Pkgs, Pkgs
<1>4. Found' = Found /\ Found[t.name] = v
  <2>1. LinesIn(content', db') = LinesIn(content, db)
    BY <1>1 DEF LinesIn
  <2>2. /\ Found = [n \in Names |-> FoundIn(LinesIn(content, db), n)]
        /\ Found' = [n \in Names |-> FoundIn(LinesIn(content', db'), n)]
    BY <1>2, MapAfter
  <2> QED
    BY <1>3, <2>1, <2>2
<1>5. /\ Tasks[p] = [op |-> proc[p].op, pkg |-> proc[p].pkg]
      /\ Tasks' = [Tasks EXCEPT ![p] = [op |-> s.op, pkg |-> s.pkg]]
  BY <1>2, MapAfter
<1>6. Tasks[p] = Map!Idle
  BY <1>1, <1>5 DEF Idle, Command, Map!Idle, Map!Task
<1>7. s.op \in {"install", "upgrade", "remove"}
  BY <1>2
<1>8. Map!MayBegin(s.op, t)
  <2>1. v # <<>> => v \in Versions
    BY LinesTyped, FoundIsVersion
  <2> HIDE DEF v, t
  <2>2. CASE s.op = "upgrade" /\ v # <<>> /\ Older(v, t.version)
    <3>1. <<v, t.version>> \in NewerPairs
      BY <1>3, <2>1, <2>2 DEF NewerPairs
    <3> QED
      BY <1>4, <2>2, <3>1 DEF Map!MayBegin
  <2> QED
    BY <1>2, <1>4, <2>2 DEF Map!MayBegin, v, t
<1>9. Tasks' = [Tasks EXCEPT ![p] = Map!Task(s.op, t)]
  BY <1>5 DEF Map!Task
<1> HIDE DEF t, v
<1> QED
  BY <1>3, <1>4, <1>6, <1>7, <1>8, <1>9 DEF Map!Begin

\* The line that an installation, or the second half of an upgrade, writes.
LEMMA Records ==
    ASSUME OneAtATime, Typed, Database, NEW p \in Procs, AddWrite(p), proc[p].op # "upgrade"
    PROVE  Map!Record(p)
<1> DEFINE t == proc[p].pkg
           old == LinesIn(content, db)
           new == LinesIn(content', db')
<1>1. proc[p].op \in {"install", "record"} /\ t \in Pkgs /\ Step(p, Idle)
  BY AddIsSeen
<1>2. new = Append(old, t) /\ old \in Seq(Pkgs)
  BY AddFiles, LinesTyped
<1>3. t.name \in Names
  BY <1>1 DEF Pkgs
<1>4. /\ Found = [n \in Names |-> FoundIn(old, n)]
      /\ Found' = [n \in Names |-> FoundIn(new, n)]
      /\ Tasks[p] = [op |-> proc[p].op, pkg |-> t]
      /\ Tasks' = [Tasks EXCEPT ![p] = [op |-> Idle.op, pkg |-> Idle.pkg]]
  BY <1>1, MapAfter
<1> HIDE DEF old, new
<1>5. \A n \in Names : FoundIn(new, n) =
        IF n = t.name /\ FoundIn(old, n) = <<>> THEN t.version ELSE FoundIn(old, n)
  BY <1>1, <1>2, FoundAfterAppend
<1>6. Idle.op = "none" /\ Idle.pkg = NoPkg
  BY DEF Idle, Command
<1>7. Tasks[p].op \in {"install", "record"} /\ Tasks[p].pkg = t
  BY <1>1, <1>4
<1> HIDE DEF t
<1>8. Found' = [Found EXCEPT ![t.name] = IF @ = <<>> THEN t.version ELSE @]
  BY <1>3, <1>4, <1>5
<1>9. Tasks' = [Tasks EXCEPT ![p] = Map!Idle]
  BY <1>4, <1>6 DEF Map!Idle, Map!Task
<1> QED
  BY <1>7, <1>8, <1>9 DEF Map!Record

\* The rename: the name is not found any more, the others are as before.
LEMMA Forgets ==
    ASSUME OneAtATime, Typed, NEW p \in Procs, proc[p].pkg \in Pkgs, proc[p].pc \in Dropping,
           LinesIn(content', db') = KeepOthers(LinesIn(content, db), proc[p].pkg),
           Step(p, AfterDrop(p))
    PROVE  Map!Forget(p)
<1> DEFINE t == proc[p].pkg
           s == AfterDrop(p)
           old == LinesIn(content, db)
           new == LinesIn(content', db')
<1>1. t.name \in Names /\ old \in Seq(Pkgs)
  BY LinesTyped DEF Pkgs
<1>2. /\ Found = [n \in Names |-> FoundIn(old, n)]
      /\ Found' = [n \in Names |-> FoundIn(new, n)]
      /\ Tasks[p] = [op |-> proc[p].op, pkg |-> t]
      /\ Tasks' = [Tasks EXCEPT ![p] = [op |-> s.op, pkg |-> s.pkg]]
  BY MapAfter
<1>3. \A n \in Names : FoundIn(new, n) = IF n = t.name THEN <<>> ELSE FoundIn(old, n)
  BY <1>1, FoundAfterDrop
<1> HIDE DEF old, new
<1>4. Found' = [Found EXCEPT ![t.name] = <<>>]
  BY <1>1, <1>2, <1>3
<1>5. /\ proc[p].op \in {"upgrade", "remove"}
      /\ IF proc[p].op = "upgrade" THEN s.op = "record" /\ s.pkg = t ELSE s = Idle
  BY AfterDropOK
<1>6. Idle.op = "none" /\ Idle.pkg = NoPkg
  BY DEF Idle, Command
<1>7. Tasks[p].op = proc[p].op /\ Tasks[p].pkg = t
  BY <1>2
<1> HIDE DEF s, t
<1>8. [op |-> s.op, pkg |-> s.pkg] =
        IF Tasks[p].op = "upgrade" THEN Map!Task("record", Tasks[p].pkg) ELSE Map!Idle
  BY <1>5, <1>6, <1>7 DEF Map!Idle, Map!Task
<1>9. Tasks' = [Tasks EXCEPT ![p] =
        IF @.op = "upgrade" THEN Map!Task("record", @.pkg) ELSE Map!Idle]
  BY <1>2, <1>8
<1> QED
  BY <1>4, <1>5, <1>7, <1>9 DEF Map!Forget

LEMMA StepOfMap ==
    ASSUME OneAtATime, Inv, Copied, Next
    PROVE  Map!Next \/ (Found' = Found /\ Tasks' = Tasks)
<1>0. Typed /\ Database
  BY DEF Inv
<1>1. PICK p \in Procs : Start(p) \/ InstallStep(p) \/ RemoveStep(p) \/ DropStep(p) \/ Crash(p)
  BY DEF Next
<1> DEFINE Seen == Map!Begin(p) \/ Map!Record(p) \/ Map!Forget(p) \/ Map!GiveUp(p)
           Still == Found' = Found /\ Tasks' = Tasks
<1>2. CASE Start(p)
  BY <1>0, <1>2, Begins DEF Map!Next
<1>3. CASE OtherStep(p) /\ ~Start(p)
  <2>1. LinesIn(content', db') = LinesIn(content, db)
    BY <1>0, <1>3, OtherFiles
  <2>2. PICK s : Step(p, s) /\ (Unseen(p, s) \/ s = Idle)
    BY <1>0, <1>3, OtherIsSeen
  <2>3. ASSUME s = Idle PROVE Seen
    BY <1>0, <2>1, <2>2, <2>3, GivesUp
  <2>4. ASSUME Unseen(p, s) PROVE Still
    BY <1>0, <2>1, <2>2, <2>4, StutterIsSeen DEF Unseen
  <2> QED
    BY <2>2, <2>3, <2>4 DEF Map!Next
<1>4. CASE AddOpen(p)
  <2>1. LinesIn(content', db') = LinesIn(content, db)
    BY <1>0, <1>4, AddFiles
  <2>2. PICK s : Step(p, s) /\ Unseen(p, s)
    BY <1>0, <1>4, AddIsSeen
  <2>3. Still
    BY <1>0, <2>1, <2>2, StutterIsSeen DEF Unseen
  <2> QED
    BY <2>3
<1>5. CASE AddWrite(p)
  <2>1. CASE proc[p].op # "upgrade"
    <3>1. Seen
      BY <1>0, <1>5, <2>1, Records
    <3> QED
      BY <3>1 DEF Map!Next
  <2>2. CASE proc[p].op = "upgrade"
    <3> DEFINE t == proc[p].pkg
               old == LinesIn(content, db)
    <3>1. t \in Pkgs /\ LinesIn(content', db') = Append(old, t) /\ old \in Seq(Pkgs)
      BY <1>0, <1>5, AddIsSeen, AddFiles, LinesTyped
    <3>2. FoundIn(old, t.name) # <<>>
      BY <2>2 DEF Copied, CopyOf
    <3> HIDE DEF t, old
    <3>3. \A n \in Names : FoundIn(LinesIn(content', db'), n) = FoundIn(old, n)
      BY <3>1, <3>2, FoundAfterAppend
    <3>4. PICK s : Step(p, s) /\ Unseen(p, s)
      BY <1>0, <1>5, <2>2, AddIsSeen
    <3>5. Still
      BY <1>0, <3>3, <3>4, StutterIsSeen DEF Unseen, old
    <3> QED
      BY <3>5
  <2> QED
    BY <2>1, <2>2
<1>6. CASE DropStep(p)
  <2>1. proc[p].pkg \in Pkgs /\ proc[p].pc \in Dropping
    BY <1>0, <1>6, DropStepDoes
  <2>2. CASE /\ LinesIn(content', db') = LinesIn(content, db)
             /\ \E s : Step(p, s) /\ Progresses(p, s)
    <3>1. PICK s : Step(p, s) /\ Progresses(p, s)
      BY <2>2
    <3>2. Still
      BY <1>0, <2>2, <3>1, StutterIsSeen DEF Progresses
    <3> QED
      BY <3>2
  <2>3. CASE /\ LinesIn(content', db') = KeepOthers(LinesIn(content, db), proc[p].pkg)
             /\ Step(p, AfterDrop(p))
    <3>1. Seen
      BY <1>0, <2>1, <2>3, Forgets
    <3> QED
      BY <3>1 DEF Map!Next
  <2> QED
    BY <1>0, <1>6, <2>2, <2>3, DropIsSeen
<1> QED
  BY <1>1, <1>2, <1>3, <1>4, <1>5, <1>6 DEF InstallStep, OtherStep, Map!Next

-----------------------------------------------------------------------------

\* Commands that run one at a time, and may die at any point, implement the map
\* from names to versions: whatever pkgdb.txt and its copy go through, what
\* pkgdb_find finds changes for the name of the command only, at one point of
\* an installation or removal and at two of an upgrade, and never by a command
\* that is killed (cmd_install, cmd_upgrade, cmd_remove).
THEOREM CommandsAreAtomic == OneAtATime /\ Spec => ImplementsMap
<1>1. ASSUME Init PROVE Map!Init
  <2>1. \A n \in Names : Installed(n) = <<>>
    <3>1. Lines = <<>>
      BY <1>1 DEF Init, Lines
    <3> QED
      BY <3>1 DEF Installed, Mentions
  <2>2. \A p \in Procs : proc[p].op = "none" /\ proc[p].pkg = NoPkg
    BY <1>1 DEF Init, Idle, Command
  <2> QED
    BY <2>1, <2>2 DEF Found, Tasks, Map!Init, Map!Idle, Map!Task
<1>2. OneAtATime /\ Inv /\ Copied /\ [Next]_vars => Copied'
  BY CopiedKept
<1>3. Init => Copied
  BY CopiedAtFirst
<1>4. ASSUME OneAtATime, Inv, Copied, [Next]_vars PROVE [Map!Next]_(Map!vars)
  <2>1. CASE UNCHANGED vars
    <3>1. Found' = Found /\ Tasks' = Tasks
      BY <2>1 DEF vars, diskVars, Found, Tasks, Installed, Mentions, FoundVersion, Lines
    <3> QED
      BY <3>1 DEF Map!vars
  <2>2. CASE Next
    BY <1>4, <2>2, StepOfMap DEF Map!vars
  <2> QED
    BY <1>4, <2>1, <2>2
<1>5. OneAtATime => []OneAtATime
  <2>1. OneAtATime => OneAtATime'
    BY DEF OneAtATime
  <2> QED
    BY <2>1, PTL
<1>6. OneAtATime /\ Spec => []Copied
  BY <1>2, <1>3, <1>5, SafeInv, PTL DEF Spec
<1>7. OneAtATime /\ Inv /\ Copied /\ [Next]_vars => [Map!Next]_(Map!vars)
  BY <1>4
<1>8. Init => Map!Init
  BY <1>1
<1> QED
  BY <1>5, <1>6, <1>7, <1>8, SafeInv, PTL DEF Spec, ImplementsMap, Map!Spec

=============================================================================
