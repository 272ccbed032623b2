------------------------- MODULE ObjectStoreProofs -------------------------
(***************************************************************************)
(* Proofs about ObjectStore, for any repositories, alternates files, packs *)
(* and objects, and any number of goroutines.                              *)
(*                                                                         *)
(* The opening is a recursion over a graph that may have cycles, and its   *)
(* result a tree in which a repository may occur several times.  The       *)
(* stores are numbered in the order in which their opening begins, so an   *)
(* alternate has a greater number than the store that borrows from it;     *)
(* most arguments about the tree are arguments about these numbers.        *)
(***************************************************************************)
EXTENDS ObjectStore, WellFoundedInduction, FiniteSetTheorems, SequenceTheorems, TLAPS

(***************************************************************************)
(* Induction.  The library's principles take a predicate as a parameter;   *)
(* what is needed of them can be said of a set of numbers.                 *)
(***************************************************************************)
\* A set of numbers that is not empty has a least one.
LEMMA LeastNumber ==
    ASSUME NEW T, T \subseteq Nat, T # {}
    PROVE  \E m \in T : \A k \in T : m <= k
<1>r. PICK R : R = {ss \in Nat \X Nat : ss[1] < ss[2]}
  OBVIOUS
<1>1. IsWellFoundedOn({ss \in Nat \X Nat : ss[1] < ss[2]}, Nat)
  BY NatLessThanWellFounded, Zenon DEF OpToRel
<1>2. \E x \in T : \A y \in T : ~ (<<y, x>> \in R)
  BY <1>r, <1>1, WFMin
<1>3. \A x \in T, y \in T : <<y, x>> \in R <=> y < x
  BY <1>r
<1>4. PICK x \in T : \A y \in T : ~ (<<y, x>> \in R)
  BY <1>2
<1>5. ASSUME NEW y \in T PROVE x <= y
  <2>1. <<y, x>> \notin R
    BY <1>4
  <2>2. ~(y < x)
    BY <1>3, <2>1
  <2>3. x \in Nat /\ y \in Nat
    OBVIOUS
  <2> QED
    BY <2>2, <2>3
<1> QED
  BY <1>5

\* A set that has 0, and with every number the next, has them all.
LEMMA SetInduction ==
    ASSUME NEW S, 0 \in S, \A n \in Nat : n \in S => n + 1 \in S
    PROVE  Nat \subseteq S
<1> SUFFICES ASSUME ~(Nat \subseteq S) PROVE FALSE
  OBVIOUS
<1>1. PICK m \in Nat \ S : \A k \in Nat \ S : m <= k
  <2>1. Nat \ S \subseteq Nat /\ Nat \ S # {}
    OBVIOUS
  <2> QED
    BY <2>1, LeastNumber
<1>2. m # 0
  OBVIOUS
<1>3. m - 1 \in Nat
  BY <1>2
<1>4. m - 1 \in S
  <2>1. ~(m <= m - 1)
    BY <1>3
  <2> QED
    BY <1>1, <1>3, <2>1
<1>5. (m - 1) + 1 \in S /\ (m - 1) + 1 = m
  BY <1>3, <1>4
<1> QED
  BY <1>5

\* A finite set of numbers that is not empty has a greatest one.
LEMMA GreatestNumber ==
    ASSUME NEW D, D \subseteq Nat, IsFiniteSet(D), NEW T, T \subseteq D, T # {}
    PROVE  \E m \in T : \A k \in T : k <= m
<1>1. \E n \in Nat : \A k \in D : k <= n
  <2> DEFINE S == {c \in Nat : \A E : E \subseteq Nat /\ IsFiniteSet(E) /\ Cardinality(E) = c
                                      => \E n \in Nat : \A k \in E : k <= n}
  <2>1. 0 \in S
    <3> SUFFICES ASSUME NEW E, E \subseteq Nat, IsFiniteSet(E), Cardinality(E) = 0
                 PROVE  \E n \in Nat : \A k \in E : k <= n
      OBVIOUS
    <3>1. E = {}
      BY FS_EmptySet
    <3> QED
      BY <3>1
  <2>2. ASSUME NEW c \in Nat, c \in S PROVE c + 1 \in S
    <3> SUFFICES ASSUME NEW E, E \subseteq Nat, IsFiniteSet(E), Cardinality(E) = c + 1
                 PROVE  \E n \in Nat : \A k \in E : k <= n
      OBVIOUS
    <3>1. PICK x \in E : TRUE
      <4>1. E # {}
        BY FS_EmptySet
      <4> QED
        BY <4>1
    <3>2. IsFiniteSet(E \ {x}) /\ Cardinality(E \ {x}) = c /\ E \ {x} \subseteq Nat
      <4>1. IsFiniteSet(E \ {x}) /\ Cardinality(E \ {x}) = Cardinality(E) - 1
        BY FS_RemoveElement, Zenon
      <4> QED
        BY <4>1
    <3>3. PICK n \in Nat : \A k \in E \ {x} : k <= n
      BY <2>2, <3>2
    <3>4. CASE x <= n
      BY <3>3, <3>4
    <3>5. CASE ~(x <= n)
      <4>1. x \in Nat /\ n <= x
        BY <3>5
      <4>2. \A k \in E : k <= x
        BY <3>3, <4>1
      <4> QED
        BY <4>1, <4>2
    <3> QED
      BY <3>4, <3>5
  <2>3. Nat \subseteq S
    <3> HIDE DEF S
    <3> QED
      BY <2>1, <2>2, SetInduction
  <2>4. Cardinality(D) \in Nat
    BY FS_CardinalityType
  <2> QED
    BY <2>3, <2>4
<1>2. PICK n \in Nat : \A k \in D : k <= n
  BY <1>1
<1>3. PICK U : U = {i \in 0..n : n - i \in T}
  OBVIOUS
<1>4. U \subseteq Nat /\ U # {}
  <2>1. PICK k \in T : k \in Nat /\ k <= n
    BY <1>2
  <2>2. n - k \in 0..n /\ n - (n - k) = k
    BY <2>1
  <2>3. n - k \in U
    BY <1>3, <2>2
  <2>4. U \subseteq Nat
    BY <1>3
  <2> QED
    BY <2>3, <2>4
<1>5. PICK i \in U : \A j \in U : i <= j
  BY <1>4, LeastNumber
<1>6. i \in 0..n /\ n - i \in T
  BY <1>3
<1>7. ASSUME NEW k \in T PROVE k <= n - i
  <2>1. k \in Nat /\ k <= n
    BY <1>2
  <2>2. n - k \in 0..n /\ n - (n - k) = k
    BY <2>1
  <2>3. n - k \in U
    BY <1>3, <2>2
  <2>4. i <= n - k
    BY <1>5, <2>3
  <2> QED
    BY <1>6, <2>1, <2>4
<1> QED
  BY <1>6, <1>7

(***************************************************************************)
(* Closure is the least set that contains roots and is closed under next.  *)
(***************************************************************************)
\* The recursive function that Closure defines.
IsGrowth(f, roots, next, N) ==
    f = [n \in 0..N |-> IF n = 0 THEN roots
                        ELSE f[n - 1] \cup UNION {next[i] : i \in f[n - 1]}]

\* It exists.
LEMMA GrowthExists ==
    ASSUME NEW roots, NEW next, NEW N \in Nat
    PROVE  \E f : IsGrowth(f, roots, next, N)
<1> DEFINE St(f, n) == IF n = 0 THEN roots ELSE f[n - 1] \cup UNION {next[i] : i \in f[n - 1]}
<1> DEFINE S == {l \in Nat : \E f : f = [i \in 0..l |-> St(f, i)]}
<1>1. 0 \in S
  <2>1. PICK f : f = [i \in 0..0 |-> roots]
    OBVIOUS
  <2>2. f = [i \in 0..0 |-> St(f, i)]
    BY <2>1
  <2> QED
    BY <2>2
<1>2. ASSUME NEW n \in Nat, n \in S PROVE n + 1 \in S
  <2>1. PICK f : f = [i \in 0..n |-> St(f, i)]
    BY <1>2
  <2>2. PICK g : g = [i \in 0..(n + 1) |-> IF i = n + 1 THEN St(f, i) ELSE f[i]]
    OBVIOUS
  <2>3. ASSUME NEW i \in 0..(n + 1) PROVE g[i] = St(g, i)
    <3>1. CASE i = n + 1
      <4>1. i # 0 /\ i - 1 = n /\ n # n + 1 /\ n \in 0..(n + 1)
        BY <3>1
      <4>2. g[n] = f[n] /\ g[i] = St(f, i)
        BY <2>2, <3>1, <4>1
      <4> QED
        BY <4>1, <4>2
    <3>2. CASE i # n + 1
      <4>1. i \in 0..n
        BY <3>2
      <4>2. g[i] = f[i]
        BY <2>2, <3>2
      <4>3. f[i] = St(f, i)
        BY <2>1, <4>1
      <4>4. CASE i = 0
        BY <4>2, <4>3, <4>4
      <4>5. CASE i # 0
        <5>1. i - 1 \in 0..(n + 1) /\ i - 1 # n + 1
          BY <4>1, <4>5
        <5>2. g[i - 1] = f[i - 1]
          BY <2>2, <5>1
        <5> QED
          BY <4>2, <4>3, <4>5, <5>2
      <4> QED
        BY <4>4, <4>5
    <3> QED
      BY <3>1, <3>2
  <2>4. g = [i \in 0..(n + 1) |-> St(g, i)]
    <3> HIDE DEF St
    <3> QED
      BY <2>2, <2>3
  <2> QED
    BY <2>4
<1>3. Nat \subseteq S
  <2> HIDE DEF S
  <2> QED
    BY <1>1, <1>2, SetInduction
<1> QED
  BY <1>3 DEF IsGrowth

\* So Closure is its last value.
LEMMA ClosureDef ==
    ASSUME NEW roots, NEW next, Cardinality(DOMAIN next) \in Nat
    PROVE  \E f : /\ IsGrowth(f, roots, next, Cardinality(DOMAIN next))
                  /\ Closure(roots, next) = f[Cardinality(DOMAIN next)]
<1> DEFINE grown[n \in 0..Cardinality(DOMAIN next)] ==
            IF n = 0 THEN roots ELSE grown[n - 1] \cup UNION {next[i] : i \in grown[n - 1]}
<1>0. \E f : IsGrowth(f, roots, next, Cardinality(DOMAIN next))
  BY GrowthExists
<1>1. \E f : f = [n \in 0..Cardinality(DOMAIN next) |->
            IF n = 0 THEN roots ELSE f[n - 1] \cup UNION {next[i] : i \in f[n - 1]}]
  BY <1>0, Zenon DEF IsGrowth
<1>2. grown = [n \in 0..Cardinality(DOMAIN next) |->
            IF n = 0 THEN roots ELSE grown[n - 1] \cup UNION {next[i] : i \in grown[n - 1]}]
  BY <1>1, Zenon DEF grown
<1>3. Closure(roots, next) = grown[Cardinality(DOMAIN next)]
  BY Zenon DEF Closure, grown
<1> QED
  BY <1>2, <1>3, Zenon DEF IsGrowth

\* D has finitely many members, and from them next leads to members of D.
Graph(D, next) == IsFiniteSet(D) /\ next \in [D -> SUBSET D]

\* X is closed under next.
ClosedUnder(X, next) == \A i \in X : next[i] \subseteq X

\* The value for n contains the one for n - 1 and lies in every closed set
\* around the roots.
LEMMA GrowthStep ==
    ASSUME NEW f, NEW roots, NEW next, NEW N \in Nat, IsGrowth(f, roots, next, N)
    PROVE  /\ f[0] = roots
           /\ \A n \in 0..N : n + 1 \in 0..N =>
                f[n + 1] = f[n] \cup UNION {next[i] : i \in f[n]}
<1>1. f[0] = roots
  BY DEF IsGrowth
<1>2. ASSUME NEW n \in 0..N, n + 1 \in 0..N PROVE f[n + 1] = f[n] \cup UNION {next[i] : i \in f[n]}
  <2>1. n + 1 # 0 /\ (n + 1) - 1 = n
    OBVIOUS
  <2> QED
    BY <1>2, <2>1 DEF IsGrowth
<1> QED
  BY <1>1, <1>2

\* No value leaves a closed set around the roots.
LEMMA GrowthInside ==
    ASSUME NEW f, NEW roots, NEW next, NEW N \in Nat, IsGrowth(f, roots, next, N),
           NEW X, roots \subseteq X, ClosedUnder(X, next)
    PROVE  \A n \in 0..N : f[n] \subseteq X
<1> DEFINE S == {n \in Nat : n \in 0..N => f[n] \subseteq X}
<1>1. 0 \in S
  BY GrowthStep
<1>2. ASSUME NEW n \in Nat, n \in S PROVE n + 1 \in S
  <2> SUFFICES ASSUME n + 1 \in 0..N PROVE f[n + 1] \subseteq X
    OBVIOUS
  <2>1. n \in 0..N
    OBVIOUS
  <2>2. f[n] \subseteq X
    BY <1>2, <2>1
  <2>3. f[n + 1] = f[n] \cup UNION {next[i] : i \in f[n]}
    BY <2>1, GrowthStep
  <2>4. \A i \in f[n] : next[i] \subseteq X
    BY <2>2 DEF ClosedUnder
  <2> QED
    BY <2>2, <2>3, <2>4
<1>3. Nat \subseteq S
  <2> HIDE DEF S
  <2> QED
    BY <1>1, <1>2, SetInduction
<1> QED
  BY <1>3

\* A value is closed or has as many members as its number says.
LEMMA GrowthGrows ==
    ASSUME NEW f, NEW roots, NEW next, NEW D, NEW N \in Nat, IsGrowth(f, roots, next, N),
           Graph(D, next), roots \subseteq D
    PROVE  \A n \in 0..N : ClosedUnder(f[n], next) \/ Cardinality(f[n]) >= n
<1> DEFINE S == {n \in Nat : n \in 0..N => ClosedUnder(f[n], next) \/ Cardinality(f[n]) >= n}
<1>0. \A n \in 0..N : f[n] \subseteq D
  <2>1. ClosedUnder(D, next)
    BY DEF ClosedUnder, Graph
  <2> QED
    BY <2>1, GrowthInside
<1>c. \A n \in 0..N : IsFiniteSet(f[n]) /\ Cardinality(f[n]) \in Nat
  BY <1>0, FS_Subset, FS_CardinalityType DEF Graph
<1>1. 0 \in S
  <2>1. 0 \in 0..N
    OBVIOUS
  <2>2. Cardinality(f[0]) >= 0
    BY <1>c, <2>1
  <2> QED
    BY <2>2
<1>2. ASSUME NEW n \in Nat, n \in S PROVE n + 1 \in S
  <2> SUFFICES ASSUME n + 1 \in 0..N
               PROVE ClosedUnder(f[n + 1], next) \/ Cardinality(f[n + 1]) >= n + 1
    OBVIOUS
  <2>1. n \in 0..N
    OBVIOUS
  <2>2. f[n + 1] = f[n] \cup UNION {next[i] : i \in f[n]}
    BY <2>1, GrowthStep
  <2>3. CASE ClosedUnder(f[n], next)
    <3>1. f[n + 1] = f[n]
      BY <2>2, <2>3 DEF ClosedUnder
    <3> QED
      BY <2>3, <3>1
  <2>4. CASE ~ClosedUnder(f[n], next)
    <3>1. Cardinality(f[n]) >= n
      BY <1>2, <2>1, <2>4
    <3>2. PICK i \in f[n] : ~(next[i] \subseteq f[n])
      BY <2>4 DEF ClosedUnder
    <3>3. f[n] # f[n + 1] /\ f[n] \in SUBSET f[n + 1]
      BY <2>2, <3>2
    <3>4. Cardinality(f[n]) <= Cardinality(f[n + 1]) /\ Cardinality(f[n]) # Cardinality(f[n + 1])
      BY <1>c, <3>3, FS_Subset
    <3>5. Cardinality(f[n]) \in Nat /\ Cardinality(f[n + 1]) \in Nat
      BY <1>c, <2>1
    <3> QED
      BY <3>1, <3>4, <3>5
  <2> QED
    BY <2>3, <2>4
<1>3. Nat \subseteq S
  <2> HIDE DEF S
  <2> QED
    BY <1>1, <1>2, SetInduction
<1> QED
  BY <1>3

\* Closure contains the roots, stays in the graph and is closed; it is the
\* least such set.
LEMMA ClosureFacts ==
    ASSUME NEW roots, NEW next, NEW D, Graph(D, next), roots \subseteq D
    PROVE  /\ roots \subseteq Closure(roots, next)
           /\ Closure(roots, next) \subseteq D
           /\ ClosedUnder(Closure(roots, next), next)
           /\ \A X : roots \subseteq X /\ ClosedUnder(X, next) => Closure(roots, next) \subseteq X
<1>1. PICK N \in Nat : N = Cardinality(D)
  BY FS_CardinalityType DEF Graph
<1>2. DOMAIN next = D
  BY DEF Graph
<1>3. PICK f : IsGrowth(f, roots, next, N) /\ Closure(roots, next) = f[N]
  BY <1>1, <1>2, ClosureDef
<1>4. N \in 0..N /\ 0 \in 0..N
  OBVIOUS
<1>5. \A X : roots \subseteq X /\ ClosedUnder(X, next) => f[N] \subseteq X
  BY <1>3, <1>4, GrowthInside
<1>6. ClosedUnder(D, next)
  BY DEF ClosedUnder, Graph
<1>7. f[N] \subseteq D
  BY <1>5, <1>6
<1>8. ClosedUnder(f[N], next)
  <2>1. ClosedUnder(f[N], next) \/ Cardinality(f[N]) >= N
    BY <1>3, <1>4, GrowthGrows
  <2>2. CASE Cardinality(f[N]) >= N
    <3>1. Cardinality(f[N]) <= N /\ Cardinality(f[N]) \in Nat
      BY <1>1, <1>7, FS_Subset, FS_CardinalityType DEF Graph
    <3>2. Cardinality(f[N]) = N
      BY <2>2, <3>1
    <3>3. f[N] = D
      BY <1>1, <1>7, <3>2, FS_Subset DEF Graph
    <3> QED
      BY <1>6, <3>3
  <2> QED
    BY <2>1, <2>2
<1>9. roots \subseteq f[N]
  <2> DEFINE S == {n \in Nat : n \in 0..N => roots \subseteq f[n]}
  <2>1. 0 \in S
    BY <1>3, GrowthStep
  <2>2. ASSUME NEW n \in Nat, n \in S PROVE n + 1 \in S
    <3> SUFFICES ASSUME n + 1 \in 0..N PROVE roots \subseteq f[n + 1]
      OBVIOUS
    <3>1. n \in 0..N
      OBVIOUS
    <3>2. f[n + 1] = f[n] \cup UNION {next[i] : i \in f[n]}
      BY <1>3, <3>1, GrowthStep
    <3> QED
      BY <2>2, <3>1, <3>2
  <2>3. Nat \subseteq S
    <3> HIDE DEF S
    <3> QED
      BY <2>1, <2>2, SetInduction
  <2> QED
    BY <1>4, <2>3
<1> QED
  BY <1>3, <1>5, <1>7, <1>8, <1>9

(***************************************************************************)
(* The invariant of the opening.                                           *)
(***************************************************************************)
Frames ==
    [num : Nat, path : Paths, verify : BOOLEAN, pc : {"config", "refs", "packs", "alternates"},
     repo : Repos \cup {None}, packs : SUBSET Nat, entries : Seq(Paths), alternates : Seq(Nat)]

StoreRecs == [repo : Repos, verify : BOOLEAN, alternates : Seq(Nat)]

OpenTypes ==
    /\ disk \in Disks
    /\ opc \in {"opening", "open", "failed", "closed"}
    /\ stack \in Seq(Frames)
    /\ chain \subseteq Repos
    /\ DOMAIN stores \subseteq Nat /\ IsFiniteSet(DOMAIN stores)
    /\ stores \in [DOMAIN stores -> StoreRecs]
    /\ unwinding \in BOOLEAN
    /\ faults \in Nat

\* How far Open has come.
Phases ==
    /\ opc = "opening" <=> stack # <<>>
    /\ opc = "failed" => unwinding
    /\ opc \in {"open", "closed"} => ~unwinding
    /\ faults > 0 => unwinding

\* Every call but the innermost is opening its alternates; WithoutCRCCheck is
\* the only way not to verify checksums.
FrameOK(k) ==
    /\ k < Len(stack) => stack[k].pc = "alternates"
    /\ stack[k].pc = "config" => stack[k].repo = None
    /\ stack[k].pc # "config" => stack[k].repo \in Repos /\ stack[k].repo = Common[stack[k].path]
    /\ stack[k].pc = "packs" => stack[k].packs \subseteq DOMAIN disk.packs[stack[k].repo]
    /\ VerifyCRC => stack[k].verify

StackOK == \A k \in 1..Len(stack) : FrameOK(k)

\* The alternates of a store, and the stores below some stores.
Kids(st, i) == ToSet(st[i].alternates)
TreeOf(st, R) == Closure(R, [i \in DOMAIN st |-> Kids(st, i)])

\* Every opening that has begun has a number of its own, in the order in
\* which they began.
Numbering ==
    /\ \A j, k \in 1..Len(stack) : j < k => stack[j].num < stack[k].num
    /\ stack # <<>> => stack[1].num = 1
    /\ \A k \in 1..Len(stack) : stack[k].num \in (1..NumStores) \ DOMAIN stores
    /\ DOMAIN stores \subseteq 1..NumStores

\* Alternates are open stores with greater numbers.
Adopted ==
    /\ \A k \in 1..Len(stack) : \A j \in ToSet(stack[k].alternates) :
          j \in DOMAIN stores /\ stack[k].num < j
    /\ \A i \in DOMAIN stores : \A j \in Kids(stores, i) : j \in DOMAIN stores /\ i < j

\* Every store but the first is an alternate of some other.
NoOrphan ==
    \A j \in DOMAIN stores :
        \/ opc \in {"open", "closed"} /\ j = 1
        \/ \E k \in 1..Len(stack) : j \in ToSet(stack[k].alternates)
        \/ \E i \in DOMAIN stores : j \in Kids(stores, i)

RootOpened == opc \in {"open", "closed"} => 1 \in DOMAIN stores /\ stores[1].repo = Root

\* The handles of store n over repository r, but for the packs in left.
HandlesOf(d, n, r, left) ==
    {<<n, "refs", 0>>} \cup (IF d.midx[r] = {} THEN {} ELSE {<<n, "midx", 0>>})
        \cup {<<n, k, p>> : k \in {"idx", "pack"}, p \in (DOMAIN d.packs[r]) \ left}

\* Those an openWithSeen call has opened.
FrameHeld(d, f) ==
    IF f.pc \in {"config", "refs"} THEN {}
    ELSE HandlesOf(d, f.num, f.repo, IF f.pc = "packs" THEN f.packs ELSE {})

\* Nothing is open that a store or a call in progress has not opened.
HeldInv ==
    opc \in {"opening", "open"} /\ ~unwinding =>
        \A h : h \in held <=>
            \/ \E i \in DOMAIN stores : h \in HandlesOf(disk, i, stores[i].repo, {})
            \/ \E k \in 1..Len(stack) : h \in FrameHeld(disk, stack[k])

\* The call at k closes the handle h when it fails.
ClosesAt(k, h) ==
    h[1] = stack[k].num \/ h[1] \in TreeOf(stores, ToSet(stack[k].alternates))

\* Whatever is open is closed by the error return of a call in progress.
Owned ==
    /\ opc = "opening" => \A h \in held : \E k \in 1..Len(stack) : ClosesAt(k, h)
    /\ opc \in {"failed", "closed"} => held = {}

\* The paths an alternates file lists, the repositories they lead to, and
\* those that can be reached from r in one step or more.
ListedIn(d, r) == ToSet(d.alternates[r])
BorrowedIn(d, r) == {Common[p] : p \in ListedIn(d, r)} \ {None}
ReachIn(d, rs) == Closure(rs, [r \in Repos |-> BorrowedIn(d, r)])
After(d, r) == ReachIn(d, BorrowedIn(d, r))

\* Every pack the multi-pack-index covers is there.
CoveredIn(d, r) == d.midx[r] \subseteq DOMAIN d.packs[r]

\* The calls in progress are a path in the graph of the alternates.
Descent ==
    /\ \A k \in 1..Len(stack) :
          IF k = 1 THEN stack[k].path = Root ELSE stack[k].path \in ListedIn(disk, stack[k - 1].repo)
    /\ \A k \in 1..Len(stack) : stack[k].repo # None => stack[k].repo \in ReachIn(disk, {Root})
    /\ \A j, k \in 1..Len(stack) : j < k /\ stack[k].repo # None => stack[k].repo \in After(disk, stack[j].repo)

\* The repository p leads to has been opened as one of the stores in S.
Opened(st, S, p) == \E j \in S : st[j].repo = Common[p]

\* Only repositories whose alternates are being opened are marked.
ChainInv ==
    \A r \in chain : \E k \in 1..Len(stack) : stack[k].pc = "alternates" /\ stack[k].repo = r

\* An alternate is still to be opened, or is being opened, or is open.
AlternatesRead(k) ==
    stack[k].pc = "alternates" =>
        /\ CoveredIn(disk, stack[k].repo)
        /\ ToSet(stack[k].entries) \subseteq ListedIn(disk, stack[k].repo)
        /\ \A p \in ListedIn(disk, stack[k].repo) :
              \/ p \in ToSet(stack[k].entries)
              \/ k < Len(stack) /\ p = stack[k + 1].path
              \/ Opened(stores, ToSet(stack[k].alternates), p)

StoreComplete(i) ==
    /\ stores[i].repo \in ReachIn(disk, {Root})
    /\ CoveredIn(disk, stores[i].repo)
    /\ VerifyCRC => stores[i].verify
    /\ \A p \in ListedIn(disk, stores[i].repo) : Opened(stores, Kids(stores, i), p)

StoresComplete == \A i \in DOMAIN stores : StoreComplete(i)

\* An error has a reason.
Excused == unwinding => ~Sound \/ Cyclic \/ faults > 0

\* What holds until the first error.
Progress ==
    ~unwinding =>
        /\ Numbering /\ NoOrphan /\ ChainInv
        /\ \A k \in 1..Len(stack) : AlternatesRead(k)

OpenInv ==
    /\ OpenTypes /\ Phases /\ StackOK
    /\ Adopted /\ RootOpened /\ Descent /\ StoresComplete
    /\ Progress /\ Excused /\ HeldInv /\ Owned

(***************************************************************************)
(* Trees of stores, and the repositories reachable over alternates.        *)
(***************************************************************************)
\* The alternates of a store are stores.
Family(st) == IsFiniteSet(DOMAIN st) /\ \A i \in DOMAIN st : Kids(st, i) \subseteq DOMAIN st

\* TreeOf(st, R) is the least set of stores with R in it and every alternate
\* of a member.
LEMMA TreeFacts ==
    ASSUME NEW st, Family(st), NEW R, R \subseteq DOMAIN st
    PROVE  /\ R \subseteq TreeOf(st, R)
           /\ TreeOf(st, R) \subseteq DOMAIN st
           /\ \A i \in TreeOf(st, R) : Kids(st, i) \subseteq TreeOf(st, R)
           /\ \A X : R \subseteq X /\ X \subseteq DOMAIN st /\ (\A i \in X : Kids(st, i) \subseteq X)
                        => TreeOf(st, R) \subseteq X
<1>1. PICK next : next = [i \in DOMAIN st |-> Kids(st, i)]
  OBVIOUS
<1>2. TreeOf(st, R) = Closure(R, next)
  BY <1>1 DEF TreeOf
<1>3. \A i \in DOMAIN st : next[i] = Kids(st, i)
  BY <1>1
<1>4. Graph(DOMAIN st, next)
  BY <1>1, <1>3 DEF Graph, Family
<1>5. /\ R \subseteq Closure(R, next)
      /\ Closure(R, next) \subseteq DOMAIN st
      /\ ClosedUnder(Closure(R, next), next)
      /\ \A X : R \subseteq X /\ ClosedUnder(X, next) => Closure(R, next) \subseteq X
  BY <1>4, ClosureFacts
<1>6. \A i \in TreeOf(st, R) : Kids(st, i) \subseteq TreeOf(st, R)
  BY <1>2, <1>3, <1>5 DEF ClosedUnder
<1>7. ASSUME NEW X, R \subseteq X, X \subseteq DOMAIN st, \A i \in X : Kids(st, i) \subseteq X
      PROVE  TreeOf(st, R) \subseteq X
  <2>1. ClosedUnder(X, next)
    BY <1>3, <1>7 DEF ClosedUnder
  <2> QED
    BY <1>2, <1>5, <1>7, <2>1
<1> QED
  BY <1>2, <1>5, <1>6, <1>7

\* TreeOf is what Tree computes.
LEMMA TreeIs ==
    ASSUME NEW R
    PROVE  Tree(R) = TreeOf(stores, R)
  BY Zenon DEF Tree, TreeOf, Kids

\* The paths of an alternates file.
LEMMA ListedTypes ==
    ASSUME NEW d \in Disks, NEW r \in Repos
    PROVE  /\ d.alternates[r] \in Seq(Paths)
           /\ ListedIn(d, r) \subseteq Paths
           /\ BorrowedIn(d, r) \subseteq Repos
<1>1. d.alternates[r] \in Seq(Paths)
  BY DisksAssumption
<1>2. ListedIn(d, r) \subseteq Paths
  BY <1>1 DEF ListedIn, ToSet
<1>5. BorrowedIn(d, r) \subseteq Repos
  BY <1>2, CommonAssumption DEF BorrowedIn
<1> QED
  BY <1>1, <1>2, <1>5

\* ReachIn(d, rs) is the least set with rs in it and every repository one of
\* its members borrows from.
LEMMA ReachFacts ==
    ASSUME NEW d \in Disks, NEW rs, rs \subseteq Repos
    PROVE  /\ rs \subseteq ReachIn(d, rs)
           /\ ReachIn(d, rs) \subseteq Repos
           /\ \A r \in ReachIn(d, rs) : BorrowedIn(d, r) \subseteq ReachIn(d, rs)
           /\ \A X : rs \subseteq X /\ X \subseteq Repos /\ (\A r \in X : BorrowedIn(d, r) \subseteq X)
                     => ReachIn(d, rs) \subseteq X
<1>1. PICK next : next = [r \in Repos |-> BorrowedIn(d, r)]
  OBVIOUS
<1>2. ReachIn(d, rs) = Closure(rs, next)
  BY <1>1 DEF ReachIn
<1>3. \A r \in Repos : next[r] = BorrowedIn(d, r)
  BY <1>1
<1>4. Graph(Repos, next)
  BY <1>1, <1>3, ListedTypes, ReposAssumption DEF Graph
<1>5. /\ rs \subseteq Closure(rs, next)
      /\ Closure(rs, next) \subseteq Repos
      /\ ClosedUnder(Closure(rs, next), next)
      /\ \A X : rs \subseteq X /\ ClosedUnder(X, next) => Closure(rs, next) \subseteq X
  BY <1>4, ClosureFacts
<1>6. \A r \in ReachIn(d, rs) : BorrowedIn(d, r) \subseteq ReachIn(d, rs)
  BY <1>2, <1>3, <1>5 DEF ClosedUnder
<1>7. ASSUME NEW X, rs \subseteq X, X \subseteq Repos, \A r \in X : BorrowedIn(d, r) \subseteq X
      PROVE  ReachIn(d, rs) \subseteq X
  <2>1. ClosedUnder(X, next)
    BY <1>3, <1>7 DEF ClosedUnder
  <2> QED
    BY <1>2, <1>5, <1>7, <2>1
<1> QED
  BY <1>2, <1>5, <1>6, <1>7

\* A path that a repository lists leads to one it borrows from, or nowhere.
LEMMA BorrowedPath ==
    ASSUME NEW d, NEW r, NEW p \in ListedIn(d, r), Common[p] # None
    PROVE  Common[p] \in BorrowedIn(d, r)
  BY DEF BorrowedIn

\* ReachIn is what ReachableFrom computes.
LEMMA ReachIs ==
    /\ \A rs : ReachableFrom(rs) = ReachIn(disk, rs)
    /\ Reachable = ReachIn(disk, {Root})
    /\ \A r : ReachableFrom(Borrowed({r}) \ {None}) = After(disk, r)
<1>1. ASSUME NEW r PROVE Borrowed({r}) \ {None} = BorrowedIn(disk, r)
  <2>1. UNION {ToSet(disk.alternates[q]) : q \in {r}} = ListedIn(disk, r)
    BY DEF ListedIn
  <2> QED
    BY <2>1 DEF Borrowed, BorrowedIn
<1>2. ASSUME NEW rs PROVE ReachableFrom(rs) = ReachIn(disk, rs)
  <2>1. [r \in Repos |-> Borrowed({r}) \ {None}] = [r \in Repos |-> BorrowedIn(disk, r)]
    BY <1>1
  <2> QED
    BY <2>1, Zenon DEF ReachableFrom, ReachIn
<1> QED
  BY <1>1, <1>2, Zenon DEF Reachable, After

(***************************************************************************)
(* What the numbers say.                                                   *)
(***************************************************************************)
\* The stores are a family.
LEMMA StoresFamily ==
    ASSUME OpenTypes, Adopted
    PROVE  Family(stores)
  BY DEF OpenTypes, Adopted, Family

\* A set of stores has them all if each has it for a member, or is an
\* alternate of one that passes membership on.
LEMMA NoGap ==
    ASSUME OpenTypes, Adopted, NEW X,
           \A j \in DOMAIN stores :
              \/ j \in X
              \/ \E i \in DOMAIN stores : j \in Kids(stores, i) /\ (i \in X => j \in X)
    PROVE  DOMAIN stores \subseteq X
<1> SUFFICES ASSUME DOMAIN stores \ X # {} PROVE FALSE
  OBVIOUS
<1>1. DOMAIN stores \ X \subseteq Nat
  BY DEF OpenTypes
<1>2. PICK m \in DOMAIN stores \ X : \A k \in DOMAIN stores \ X : m <= k
  BY <1>1, LeastNumber
<1>3. PICK i \in DOMAIN stores : m \in Kids(stores, i) /\ (i \in X => m \in X)
  OBVIOUS
<1>4. i < m /\ i \in Nat /\ m \in Nat
  BY <1>3 DEF Adopted, OpenTypes
<1>5. i \in DOMAIN stores \ X
  BY <1>3
<1>6. m <= i
  BY <1>2, <1>5
<1> QED
  BY <1>4, <1>6

\* Every store is below a call in progress.
LEMMA StoresBelowCalls ==
    ASSUME OpenTypes, Adopted, NoOrphan, opc = "opening", NEW j \in DOMAIN stores
    PROVE  \E k \in 1..Len(stack) : j \in TreeOf(stores, ToSet(stack[k].alternates))
<1>1. PICK X : X = {i \in DOMAIN stores :
                      \E k \in 1..Len(stack) : i \in TreeOf(stores, ToSet(stack[k].alternates))}
  OBVIOUS
<1>2. ASSUME NEW k \in 1..Len(stack)
      PROVE  /\ ToSet(stack[k].alternates) \subseteq TreeOf(stores, ToSet(stack[k].alternates))
             /\ \A i \in TreeOf(stores, ToSet(stack[k].alternates)) :
                   Kids(stores, i) \subseteq TreeOf(stores, ToSet(stack[k].alternates))
  <2>1. ToSet(stack[k].alternates) \subseteq DOMAIN stores
    BY DEF Adopted
  <2> QED
    BY <2>1, StoresFamily, TreeFacts
<1>3. ASSUME NEW i \in DOMAIN stores
      PROVE  i \in X \/ \E q \in DOMAIN stores : i \in Kids(stores, q) /\ (q \in X => i \in X)
  <2>1. CASE \E k \in 1..Len(stack) : i \in ToSet(stack[k].alternates)
    BY <1>1, <1>2, <2>1
  <2>2. CASE \E q \in DOMAIN stores : i \in Kids(stores, q)
    <3>1. PICK q \in DOMAIN stores : i \in Kids(stores, q)
      BY <2>2
    <3>2. q \in X => i \in X
      BY <1>1, <1>2, <3>1
    <3> QED
      BY <3>1, <3>2
  <2> QED
    BY <2>1, <2>2 DEF NoOrphan
<1>4. DOMAIN stores \subseteq X
  BY <1>3, NoGap
<1> QED
  BY <1>1, <1>4

\* Once Open has returned, every store is below the first.
LEMMA StoresBelowRoot ==
    ASSUME OpenTypes, Adopted, NoOrphan, RootOpened, Phases, opc \in {"open", "closed"}
    PROVE  TreeOf(stores, {1}) = DOMAIN stores
<1>1. {1} \subseteq DOMAIN stores
  BY DEF RootOpened
<1>2. /\ {1} \subseteq TreeOf(stores, {1})
      /\ TreeOf(stores, {1}) \subseteq DOMAIN stores
      /\ \A i \in TreeOf(stores, {1}) : Kids(stores, i) \subseteq TreeOf(stores, {1})
  BY <1>1, StoresFamily, TreeFacts
<1>3. Len(stack) = 0
  BY DEF Phases, OpenTypes
<1>4. ASSUME NEW j \in DOMAIN stores
      PROVE  j \in TreeOf(stores, {1})
                \/ \E i \in DOMAIN stores : j \in Kids(stores, i)
                        /\ (i \in TreeOf(stores, {1}) => j \in TreeOf(stores, {1}))
  <2>1. ~\E k \in 1..Len(stack) : j \in ToSet(stack[k].alternates)
    BY <1>3
  <2>2. j = 1 \/ \E i \in DOMAIN stores : j \in Kids(stores, i)
    BY <2>1 DEF NoOrphan
  <2> QED
    BY <1>2, <2>2
<1>5. DOMAIN stores \subseteq TreeOf(stores, {1})
  BY <1>4, NoGap
<1> QED
  BY <1>2, <1>5

\* A handle names its store.
LEMMA HandleStore ==
    ASSUME NEW d, NEW n, NEW r, NEW left, NEW h \in HandlesOf(d, n, r, left)
    PROVE  h[1] = n
  BY DEF HandlesOf

\* And so does one that a call in progress has opened.
LEMMA FrameHeldStore ==
    ASSUME NEW d, NEW f, NEW h \in FrameHeld(d, f)
    PROVE  h[1] = f.num
  BY HandleStore DEF FrameHeld

\* What has been opened up to an error is closed by the error returns.
LEMMA HandlesOwned ==
    OpenTypes /\ Adopted /\ Progress /\ HeldInv /\ Opening => Owned
<1> SUFFICES ASSUME OpenTypes, Adopted, Progress, HeldInv, opc = "opening", ~unwinding,
                    NEW h \in held
             PROVE  \E k \in 1..Len(stack) : ClosesAt(k, h)
  BY DEF Owned, Opening
<1>1. \/ \E i \in DOMAIN stores : h \in HandlesOf(disk, i, stores[i].repo, {})
      \/ \E k \in 1..Len(stack) : h \in FrameHeld(disk, stack[k])
  BY DEF HeldInv
<1>2. CASE \E i \in DOMAIN stores : h \in HandlesOf(disk, i, stores[i].repo, {})
  <2>1. PICK i \in DOMAIN stores : h[1] = i
    BY <1>2, HandleStore
  <2> QED
    BY <2>1, StoresBelowCalls DEF Progress, ClosesAt
<1>3. CASE \E k \in 1..Len(stack) : h \in FrameHeld(disk, stack[k])
  BY <1>3, FrameHeldStore DEF ClosesAt
<1> QED
  BY <1>1, <1>2, <1>3

\* The same of the next state.
LEMMA HandlesOwnedNext ==
    OpenTypes' /\ Adopted' /\ Progress' /\ HeldInv' /\ Opening' => Owned'
  BY HandlesOwned, PTL

(***************************************************************************)
(* Open.                                                                   *)
(***************************************************************************)
\* While Open is running there is an innermost call.
LEMMA TopFacts ==
    ASSUME OpenTypes, Phases, opc = "opening"
    PROVE  /\ Len(stack) \in Nat /\ Len(stack) \in 1..Len(stack)
           /\ \A k \in 1..Len(stack) : stack[k] \in Frames
           /\ Top \in Frames /\ Top = stack[Len(stack)]
<1>1. stack \in Seq(Frames) /\ stack # <<>>
  BY DEF OpenTypes, Phases
<1>2. Len(stack) \in Nat /\ Len(stack) # 0
  BY <1>1
<1>3. \A k \in 1..Len(stack) : stack[k] \in Frames
  BY <1>1
<1> QED
  BY <1>2, <1>3 DEF Top

\* SetTop replaces the last member.
LEMMA SetTopFacts ==
    ASSUME stack \in Seq(Frames), Len(stack) \in 1..Len(stack), NEW f \in Frames
    PROVE  /\ SetTop(f) \in Seq(Frames) /\ Len(SetTop(f)) = Len(stack)
           /\ SetTop(f)[Len(stack)] = f
           /\ \A k \in 1..Len(stack) : k < Len(stack) => SetTop(f)[k] = stack[k]
  BY DEF SetTop

\* Open has just been called.
LEMMA OpenInitInv == ObjInit => OpenInv
<1> SUFFICES ASSUME ObjInit PROVE OpenInv
  OBVIOUS
<1>1. PICK f : f = Frame(1, Root, VerifyCRC)
  OBVIOUS
<1>2. /\ f.num = 1 /\ f.path = Root /\ f.pc = "config" /\ f.repo = None /\ f.verify = VerifyCRC
      /\ f.alternates = <<>> /\ f \in Frames
  <2>1. Root \in Paths /\ VerifyCRC \in BOOLEAN
    BY ReposAssumption, VerifyCRCAssumption
  <2>2. <<>> \in Seq(Paths) /\ <<>> \in Seq(Nat)
    OBVIOUS
  <2> QED
    BY <1>1, <2>1, <2>2 DEF Frame, Frames
<1>3. /\ stack \in Seq(Frames) /\ Len(stack) = 1 /\ stack[1] = f /\ stack # <<>>
  BY <1>1, <1>2 DEF ObjInit
<1>4. \A k \in 1..Len(stack) : k = 1 /\ stack[k] = f
  BY <1>3
<1>5. DOMAIN stores = {} /\ stores \in [DOMAIN stores -> StoreRecs]
  BY DEF ObjInit
<1>6. NumStores = 1
  BY <1>3, <1>5, FS_EmptySet DEF NumStores
<1>7. OpenTypes
  BY <1>3, <1>5, FS_EmptySet DEF OpenTypes, ObjInit
<1>8. Phases
  BY <1>3 DEF Phases, ObjInit
<1>9. StackOK
  BY <1>2, <1>3, <1>4 DEF StackOK, FrameOK
<1>10. Numbering
  BY <1>2, <1>3, <1>4, <1>5, <1>6 DEF Numbering
<1>11. Adopted
  <2>1. ToSet(f.alternates) = {}
    BY <1>2 DEF ToSet
  <2> QED
    BY <1>4, <1>5, <2>1 DEF Adopted
<1>12. NoOrphan /\ RootOpened /\ StoresComplete /\ ChainInv
  BY <1>5 DEF NoOrphan, RootOpened, StoresComplete, ChainInv, ObjInit
<1>13. Descent
  BY <1>2, <1>4 DEF Descent
<1>14. \A k \in 1..Len(stack) : AlternatesRead(k)
  BY <1>2, <1>4 DEF AlternatesRead
<1>15. HeldInv
  <2>1. FrameHeld(disk, f) = {}
    BY <1>2 DEF FrameHeld
  <2> QED
    BY <1>4, <1>5, <2>1 DEF HeldInv, ObjInit
<1>16. Owned /\ Excused
  BY DEF Owned, Excused, ObjInit
<1> QED
  BY <1>7, <1>8, <1>9, <1>10, <1>11, <1>12, <1>13, <1>14, <1>15, <1>16 DEF OpenInv, Progress

\* The innermost call goes on.
TopMoves ==
    /\ Opening /\ UNCHANGED <<disk, opc, stores, unwinding, faults>>
    /\ stack' \in Seq(Frames) /\ Len(stack') = Len(stack)
    /\ \A k \in 1..Len(stack) : k < Len(stack) => stack'[k] = stack[k]
    /\ stack'[Len(stack)].num = Top.num
    /\ stack'[Len(stack)].path = Top.path
    /\ stack'[Len(stack)].alternates = Top.alternates

\* SetTop does so.
LEMMA SetTopMoves ==
    ASSUME OpenInv, Opening, UNCHANGED <<disk, opc, stores, unwinding, faults>>,
           NEW f \in Frames, stack' = SetTop(f),
           f.num = Top.num, f.path = Top.path, f.alternates = Top.alternates
    PROVE  TopMoves /\ stack'[Len(stack)] = f
<1>1. stack \in Seq(Frames) /\ Len(stack) \in 1..Len(stack)
  BY TopFacts DEF OpenInv, OpenTypes, Opening
<1>2. /\ stack' \in Seq(Frames) /\ Len(stack') = Len(stack) /\ stack'[Len(stack)] = f
      /\ \A k \in 1..Len(stack) : k < Len(stack) => stack'[k] = stack[k]
  BY <1>1, SetTopFacts
<1> QED
  BY <1>2 DEF TopMoves

\* What does not depend on how far it has come.
LEMMA TopMovesKeeps ==
    ASSUME OpenInv, TopMoves
    PROVE  /\ Phases' /\ Adopted' /\ RootOpened' /\ StoresComplete' /\ Excused'
           /\ Numbering' /\ NoOrphan'
<1>1. /\ Len(stack) \in Nat /\ Len(stack) \in 1..Len(stack) /\ Top = stack[Len(stack)]
      /\ opc = "opening" /\ ~unwinding
  BY TopFacts DEF OpenInv, TopMoves, Opening
<1>2. Len(stack') = Len(stack) /\ stack' \in Seq(Frames)
  BY DEF TopMoves
<1>3. ASSUME NEW k \in 1..Len(stack)
      PROVE  /\ stack'[k].num = stack[k].num
             /\ stack'[k].path = stack[k].path
             /\ stack'[k].alternates = stack[k].alternates
  <2>1. CASE k < Len(stack)
    BY <2>1 DEF TopMoves
  <2>2. CASE k = Len(stack)
    BY <1>1, <2>2 DEF TopMoves
  <2> QED
    BY <1>1, <2>1, <2>2
<1>4. UNCHANGED <<disk, opc, stores, unwinding, faults>>
  BY DEF TopMoves
<1>5. Phases'
  <2>1. stack' # <<>>
    BY <1>1, <1>2
  <2> QED
    BY <1>1, <1>4, <2>1 DEF OpenInv, Phases
<1>6. Adopted'
  BY <1>2, <1>3, <1>4 DEF OpenInv, Adopted
<1>7. RootOpened' /\ StoresComplete' /\ Excused'
  <2>1. RootOpened' /\ Excused'
    BY <1>1, <1>4 DEF RootOpened, Excused
  <2>2. StoresComplete'
    BY <1>4 DEF OpenInv, StoresComplete, StoreComplete
  <2> QED
    BY <2>1, <2>2
<1>8. Numbering'
  <2>1. Numbering
    BY <1>1 DEF OpenInv, Progress
  <2>2. NumStores' = NumStores
    BY <1>2, <1>4 DEF NumStores
  <2>3. stack[1].num = 1 /\ 1 \in 1..Len(stack)
    BY <1>1, <2>1 DEF Numbering
  <2> QED
    BY <1>2, <1>3, <1>4, <2>1, <2>2, <2>3 DEF Numbering
<1>9. NoOrphan'
  <2>1. NoOrphan
    BY <1>1 DEF OpenInv, Progress
  <2> QED
    BY <1>2, <1>3, <1>4, <2>1 DEF NoOrphan
<1> QED
  BY <1>5, <1>6, <1>7, <1>8, <1>9

\* The handles, when the innermost call opens those of A.
LEMMA TopMovesHeld ==
    ASSUME OpenInv, TopMoves, NEW A, held' = held \cup A,
           FrameHeld(disk, stack'[Len(stack)]) = FrameHeld(disk, Top) \cup A
    PROVE  HeldInv'
<1>1. /\ Len(stack) \in Nat /\ Len(stack) \in 1..Len(stack) /\ Top = stack[Len(stack)]
      /\ opc = "opening" /\ ~unwinding
  BY TopFacts DEF OpenInv, TopMoves, Opening
<1>2. /\ Len(stack') = Len(stack)
      /\ \A k \in 1..Len(stack) : k < Len(stack) => stack'[k] = stack[k]
      /\ UNCHANGED <<disk, stores>>
  BY DEF TopMoves
<1>3. \A h : h \in held <=>
            \/ \E i \in DOMAIN stores : h \in HandlesOf(disk, i, stores[i].repo, {})
            \/ \E k \in 1..Len(stack) : h \in FrameHeld(disk, stack[k])
  BY <1>1 DEF OpenInv, HeldInv
<1>4. ASSUME NEW h
      PROVE  (\E k \in 1..Len(stack) : h \in FrameHeld(disk, stack'[k]))
                <=> (\E k \in 1..Len(stack) : h \in FrameHeld(disk, stack[k])) \/ h \in A
  <2>1. ASSUME NEW k \in 1..Len(stack), h \in FrameHeld(disk, stack'[k])
        PROVE  (\E i \in 1..Len(stack) : h \in FrameHeld(disk, stack[i])) \/ h \in A
    <3>1. CASE k < Len(stack)
      BY <1>2, <2>1, <3>1
    <3>2. CASE k = Len(stack)
      BY <1>1, <2>1, <3>2
    <3> QED
      BY <1>1, <3>1, <3>2
  <2>2. ASSUME NEW k \in 1..Len(stack), h \in FrameHeld(disk, stack[k])
        PROVE  \E i \in 1..Len(stack) : h \in FrameHeld(disk, stack'[i])
    <3>1. CASE k < Len(stack)
      BY <1>2, <2>2, <3>1
    <3>2. CASE k = Len(stack)
      BY <1>1, <2>2, <3>2
    <3> QED
      BY <1>1, <3>1, <3>2
  <2>3. h \in A => h \in FrameHeld(disk, stack'[Len(stack)])
    OBVIOUS
  <2> QED
    BY <1>1, <2>1, <2>2, <2>3
<1>5. ASSUME NEW h
      PROVE  h \in held' <=>
                \/ \E i \in DOMAIN stores : h \in HandlesOf(disk, i, stores[i].repo, {})
                \/ \E k \in 1..Len(stack) : h \in FrameHeld(disk, stack'[k])
  BY <1>3, <1>4
<1> QED
  BY <1>2, <1>5 DEF HeldInv

\* What is left to show of such a step.
LEMMA TopMovesInv ==
    ASSUME OpenInv, TopMoves, chain' \subseteq Repos, StackOK', Descent', ChainInv', HeldInv',
           AlternatesRead(Len(stack))'
    PROVE  OpenInv'
<1>1. OpenTypes'
  BY DEF OpenInv, OpenTypes, TopMoves
<1>2. /\ Phases' /\ Adopted' /\ RootOpened' /\ StoresComplete' /\ Excused'
      /\ Numbering' /\ NoOrphan'
  BY TopMovesKeeps
<1>3. /\ Len(stack) \in Nat /\ Len(stack) \in 1..Len(stack) /\ Top = stack[Len(stack)]
      /\ opc = "opening" /\ ~unwinding
  BY TopFacts DEF OpenInv, TopMoves, Opening
<1>4. /\ Len(stack') = Len(stack) /\ UNCHANGED <<disk, stores, opc, unwinding>>
      /\ \A k \in 1..Len(stack) : k < Len(stack) => stack'[k] = stack[k]
      /\ stack'[Len(stack)].path = Top.path
  BY DEF TopMoves
<1>5. ASSUME NEW k \in 1..Len(stack), k < Len(stack) PROVE AlternatesRead(k)'
  <2>1. AlternatesRead(k)
    BY <1>3 DEF OpenInv, Progress
  <2>2. stack'[k] = stack[k]
    BY <1>4, <1>5
  <2>3. stack'[k + 1].path = stack[k + 1].path
    <3>1. CASE k + 1 < Len(stack)
      BY <1>4, <3>1
    <3>2. CASE k + 1 = Len(stack)
      BY <1>3, <1>4, <3>2
    <3> QED
      BY <1>3, <1>5, <3>1, <3>2
  <2> QED
    BY <1>4, <2>1, <2>2, <2>3 DEF AlternatesRead
<1>6. \A k \in 1..Len(stack) : AlternatesRead(k)'
  <2> SUFFICES ASSUME NEW k \in 1..Len(stack) PROVE AlternatesRead(k)'
    OBVIOUS
  <2>1. CASE k < Len(stack)
    BY <1>5, <2>1
  <2>2. CASE k = Len(stack)
    <3>1. AlternatesRead(Len(stack))' <=> AlternatesRead(k)'
      BY <1>4, <2>2 DEF AlternatesRead
    <3> QED
      BY <3>1
  <2> QED
    BY <1>3, <2>1, <2>2
<1>7. Progress'
  BY <1>2, <1>4, <1>6 DEF Progress
<1>8. Opening'
  BY <1>3, <1>4 DEF Opening
<1>9. Owned'
  BY <1>1, <1>2, <1>7, <1>8, HandlesOwnedNext
<1> QED
  BY <1>1, <1>2, <1>7, <1>9 DEF OpenInv

\* What is left to show of the new top.
LEMMA TopMovesStack ==
    ASSUME OpenInv, TopMoves, NEW f, f = stack'[Len(stack)],
           f.pc = "config" => f.repo = None,
           f.pc # "config" => f.repo \in Repos /\ f.repo = Common[f.path],
           f.pc = "packs" => f.packs \subseteq DOMAIN disk.packs[f.repo],
           VerifyCRC => f.verify
    PROVE  StackOK'
<1>1. Len(stack) \in Nat /\ Len(stack') = Len(stack) /\ disk' = disk
  BY TopFacts DEF OpenInv, TopMoves, Opening
<1>2. ASSUME NEW k \in 1..Len(stack) PROVE FrameOK(k)'
  <2>1. CASE k < Len(stack)
    <3>1. stack'[k] = stack[k] /\ FrameOK(k)
      BY <2>1 DEF TopMoves, OpenInv, StackOK
    <3> QED
      BY <1>1, <3>1 DEF FrameOK
  <2>2. CASE k = Len(stack)
    BY <1>1, <2>2 DEF FrameOK
  <2> QED
    BY <1>1, <2>1, <2>2
<1> QED
  BY <1>1, <1>2 DEF StackOK

\* The path of calls is the same while the repository is.
LEMMA TopMovesDescent ==
    ASSUME OpenInv, TopMoves, stack'[Len(stack)].repo = Top.repo
    PROVE  Descent'
<1>1. /\ Len(stack) \in Nat /\ Len(stack) \in 1..Len(stack) /\ Top = stack[Len(stack)]
      /\ Len(stack') = Len(stack) /\ disk' = disk
  BY TopFacts DEF OpenInv, TopMoves, Opening
<1>2. \A k \in 1..Len(stack) : stack'[k].repo = stack[k].repo /\ stack'[k].path = stack[k].path
  <2> SUFFICES ASSUME NEW k \in 1..Len(stack)
               PROVE  stack'[k].repo = stack[k].repo /\ stack'[k].path = stack[k].path
    OBVIOUS
  <2>1. CASE k < Len(stack)
    BY <2>1 DEF TopMoves
  <2>2. CASE k = Len(stack)
    BY <1>1, <2>2 DEF TopMoves
  <2> QED
    BY <1>1, <2>1, <2>2
<1>3. Descent
  BY DEF OpenInv
<1>4. \A k \in 1..Len(stack) :
          IF k = 1 THEN stack'[k].path = Root ELSE stack'[k].path \in ListedIn(disk, stack'[k - 1].repo)
  <2> SUFFICES ASSUME NEW k \in 1..Len(stack), k # 1
               PROVE  stack'[k].path \in ListedIn(disk, stack'[k - 1].repo)
    BY <1>1, <1>2, <1>3 DEF Descent
  <2>1. k - 1 \in 1..Len(stack)
    OBVIOUS
  <2> QED
    BY <1>2, <1>3, <2>1 DEF Descent
<1> QED
  BY <1>1, <1>2, <1>3, <1>4 DEF Descent

\* So are the marks, while the call has not come to its alternates.
LEMMA TopMovesChain ==
    ASSUME OpenInv, TopMoves, chain' = chain, stack'[Len(stack)].repo = Top.repo, Top.pc # "alternates"
    PROVE  ChainInv'
<1>1. /\ Len(stack) \in Nat /\ Top = stack[Len(stack)] /\ Len(stack') = Len(stack) /\ ~unwinding
  BY TopFacts DEF OpenInv, TopMoves, Opening
<1>2. ASSUME NEW r \in chain
      PROVE  \E k \in 1..Len(stack) : stack'[k].pc = "alternates" /\ stack'[k].repo = r
  <2>1. PICK k \in 1..Len(stack) : stack[k].pc = "alternates" /\ stack[k].repo = r
    BY <1>1 DEF OpenInv, Progress, ChainInv
  <2>2. k # Len(stack)
    BY <1>1, <2>1
  <2>3. stack'[k] = stack[k]
    BY <1>1, <2>2 DEF TopMoves
  <2> QED
    BY <2>1, <2>3
<1> QED
  BY <1>1, <1>2 DEF ChainInv

\* The verdict on the graph depends on the disk only.
LEMMA SameVerdict ==
    ASSUME disk' = disk
    PROVE  Sound' = Sound /\ Cyclic' = Cyclic
<1>1. disk' = disk
  OBVIOUS
<1>2. Sound' = Sound
  BY <1>1, Zenon DEF Sound, Reachable, ReachableFrom, Borrowed, MidxComplete
<1>3. Cyclic' = Cyclic
  <2>1. \A r : (ReachableFrom(Borrowed({r}) \ {None}))' = ReachableFrom(Borrowed({r}) \ {None})
    BY <1>1, Zenon DEF ReachableFrom, Borrowed
  <2>2. Reachable' = Reachable
    BY <1>1, Zenon DEF Reachable, ReachableFrom, Borrowed
  <2> QED
    BY <2>1, <2>2, Zenon DEF Cyclic
<1> QED
  BY <1>2, <1>3

\* An error begins to be returned.
LEMMA FailsInv ==
    ASSUME OpenInv, Opening, Fails, disk' = disk, faults' \in Nat,
           ~Sound \/ Cyclic \/ faults' > 0
    PROVE  OpenInv'
<1>1. /\ UNCHANGED <<disk, opc, stack, chain, stores, held>> /\ unwinding' = TRUE
      /\ opc = "opening"
  BY DEF Fails, Opening
<1>2. OpenTypes'
  BY <1>1 DEF OpenInv, OpenTypes
<1>3. Phases'
  BY <1>1 DEF OpenInv, Phases
<1>4. StackOK' /\ Adopted' /\ RootOpened' /\ StoresComplete'
  <2>1. StackOK'
    BY <1>1 DEF OpenInv, StackOK, FrameOK
  <2>2. Adopted' /\ RootOpened'
    BY <1>1 DEF OpenInv, Adopted, RootOpened
  <2>3. StoresComplete'
    BY <1>1 DEF OpenInv, StoresComplete, StoreComplete
  <2> QED
    BY <2>1, <2>2, <2>3
<1>5. Descent'
  BY <1>1 DEF OpenInv, Descent
<1>6. Sound' = Sound /\ Cyclic' = Cyclic
  BY SameVerdict
<1>7. Excused'
  BY <1>6 DEF Excused
<1>8. Progress' /\ HeldInv'
  BY <1>1 DEF Progress, HeldInv
<1>9. Owned'
  BY <1>1 DEF OpenInv, Owned, ClosesAt
<1> QED
  BY <1>2, <1>3, <1>4, <1>5, <1>7, <1>8, <1>9 DEF OpenInv

\* The path leads to a repository, which is on the path of calls from now on.
LEMMA ReadConfigInv ==
    ASSUME OpenInv, ReadConfig
    PROVE  OpenInv'
<1>1. /\ Opening /\ opc = "opening" /\ ~unwinding /\ Top.pc = "config"
      /\ UNCHANGED <<disk, faults>>
  BY DEF ReadConfig, Opening
<1>2. /\ Len(stack) \in Nat /\ Len(stack) \in 1..Len(stack) /\ Top \in Frames
      /\ Top = stack[Len(stack)]
  BY <1>1, TopFacts DEF OpenInv
<1>l. Len(stack) # 1 => Len(stack) > 1
  <2>1. Len(stack) \in Nat /\ Len(stack) \in 1..Len(stack)
    BY <1>2
  <2> QED
    BY <2>1
<1>3. Top.repo = None /\ (VerifyCRC => Top.verify)
  BY <1>1, <1>2 DEF OpenInv, StackOK, FrameOK
<1>4. Len(stack) > 1 =>
        /\ Len(stack) - 1 \in 1..Len(stack)
        /\ stack[Len(stack) - 1].repo \in Repos
        /\ stack[Len(stack) - 1].repo \in ReachIn(disk, {Root})
        /\ Top.path \in ListedIn(disk, stack[Len(stack) - 1].repo)
  <2> SUFFICES ASSUME Len(stack) > 1
               PROVE  /\ Len(stack) - 1 \in 1..Len(stack)
                      /\ stack[Len(stack) - 1].repo \in Repos
                      /\ stack[Len(stack) - 1].repo \in ReachIn(disk, {Root})
                      /\ Top.path \in ListedIn(disk, stack[Len(stack) - 1].repo)
    OBVIOUS
  <2>1. Len(stack) - 1 \in 1..Len(stack) /\ Len(stack) - 1 < Len(stack) /\ Len(stack) # 1
    BY <1>2
  <2>2. stack[Len(stack) - 1].repo \in Repos
    BY <2>1 DEF OpenInv, StackOK, FrameOK
  <2>3. stack[Len(stack) - 1].repo # None
    BY <2>2, ObjectsAssumption
  <2> QED
    BY <1>2, <2>1, <2>2, <2>3 DEF OpenInv, Descent
<1>5. disk \in Disks /\ {Root} \subseteq Repos /\ Common[Root] = Root /\ Root # None
  BY ReposAssumption, CommonAssumption, ObjectsAssumption DEF OpenInv, OpenTypes
<1>6. /\ {Root} \subseteq ReachIn(disk, {Root})
      /\ ReachIn(disk, {Root}) \subseteq Repos
      /\ \A r \in ReachIn(disk, {Root}) : BorrowedIn(disk, r) \subseteq ReachIn(disk, {Root})
  BY <1>5, ReachFacts
<1>7. Len(stack) = 1 => Top.path = Root
  BY <1>2 DEF OpenInv, Descent
<1>8. CASE Common[Top.path] = None
  <2>1. Fails
    BY <1>8 DEF ReadConfig, resolveGitDir
  <2>2. Len(stack) > 1
    BY <1>l, <1>5, <1>7, <1>8
  <2>3. ~Sound
    <3>1. PICK r \in ReachIn(disk, {Root}) : Top.path \in ListedIn(disk, r)
      BY <1>4, <2>2
    <3>2. r \in Reachable
      BY <3>1, ReachIs
    <3>3. Top.path \in UNION {ToSet(disk.alternates[q]) : q \in Reachable}
      BY <3>1, <3>2 DEF ListedIn
    <3>4. None \in Borrowed(Reachable)
      BY <1>8, <3>3 DEF Borrowed
    <3> QED
      BY <3>4 DEF Sound
  <2>4. faults' \in Nat
    BY <1>1 DEF OpenInv, OpenTypes
  <2> QED
    BY <1>1, <2>1, <2>3, <2>4, FailsInv
<1>9. CASE Common[Top.path] # None
  <2> DEFINE f == [Top EXCEPT !.pc = "refs", !.repo = Common[Top.path]]
  <2>1. Common[Top.path] \in Repos
    BY <1>2, <1>9, CommonAssumption DEF Frames
  <2>2. f \in Frames /\ f.num = Top.num /\ f.path = Top.path /\ f.alternates = Top.alternates
        /\ f.pc = "refs" /\ f.repo = Common[Top.path] /\ f.verify = Top.verify
    BY <1>2, <2>1 DEF Frames
  <2>3. stack' = SetTop(f) /\ UNCHANGED <<opc, chain, stores, unwinding, held>>
    BY <1>9 DEF ReadConfig, resolveGitDir
  <2> HIDE DEF f
  <2>4. TopMoves /\ stack'[Len(stack)] = f
    BY <1>1, <2>2, <2>3, SetTopMoves
  <2>5. StackOK'
    BY <1>3, <2>1, <2>2, <2>4, TopMovesStack
  <2>6. /\ Len(stack') = Len(stack) /\ disk' = disk
        /\ \A k \in 1..Len(stack) : k < Len(stack) => stack'[k] = stack[k]
    BY <2>4 DEF TopMoves
  <2>7. Descent'
    <3>1. ASSUME NEW k \in 1..Len(stack), k # 1
          PROVE  stack'[k].path \in ListedIn(disk, stack'[k - 1].repo)
      <4>1. k - 1 \in 1..Len(stack) /\ k - 1 < Len(stack)
        BY <1>2, <3>1
      <4>2. stack'[k - 1] = stack[k - 1]
        BY <2>6, <4>1
      <4>3. stack'[k].path = stack[k].path
        <5>1. CASE k < Len(stack)
          BY <2>6, <5>1
        <5>2. CASE k = Len(stack)
          BY <1>2, <2>2, <2>4, <5>2
        <5> QED
          BY <1>2, <5>1, <5>2
      <4> QED
        BY <3>1, <4>2, <4>3 DEF OpenInv, Descent
    <3>2. stack'[1].path = Root
      <4>1. CASE Len(stack) = 1
        BY <1>7, <2>2, <2>4, <4>1
      <4>2. CASE Len(stack) # 1
        BY <1>2, <2>6, <4>2 DEF OpenInv, Descent
      <4> QED
        BY <4>1, <4>2
    <3>3. f.repo \in ReachIn(disk, {Root})
      <4>1. CASE Len(stack) = 1
        BY <1>5, <1>6, <1>7, <2>2, <4>1
      <4>2. CASE Len(stack) # 1
        <5>1. Common[Top.path] \in BorrowedIn(disk, stack[Len(stack) - 1].repo)
          BY <1>l, <1>4, <1>9, <4>2, BorrowedPath
        <5> QED
          BY <1>l, <1>4, <1>6, <2>2, <4>2, <5>1
      <4> QED
        BY <4>1, <4>2
    <3>4. ASSUME NEW k \in 1..Len(stack), stack'[k].repo # None
          PROVE  stack'[k].repo \in ReachIn(disk, {Root})
      <4>1. CASE k < Len(stack)
        BY <2>6, <3>4, <4>1 DEF OpenInv, Descent
      <4>2. CASE k = Len(stack)
        BY <2>4, <3>3, <4>2
      <4> QED
        BY <1>2, <4>1, <4>2
    <3>5. ASSUME NEW j \in 1..Len(stack), NEW k \in 1..Len(stack), j < k, stack'[k].repo # None
          PROVE  stack'[k].repo \in After(disk, stack'[j].repo)
      <4>0. j < Len(stack) /\ stack'[j] = stack[j]
        BY <1>2, <2>6, <3>5
      <4>1. CASE k < Len(stack)
        BY <2>6, <3>5, <4>0, <4>1 DEF OpenInv, Descent
      <4>2. CASE k = Len(stack)
        <5>1. Len(stack) > 1 /\ Len(stack) - 1 \in 1..Len(stack)
          BY <1>2, <4>0
        <5>2. PICK q \in Repos : q = stack[Len(stack) - 1].repo
          BY <1>4, <5>1
        <5>3. Common[Top.path] \in BorrowedIn(disk, q)
          BY <1>4, <1>9, <5>1, <5>2, BorrowedPath
        <5>4. PICK r \in Repos : r = stack[j].repo
          BY <4>0 DEF OpenInv, StackOK, FrameOK
        <5>5. BorrowedIn(disk, r) \subseteq Repos
          BY <1>5, ListedTypes
        <5>6. /\ BorrowedIn(disk, r) \subseteq After(disk, r)
              /\ \A s \in After(disk, r) : BorrowedIn(disk, s) \subseteq After(disk, r)
          BY <1>5, <5>5, ReachFacts DEF After
        <5>7. CASE j = Len(stack) - 1
          BY <2>2, <2>4, <4>0, <4>2, <5>2, <5>3, <5>4, <5>6, <5>7
        <5>8. CASE j # Len(stack) - 1
          <6>1. j < Len(stack) - 1
            BY <1>2, <4>0, <5>8
          <6>2. q # None
            BY <5>2, ObjectsAssumption
          <6>3. q \in After(disk, r)
            BY <5>1, <5>2, <5>4, <6>1, <6>2 DEF OpenInv, Descent
          <6> QED
            BY <2>2, <2>4, <4>0, <4>2, <5>3, <5>4, <5>6, <6>3
        <5> QED
          BY <5>7, <5>8
      <4> QED
        BY <1>2, <4>1, <4>2
    <3> QED
      BY <2>6, <3>1, <3>2, <3>4, <3>5 DEF Descent
  <2>8. ChainInv'
    <3>1. ASSUME NEW r \in chain
          PROVE  \E k \in 1..Len(stack) : stack'[k].pc = "alternates" /\ stack'[k].repo = r
      <4>1. PICK k \in 1..Len(stack) : stack[k].pc = "alternates" /\ stack[k].repo = r
        BY <1>1 DEF OpenInv, Progress, ChainInv
      <4>2. k # Len(stack)
        BY <1>1, <1>2, <4>1
      <4>3. stack'[k] = stack[k]
        BY <1>2, <2>6, <4>2
      <4> QED
        BY <4>1, <4>3
    <3> QED
      BY <2>3, <2>6, <3>1 DEF ChainInv
  <2>9. HeldInv'
    <3>1. FrameHeld(disk, f) = {} /\ FrameHeld(disk, Top) = {}
      BY <1>1, <2>2 DEF FrameHeld
    <3>2. held' = held \cup {} /\ FrameHeld(disk, stack'[Len(stack)]) = FrameHeld(disk, Top) \cup {}
      BY <2>3, <2>4, <3>1
    <3> QED
      BY <2>4, <3>2, TopMovesHeld
  <2>10. AlternatesRead(Len(stack))'
    BY <2>2, <2>4, <2>6 DEF AlternatesRead
  <2>11. chain' \subseteq Repos
    BY <2>3 DEF OpenInv, OpenTypes
  <2> QED
    BY <2>4, <2>5, <2>7, <2>8, <2>9, <2>10, <2>11, TopMovesInv
<1> QED
  BY <1>8, <1>9

\* The refs and the multi-pack-index are open.
LEMMA OpenBackendsInv ==
    ASSUME OpenInv, OpenBackends
    PROVE  OpenInv'
<1> DEFINE f == [Top EXCEPT !.pc = "packs", !.packs = DOMAIN disk.packs[Top.repo]]
<1>1. /\ Opening /\ opc = "opening" /\ ~unwinding /\ Top.pc = "refs"
      /\ UNCHANGED <<disk, opc, chain, stores, unwinding, faults>>
      /\ stack' = SetTop(f)
      /\ held' = held \cup {<<Top.num, "refs", 0>>} \cup MidxHandle(Top.num, Top.repo)
  BY DEF OpenBackends, Opening
<1>2. /\ Len(stack) \in Nat /\ Len(stack) \in 1..Len(stack) /\ Top \in Frames
      /\ Top = stack[Len(stack)]
  BY <1>1, TopFacts DEF OpenInv
<1>3. Top.repo \in Repos /\ Top.repo = Common[Top.path] /\ (VerifyCRC => Top.verify)
  BY <1>1, <1>2 DEF OpenInv, StackOK, FrameOK
<1>4. DOMAIN disk.packs[Top.repo] \subseteq Nat
  <2>1. disk.packs[Top.repo] \in Seq(PackFiles)
    BY <1>3, DisksAssumption DEF OpenInv, OpenTypes
  <2> QED
    BY <2>1
<1>5. f \in Frames /\ f.num = Top.num /\ f.path = Top.path /\ f.alternates = Top.alternates
      /\ f.pc = "packs" /\ f.repo = Top.repo /\ f.packs = DOMAIN disk.packs[Top.repo]
      /\ f.verify = Top.verify
  BY <1>2, <1>4 DEF Frames
<1> HIDE DEF f
<1>6. TopMoves /\ stack'[Len(stack)] = f
  BY <1>1, <1>5, SetTopMoves
<1>7. StackOK'
  BY <1>3, <1>5, <1>6, TopMovesStack
<1>8. Descent' /\ ChainInv'
  BY <1>1, <1>5, <1>6, TopMovesDescent, TopMovesChain
<1>9. HeldInv'
  <2> DEFINE A == {<<Top.num, "refs", 0>>} \cup MidxHandle(Top.num, Top.repo)
  <2>1. FrameHeld(disk, Top) = {}
    BY <1>1 DEF FrameHeld
  <2>2. FrameHeld(disk, f) = HandlesOf(disk, Top.num, Top.repo, DOMAIN disk.packs[Top.repo])
    BY <1>5 DEF FrameHeld
  <2>3. HandlesOf(disk, Top.num, Top.repo, DOMAIN disk.packs[Top.repo]) = A
    BY DEF HandlesOf, MidxHandle
  <2>4. held' = held \cup A /\ FrameHeld(disk, stack'[Len(stack)]) = FrameHeld(disk, Top) \cup A
    BY <1>1, <1>6, <2>1, <2>2, <2>3
  <2> HIDE DEF A
  <2> QED
    BY <1>6, <2>4, TopMovesHeld
<1>10. AlternatesRead(Len(stack))'
  <2>1. Len(stack') = Len(stack)
    BY <1>6 DEF TopMoves
  <2> QED
    BY <1>5, <1>6, <2>1 DEF AlternatesRead
<1>11. chain' \subseteq Repos
  BY <1>1 DEF OpenInv, OpenTypes
<1> QED
  BY <1>6, <1>7, <1>8, <1>9, <1>10, <1>11, TopMovesInv

\* One pack more is open.
LEMMA OpenPackFileInv ==
    ASSUME OpenInv, OpenPackFile
    PROVE  OpenInv'
<1>1. PICK p \in Top.packs :
        /\ held' = held \cup {<<Top.num, "idx", p>>, <<Top.num, "pack", p>>}
        /\ stack' = SetTop([Top EXCEPT !.packs = @ \ {p}])
  BY DEF OpenPackFile
<1> DEFINE f == [Top EXCEPT !.packs = @ \ {p}]
<1>2. /\ Opening /\ opc = "opening" /\ ~unwinding /\ Top.pc = "packs"
      /\ UNCHANGED <<disk, opc, chain, stores, unwinding, faults>>
      /\ stack' = SetTop(f)
  BY <1>1 DEF OpenPackFile, Opening
<1>3. /\ Len(stack) \in Nat /\ Len(stack) \in 1..Len(stack) /\ Top \in Frames
      /\ Top = stack[Len(stack)]
  BY <1>2, TopFacts DEF OpenInv
<1>4. /\ Top.repo \in Repos /\ Top.repo = Common[Top.path] /\ (VerifyCRC => Top.verify)
      /\ Top.packs \subseteq DOMAIN disk.packs[Top.repo]
  BY <1>2, <1>3 DEF OpenInv, StackOK, FrameOK
<1>5. f \in Frames /\ f.num = Top.num /\ f.path = Top.path /\ f.alternates = Top.alternates
      /\ f.pc = "packs" /\ f.repo = Top.repo /\ f.packs = Top.packs \ {p}
      /\ f.verify = Top.verify
  BY <1>2, <1>3 DEF Frames
<1> HIDE DEF f
<1>6. TopMoves /\ stack'[Len(stack)] = f
  BY <1>2, <1>5, SetTopMoves
<1>7. StackOK'
  BY <1>4, <1>5, <1>6, TopMovesStack
<1>8. Descent' /\ ChainInv'
  BY <1>2, <1>5, <1>6, TopMovesDescent, TopMovesChain
<1>9. HeldInv'
  <2> DEFINE A == {<<Top.num, "idx", p>>, <<Top.num, "pack", p>>}
  <2>1. FrameHeld(disk, Top) = HandlesOf(disk, Top.num, Top.repo, Top.packs)
    BY <1>2 DEF FrameHeld
  <2>2. FrameHeld(disk, f) = HandlesOf(disk, Top.num, Top.repo, Top.packs \ {p})
    BY <1>5 DEF FrameHeld
  <2>3. HandlesOf(disk, Top.num, Top.repo, Top.packs \ {p})
            = HandlesOf(disk, Top.num, Top.repo, Top.packs) \cup A
    <3>1. PICK D : D = DOMAIN disk.packs[Top.repo]
      OBVIOUS
    <3>2. D \ (Top.packs \ {p}) = (D \ Top.packs) \cup {p}
      BY <1>4, <3>1
    <3>3. {<<Top.num, k, q>> : k \in {"idx", "pack"}, q \in (D \ Top.packs) \cup {p}}
            = {<<Top.num, k, q>> : k \in {"idx", "pack"}, q \in D \ Top.packs} \cup A
      OBVIOUS
    <3> QED
      BY <3>1, <3>2, <3>3 DEF HandlesOf
  <2>4. held' = held \cup A /\ FrameHeld(disk, stack'[Len(stack)]) = FrameHeld(disk, Top) \cup A
    BY <1>1, <1>6, <2>1, <2>2, <2>3
  <2> HIDE DEF A
  <2> QED
    BY <1>6, <2>4, TopMovesHeld
<1>10. AlternatesRead(Len(stack))'
  <2>1. Len(stack') = Len(stack)
    BY <1>6 DEF TopMoves
  <2> QED
    BY <1>5, <1>6, <2>1 DEF AlternatesRead
<1>11. chain' \subseteq Repos
  BY <1>2 DEF OpenInv, OpenTypes
<1> QED
  BY <1>6, <1>7, <1>8, <1>9, <1>10, <1>11, TopMovesInv

\* The repository is marked, and every path it lists is still to be opened.
LEMMA ReadAlternatesInv ==
    ASSUME OpenInv, ReadAlternates
    PROVE  OpenInv'
<1>1. /\ Opening /\ opc = "opening" /\ ~unwinding /\ Top.pc = "packs" /\ Top.packs = {}
      /\ UNCHANGED <<disk, faults>>
  BY DEF ReadAlternates, Opening
<1>2. /\ Len(stack) \in Nat /\ Len(stack) \in 1..Len(stack) /\ Top \in Frames
      /\ Top = stack[Len(stack)]
  BY <1>1, TopFacts DEF OpenInv
<1>3. /\ Top.repo \in Repos /\ Top.repo = Common[Top.path] /\ Top.repo # None
      /\ (VerifyCRC => Top.verify)
      /\ disk \in Disks /\ faults \in Nat
  BY <1>1, <1>2, ObjectsAssumption DEF OpenInv, StackOK, FrameOK, OpenTypes
<1>4. Top.repo \in ReachIn(disk, {Root})
  BY <1>2, <1>3 DEF OpenInv, Descent
<1>5. CASE ~MidxComplete(Top.repo)
  <2>1. Fails
    BY <1>5 DEF ReadAlternates
  <2>2. ~Sound
    BY <1>4, <1>5, ReachIs DEF Sound
  <2> QED
    BY <1>1, <1>3, <2>1, <2>2, FailsInv
<1>6. CASE MidxComplete(Top.repo)
  <2> DEFINE f == [Top EXCEPT !.pc = "alternates", !.entries = disk.alternates[Top.repo]]
  <2>1. disk.alternates[Top.repo] \in Seq(Paths)
    BY <1>3, ListedTypes
  <2>2. f \in Frames /\ f.num = Top.num /\ f.path = Top.path /\ f.alternates = Top.alternates
        /\ f.pc = "alternates" /\ f.repo = Top.repo /\ f.entries = disk.alternates[Top.repo]
        /\ f.verify = Top.verify
    BY <1>2, <2>1 DEF Frames
  <2>3. /\ stack' = SetTop(f) /\ chain' = chain \cup {Top.repo}
        /\ UNCHANGED <<opc, stores, unwinding, held>>
    BY <1>6 DEF ReadAlternates, Listed
  <2> HIDE DEF f
  <2>4. TopMoves /\ stack'[Len(stack)] = f
    BY <1>1, <2>2, <2>3, SetTopMoves
  <2>5. StackOK'
    BY <1>3, <2>2, <2>4, TopMovesStack
  <2>6. Descent'
    BY <2>2, <2>4, TopMovesDescent
  <2>7. ChainInv'
    <3>0. Len(stack') = Len(stack)
      BY <2>4 DEF TopMoves
    <3>1. ASSUME NEW r \in chain
          PROVE  \E k \in 1..Len(stack) : stack'[k].pc = "alternates" /\ stack'[k].repo = r
      <4>1. PICK k \in 1..Len(stack) : stack[k].pc = "alternates" /\ stack[k].repo = r
        BY <1>1 DEF OpenInv, Progress, ChainInv
      <4>2. k # Len(stack)
        BY <1>1, <1>2, <4>1
      <4>3. stack'[k] = stack[k]
        BY <1>2, <2>4, <4>2 DEF TopMoves
      <4> QED
        BY <4>1, <4>3
    <3>2. stack'[Len(stack)].pc = "alternates" /\ stack'[Len(stack)].repo = Top.repo
      BY <2>2, <2>4
    <3> QED
      BY <1>2, <2>3, <3>0, <3>1, <3>2 DEF ChainInv
  <2>8. HeldInv'
    <3>1. FrameHeld(disk, f) = FrameHeld(disk, Top)
      BY <1>1, <2>2 DEF FrameHeld
    <3>2. held' = held \cup {} /\ FrameHeld(disk, stack'[Len(stack)]) = FrameHeld(disk, Top) \cup {}
      BY <2>3, <2>4, <3>1
    <3> QED
      BY <2>4, <3>2, TopMovesHeld
  <2>9. AlternatesRead(Len(stack))'
    <3>1. Len(stack') = Len(stack) /\ disk' = disk
      BY <2>4 DEF TopMoves
    <3>2. CoveredIn(disk, Top.repo)
      BY <1>6 DEF MidxComplete, CoveredIn
    <3>3. ToSet(f.entries) = ListedIn(disk, Top.repo)
      BY <2>2 DEF ListedIn
    <3> QED
      BY <2>2, <2>4, <3>1, <3>2, <3>3 DEF AlternatesRead
  <2>10. chain' \subseteq Repos
    BY <1>3, <2>3 DEF OpenInv, OpenTypes
  <2> QED
    BY <2>4, <2>5, <2>6, <2>7, <2>8, <2>9, <2>10, TopMovesInv
<1> QED
  BY <1>5, <1>6

\* Faults of the reads.
LEMMA ReadFailsInv ==
    ASSUME OpenInv, ConfigFails \/ BackendFails
    PROVE  OpenInv'
<1>1. Opening /\ Fails /\ disk' = disk /\ faults' = faults + 1
  BY DEF ConfigFails, BackendFails
<1>2. faults \in Nat
  BY DEF OpenInv, OpenTypes
<1>3. faults' \in Nat /\ faults' > 0
  BY <1>1, <1>2
<1> QED
  BY <1>1, <1>3, FailsInv

\* A repository that is marked and listed is reachable from itself.
LEMMA CycleFound ==
    ASSUME OpenInv, Opening, Top.pc = "alternates", Top.entries # <<>>, Head(Top.entries) \in chain
    PROVE  Cyclic
<1>1. opc = "opening" /\ ~unwinding
  BY DEF Opening
<1>2. /\ Len(stack) \in Nat /\ Len(stack) \in 1..Len(stack) /\ Top \in Frames
      /\ Top = stack[Len(stack)]
  BY <1>1, TopFacts DEF OpenInv
<1>3. PICK r \in chain : r = Head(Top.entries)
  OBVIOUS
<1>4. r \in Repos /\ r # None /\ Common[r] = r /\ disk \in Disks
  BY CommonAssumption, ObjectsAssumption DEF OpenInv, OpenTypes
<1>5. PICK k \in 1..Len(stack) : stack[k].pc = "alternates" /\ stack[k].repo = r
  BY <1>1 DEF OpenInv, Progress, ChainInv
<1>6. r \in ListedIn(disk, Top.repo)
  <2>1. Top.entries \in Seq(Paths)
    BY <1>2 DEF Frames
  <2>2. Head(Top.entries) \in ToSet(Top.entries)
    BY <2>1 DEF ToSet
  <2> QED
    BY <1>1, <1>2, <1>3, <2>2 DEF OpenInv, Progress, AlternatesRead
<1>7. r \in BorrowedIn(disk, Top.repo)
  BY <1>4, <1>6, BorrowedPath
<1>8. r \in ReachIn(disk, {Root})
  BY <1>4, <1>5 DEF OpenInv, Descent
<1>9. r \in After(disk, r)
  <2>1. BorrowedIn(disk, r) \subseteq Repos
    BY <1>4, ListedTypes
  <2>2. /\ BorrowedIn(disk, r) \subseteq After(disk, r)
        /\ \A s \in After(disk, r) : BorrowedIn(disk, s) \subseteq After(disk, r)
    BY <1>4, <2>1, ReachFacts DEF After
  <2>3. CASE k = Len(stack)
    BY <1>2, <1>5, <1>7, <2>2, <2>3
  <2>4. CASE k # Len(stack)
    <3>1. k < Len(stack)
      BY <1>2, <2>4
    <3>2. Top.repo \in Repos /\ Top.repo # None
      BY <1>2, ObjectsAssumption DEF OpenInv, StackOK, FrameOK
    <3>3. Top.repo \in After(disk, r)
      BY <1>2, <1>5, <3>1, <3>2 DEF OpenInv, Descent
    <3> QED
      BY <1>7, <2>2, <3>3
  <2> QED
    BY <2>3, <2>4
<1>10. r \in Reachable /\ r \in ReachableFrom(Borrowed({r}) \ {None})
  BY <1>8, <1>9, ReachIs
<1> QED
  BY <1>10 DEF Cyclic

\* The top is replaced and a call begins above it.
LEMMA PushFacts ==
    ASSUME OpenTypes, NEW n \in Nat, n = Len(stack), n # 0, NEW g \in Frames, NEW f \in Frames,
           stack' = Append(SetTop(g), f)
    PROVE  /\ stack' \in Seq(Frames) /\ Len(stack') = n + 1
           /\ stack'[n] = g /\ stack'[n + 1] = f
           /\ \A k \in 1..n : k < n => stack'[k] = stack[k]
<1>1. stack \in Seq(Frames) /\ Len(stack) \in 1..Len(stack)
  BY DEF OpenTypes
<1>2. PICK s \in Seq(Frames) : /\ s = SetTop(g) /\ Len(s) = n /\ s[n] = g
                               /\ \A k \in 1..n : k < n => s[k] = stack[k]
  BY <1>1, SetTopFacts
<1>3. stack' = Append(s, f)
  BY <1>2
<1> QED
  BY <1>2, <1>3

\* An empty sequence and a longer one.
LEMMA ToSetFacts ==
    /\ ToSet(<<>>) = {}
    /\ \A S : \A s \in Seq(S), x \in S : ToSet(Append(s, x)) = ToSet(s) \cup {x}
    /\ \A S : \A s \in Seq(S) : s # <<>> =>
          Head(s) \in ToSet(s) /\ ToSet(s) = {Head(s)} \cup ToSet(Tail(s)) /\ Tail(s) \in Seq(S)
<1>1. ToSet(<<>>) = {}
  BY DEF ToSet
<1>2. ASSUME NEW S, NEW s \in Seq(S), NEW x \in S PROVE ToSet(Append(s, x)) = ToSet(s) \cup {x}
  <2>1. PICK t \in Seq(S) : /\ t = Append(s, x) /\ Len(t) = Len(s) + 1 /\ t[Len(s) + 1] = x
                            /\ \A i \in 1..Len(s) : t[i] = s[i]
    <3>1. /\ Append(s, x) \in Seq(S) /\ Len(Append(s, x)) = Len(s) + 1
          /\ Append(s, x)[Len(s) + 1] = x /\ \A i \in 1..Len(s) : Append(s, x)[i] = s[i]
      BY AppendProperties
    <3> QED
      BY <3>1, Zenon
  <2>2. DOMAIN t = 1..(Len(s) + 1) /\ DOMAIN s = 1..Len(s) /\ Len(s) \in Nat
    BY <2>1
  <2>3. ASSUME NEW y \in ToSet(t) PROVE y \in ToSet(s) \cup {x}
    <3>1. PICK i \in 1..(Len(s) + 1) : y = t[i]
      BY <2>2, <2>3 DEF ToSet
    <3>2. CASE i \in 1..Len(s)
      BY <2>1, <2>2, <3>1, <3>2 DEF ToSet
    <3>3. CASE i = Len(s) + 1
      BY <2>1, <3>1, <3>3
    <3> QED
      BY <2>2, <3>2, <3>3
  <2>4. ASSUME NEW y \in ToSet(s) PROVE y \in ToSet(t)
    <3>1. PICK i \in 1..Len(s) : y = s[i]
      BY <2>2, <2>4 DEF ToSet
    <3>2. i \in 1..(Len(s) + 1) /\ t[i] = y
      BY <2>1, <2>2, <3>1
    <3> QED
      BY <2>2, <3>2 DEF ToSet
  <2>5. x \in ToSet(t)
    BY <2>1, <2>2 DEF ToSet
  <2> QED
    BY <2>1, <2>3, <2>4, <2>5
<1>3. ASSUME NEW S, NEW s \in Seq(S), s # <<>>
      PROVE  Head(s) \in ToSet(s) /\ ToSet(s) = {Head(s)} \cup ToSet(Tail(s)) /\ Tail(s) \in Seq(S)
  <2>1. PICK t \in Seq(S) : /\ t = Tail(s) /\ Len(t) = Len(s) - 1
                            /\ \A i \in 1..(Len(s) - 1) : t[i] = s[i + 1]
    <3>1. /\ Tail(s) \in Seq(S) /\ Len(Tail(s)) = Len(s) - 1
          /\ \A i \in 1..(Len(s) - 1) : Tail(s)[i] = s[i + 1]
      BY <1>3, HeadTailProperties
    <3> QED
      BY <3>1, Zenon
  <2>2. DOMAIN t = 1..(Len(s) - 1) /\ DOMAIN s = 1..Len(s) /\ Len(s) \in Nat /\ Len(s) # 0
    BY <1>3, <2>1
  <2>3. Head(s) = s[1] /\ 1 \in 1..Len(s)
    BY <1>3, <2>2
  <2>4. ASSUME NEW y \in ToSet(s) PROVE y = Head(s) \/ y \in ToSet(t)
    <3>1. PICK i \in 1..Len(s) : y = s[i]
      BY <2>2, <2>4 DEF ToSet
    <3>2. CASE i # 1
      <4>1. i - 1 \in 1..(Len(s) - 1) /\ (i - 1) + 1 = i
        BY <2>2, <3>2
      <4>2. t[i - 1] = y
        BY <2>1, <3>1, <4>1
      <4> QED
        BY <2>2, <4>1, <4>2 DEF ToSet
    <3> QED
      BY <2>3, <3>1, <3>2
  <2>5. ASSUME NEW y \in ToSet(t) PROVE y \in ToSet(s)
    <3>1. PICK i \in 1..(Len(s) - 1) : y = t[i]
      BY <2>2, <2>5 DEF ToSet
    <3>2. i + 1 \in 1..Len(s) /\ s[i + 1] = y
      BY <2>1, <2>2, <3>1
    <3> QED
      BY <2>2, <3>2 DEF ToSet
  <2>6. Head(s) \in ToSet(s)
    BY <2>2, <2>3 DEF ToSet
  <2> QED
    BY <2>1, <2>4, <2>5, <2>6
<1> QED
  BY <1>1, <1>2, <1>3

\* A call begins for an unmarked path; a marked one closes a cycle.
LEMMA OpenAlternateInv ==
    ASSUME OpenInv, OpenAlternate
    PROVE  OpenInv'
<1>1. /\ Opening /\ opc = "opening" /\ ~unwinding /\ Top.pc = "alternates" /\ Top.entries # <<>>
      /\ UNCHANGED <<disk, faults>>
  BY DEF OpenAlternate, Opening
<1>2. PICK n \in Nat : n = Len(stack) /\ n # 0 /\ n \in 1..n /\ Top = stack[n]
  BY <1>1, TopFacts DEF OpenInv
<1>3. Top \in Frames /\ faults \in Nat /\ \A k \in 1..n : stack[k] \in Frames
  BY <1>1, <1>2, TopFacts DEF OpenInv, OpenTypes
<1>4. CASE Head(Top.entries) \in chain
  <2>1. Fails
    BY <1>4 DEF OpenAlternate
  <2>2. Cyclic
    BY <1>1, <1>4, CycleFound
  <2> QED
    BY <1>1, <1>3, <2>1, <2>2, FailsInv
<1>5. CASE Head(Top.entries) \notin chain
  <2>1. PICK g : g = [Top EXCEPT !.entries = Tail(@)]
    OBVIOUS
  <2>2. PICK f : f = Frame(NumStores + 1, Head(Top.entries), TRUE)
    OBVIOUS
  <2>3. /\ stack' = Append(SetTop(g), f)
        /\ UNCHANGED <<disk, faults, opc, chain, stores, unwinding, held>>
    BY <1>1, <1>5, <2>1, <2>2 DEF OpenAlternate
  <2>4. /\ Top.entries \in Seq(Paths) /\ Tail(Top.entries) \in Seq(Paths)
        /\ Head(Top.entries) \in ToSet(Top.entries)
        /\ ToSet(Top.entries) = {Head(Top.entries)} \cup ToSet(Tail(Top.entries))
        /\ Head(Top.entries) \in Paths
    <3>1. Top.entries \in Seq(Paths)
      BY <1>3 DEF Frames
    <3>2. Head(Top.entries) \in Paths
      BY <1>1, <3>1
    <3> QED
      BY <1>1, <3>1, <3>2, ToSetFacts
  <2>5. /\ g \in Frames /\ g.num = Top.num /\ g.path = Top.path /\ g.pc = "alternates"
        /\ g.repo = Top.repo /\ g.packs = Top.packs /\ g.entries = Tail(Top.entries)
        /\ g.alternates = Top.alternates /\ g.verify = Top.verify
    BY <1>1, <1>3, <2>1, <2>4 DEF Frames
  <2>6. NumStores \in Nat
    <3>1. Cardinality(DOMAIN stores) \in Nat
      BY FS_CardinalityType DEF OpenInv, OpenTypes
    <3> QED
      BY <1>2, <3>1 DEF NumStores
  <2>7. /\ f \in Frames /\ f.num = NumStores + 1 /\ f.path = Head(Top.entries)
        /\ f.pc = "config" /\ f.repo = None /\ f.alternates = <<>> /\ f.verify = TRUE
    <3>1. <<>> \in Seq(Paths) /\ <<>> \in Seq(Nat)
      OBVIOUS
    <3> QED
      BY <2>2, <2>4, <2>6, <3>1 DEF Frame, Frames
  <2>8. /\ stack' \in Seq(Frames) /\ Len(stack') = n + 1
        /\ stack'[n] = g /\ stack'[n + 1] = f
        /\ \A k \in 1..n : k < n => stack'[k] = stack[k]
    BY <1>2, <2>3, <2>5, <2>7, PushFacts DEF OpenInv
  <2>9. ASSUME NEW k \in 1..n
        PROVE  /\ stack'[k].num = stack[k].num /\ stack'[k].path = stack[k].path
               /\ stack'[k].pc = stack[k].pc /\ stack'[k].repo = stack[k].repo
               /\ stack'[k].packs = stack[k].packs /\ stack'[k].verify = stack[k].verify
               /\ stack'[k].alternates = stack[k].alternates
    <3>1. CASE k < n
      BY <2>8, <3>1
    <3>2. CASE k = n
      BY <1>1, <1>2, <2>5, <2>8, <3>2
    <3> QED
      BY <3>1, <3>2
  <2>10. \A k \in 1..(n + 1) : k \in 1..n \/ k = n + 1
    OBVIOUS
  <2>11. OpenTypes'
    BY <2>3, <2>8 DEF OpenInv, OpenTypes
  <2>12. Phases'
    <3>1. stack' # <<>>
      BY <2>8
    <3> QED
      BY <1>1, <2>3, <3>1 DEF OpenInv, Phases
  <2>13. StackOK'
    <3>1. ASSUME NEW k \in 1..n PROVE FrameOK(k)'
      <4>1. FrameOK(k)
        BY <1>2 DEF OpenInv, StackOK
      <4>2. stack'[k].pc = "alternates"
        BY <1>1, <1>2, <2>9, <4>1 DEF FrameOK
      <4> QED
        BY <2>3, <2>9, <4>1, <4>2 DEF FrameOK
    <3>2. FrameOK(n + 1)'
      BY <2>7, <2>8 DEF FrameOK
    <3> QED
      BY <2>8, <2>10, <3>1, <3>2 DEF StackOK
  <2>14. Numbering'
    <3>1. Numbering
      BY <1>1 DEF OpenInv, Progress
    <3>2. NumStores' = NumStores + 1
      <4>1. PICK c \in Nat : c = Cardinality(DOMAIN stores)
        BY FS_CardinalityType DEF OpenInv, OpenTypes
      <4>2. NumStores = c + n
        BY <1>2, <4>1 DEF NumStores
      <4>3. NumStores' = c + (n + 1)
        BY <2>3, <2>8, <4>1 DEF NumStores
      <4> QED
        BY <4>2, <4>3
    <3>3. ASSUME NEW j \in 1..(n + 1), NEW k \in 1..(n + 1), j < k
          PROVE  stack'[j].num < stack'[k].num
      <4>1. j \in 1..n
        BY <3>3
      <4>2. CASE k \in 1..n
        BY <1>2, <2>9, <3>1, <3>3, <4>1, <4>2 DEF Numbering
      <4>3. CASE k = n + 1
        <5>1. stack[j].num \in 1..NumStores
          BY <1>2, <3>1, <4>1 DEF Numbering
        <5> QED
          BY <2>6, <2>7, <2>8, <2>9, <4>1, <4>3, <5>1
      <4> QED
        BY <2>10, <4>2, <4>3
    <3>4. stack'[1].num = 1
      BY <1>2, <2>9, <3>1 DEF Numbering
    <3>5. ASSUME NEW k \in 1..(n + 1)
          PROVE  stack'[k].num \in (1..(NumStores + 1)) \ DOMAIN stores
      <4>1. CASE k \in 1..n
        <5>1. stack[k].num \in (1..NumStores) \ DOMAIN stores
          BY <1>2, <3>1, <4>1 DEF Numbering
        <5> QED
          BY <2>6, <2>9, <4>1, <5>1
      <4>2. CASE k = n + 1
        <5>1. NumStores + 1 \notin DOMAIN stores
          BY <2>6, <3>1 DEF Numbering
        <5> QED
          BY <2>6, <2>7, <2>8, <4>2, <5>1
      <4> QED
        BY <2>10, <4>1, <4>2
    <3>6. DOMAIN stores \subseteq 1..(NumStores + 1)
      BY <2>6, <3>1 DEF Numbering
    <3> QED
      BY <2>3, <2>8, <3>2, <3>3, <3>4, <3>5, <3>6 DEF Numbering
  <2>15. Adopted'
    <3>1. ToSet(stack'[n + 1].alternates) = {}
      BY <2>7, <2>8, ToSetFacts
    <3>2. \A k \in 1..n : \A j \in ToSet(stack'[k].alternates) :
              j \in DOMAIN stores /\ stack'[k].num < j
      BY <1>2, <2>9 DEF OpenInv, Adopted
    <3>3. \A k \in 1..(n + 1) : \A j \in ToSet(stack'[k].alternates) :
              j \in DOMAIN stores /\ stack'[k].num < j
      BY <2>10, <3>1, <3>2
    <3> QED
      BY <2>3, <2>8, <3>3 DEF OpenInv, Adopted
  <2>16. NoOrphan' /\ RootOpened' /\ StoresComplete' /\ Excused'
    <3>1. NoOrphan'
      <4>1. NoOrphan
        BY <1>1 DEF OpenInv, Progress
      <4>2. \A k \in 1..n : k \in 1..(n + 1)
        OBVIOUS
      <4>3. ASSUME NEW j \in DOMAIN stores
            PROVE  \/ \E k \in 1..(n + 1) : j \in ToSet(stack'[k].alternates)
                   \/ \E i \in DOMAIN stores : j \in Kids(stores, i)
        BY <1>1, <1>2, <2>9, <4>1, <4>2 DEF NoOrphan
      <4> QED
        BY <2>3, <2>8, <4>3 DEF NoOrphan
    <3>2. StoresComplete'
      BY <2>3 DEF OpenInv, StoresComplete, StoreComplete
    <3> QED
      BY <1>1, <2>3, <3>1, <3>2 DEF RootOpened, Excused
  <2>17. Descent'
    <3>0. Descent
      BY DEF OpenInv
    <3>1. ASSUME NEW k \in 1..(n + 1), k # 1
          PROVE  stack'[k].path \in ListedIn(disk, stack'[k - 1].repo)
      <4>1. CASE k \in 1..n
        <5>1. k - 1 \in 1..n
          BY <3>1, <4>1
        <5>2. stack[k].path \in ListedIn(disk, stack[k - 1].repo)
          BY <1>2, <3>0, <3>1, <4>1 DEF Descent
        <5> QED
          BY <2>9, <4>1, <5>1, <5>2
      <4>2. CASE k = n + 1
        <5>1. AlternatesRead(n)
          BY <1>1, <1>2 DEF OpenInv, Progress
        <5>2. Head(Top.entries) \in ListedIn(disk, Top.repo)
          BY <1>1, <1>2, <2>4, <5>1 DEF AlternatesRead
        <5>3. k - 1 = n
          BY <4>2
        <5> QED
          BY <2>5, <2>7, <2>8, <4>2, <5>2, <5>3
      <4> QED
        BY <2>10, <4>1, <4>2
    <3>2. stack'[1].path = Root
      BY <1>2, <2>9, <3>0 DEF Descent
    <3>3. ASSUME NEW k \in 1..(n + 1), stack'[k].repo # None
          PROVE  /\ k \in 1..n
                 /\ stack'[k].repo \in ReachIn(disk, {Root})
                 /\ \A j \in 1..(n + 1) : j < k => stack'[k].repo \in After(disk, stack'[j].repo)
      <4>1. k \in 1..n
        BY <2>7, <2>8, <2>10, <3>3
      <4>2. stack'[k].repo = stack[k].repo
        BY <2>9, <4>1
      <4>3. \A j \in 1..(n + 1) : j < k => j \in 1..n
        BY <4>1
      <4>4. \A j \in 1..n : stack'[j].repo = stack[j].repo
        BY <2>9
      <4> QED
        BY <1>2, <3>0, <3>3, <4>1, <4>2, <4>3, <4>4 DEF Descent
    <3> QED
      BY <2>3, <2>8, <3>1, <3>2, <3>3 DEF Descent
  <2>18. ChainInv'
    <3>1. \A r \in chain : \E k \in 1..n : stack[k].pc = "alternates" /\ stack[k].repo = r
      BY <1>1, <1>2 DEF OpenInv, Progress, ChainInv
    <3>2. \A k \in 1..n : k \in 1..(n + 1)
      OBVIOUS
    <3> QED
      BY <2>3, <2>8, <2>9, <3>1, <3>2 DEF ChainInv
  <2>19. ASSUME NEW k \in 1..(n + 1) PROVE AlternatesRead(k)'
    <3>1. CASE k = n + 1
      BY <2>7, <2>8, <3>1 DEF AlternatesRead
    <3>2. CASE k = n
      <4>1. AlternatesRead(n)
        BY <1>1, <1>2 DEF OpenInv, Progress
      <4>2. /\ CoveredIn(disk, Top.repo)
            /\ ToSet(Top.entries) \subseteq ListedIn(disk, Top.repo)
            /\ \A p \in ListedIn(disk, Top.repo) :
                  p \in ToSet(Top.entries) \/ Opened(stores, ToSet(Top.alternates), p)
        BY <1>1, <1>2, <4>1 DEF AlternatesRead
      <4>3. n < Len(stack')
        BY <2>8
      <4>4. ASSUME NEW p \in ListedIn(disk, Top.repo)
            PROVE  \/ p \in ToSet(g.entries)
                   \/ p = f.path
                   \/ Opened(stores, ToSet(g.alternates), p)
        BY <2>4, <2>5, <2>7, <4>2
      <4>5. ToSet(g.entries) \subseteq ListedIn(disk, Top.repo)
        BY <2>4, <2>5, <4>2
      <4>6. stack'[k] = g /\ stack'[k + 1] = f /\ k < Len(stack') /\ disk' = disk /\ stores' = stores
        BY <2>3, <2>8, <3>2, <4>3
      <4> QED
        BY <2>5, <4>2, <4>4, <4>5, <4>6 DEF AlternatesRead
    <3>3. CASE k < n
      <4>1. AlternatesRead(k) /\ k \in 1..n /\ k + 1 \in 1..n
        BY <1>1, <1>2, <3>3 DEF OpenInv, Progress
      <4>2. stack'[k] = stack[k] /\ stack'[k + 1].path = stack[k + 1].path
        BY <2>8, <2>9, <3>3, <4>1
      <4>3. k < Len(stack) /\ k < Len(stack')
        BY <1>2, <2>8, <3>3
      <4> QED
        BY <2>3, <4>1, <4>2, <4>3 DEF AlternatesRead
    <3> QED
      BY <3>1, <3>2, <3>3
  <2>20. HeldInv'
    <3>1. FrameHeld(disk, f) = {}
      BY <2>7 DEF FrameHeld
    <3>2. ASSUME NEW k \in 1..n PROVE FrameHeld(disk, stack'[k]) = FrameHeld(disk, stack[k])
      BY <2>9 DEF FrameHeld
    <3>3. \A h : h \in held <=>
              \/ \E i \in DOMAIN stores : h \in HandlesOf(disk, i, stores[i].repo, {})
              \/ \E k \in 1..n : h \in FrameHeld(disk, stack[k])
      BY <1>1, <1>2 DEF OpenInv, HeldInv
    <3>4. \A h : (\E k \in 1..(n + 1) : h \in FrameHeld(disk, stack'[k]))
                    <=> (\E k \in 1..n : h \in FrameHeld(disk, stack[k]))
      <4>1. \A k \in 1..n : k \in 1..(n + 1)
        OBVIOUS
      <4> QED
        BY <2>8, <2>10, <3>1, <3>2, <4>1
    <3> QED
      BY <2>3, <2>8, <3>3, <3>4 DEF HeldInv
  <2>21. Progress'
    BY <2>8, <2>14, <2>16, <2>18, <2>19 DEF Progress
  <2>22. Opening'
    BY <1>1, <2>3 DEF Opening
  <2>23. Owned'
    BY <2>11, <2>15, <2>20, <2>21, <2>22, HandlesOwnedNext
  <2> QED
    BY <2>11, <2>12, <2>13, <2>15, <2>16, <2>17, <2>20, <2>21, <2>23 DEF OpenInv
<1> QED
  BY <1>4, <1>5

\* Front drops the last member.
LEMMA FrontFacts ==
    ASSUME OpenTypes, NEW n \in Nat, n = Len(stack), n # 0
    PROVE  /\ Front(stack) \in Seq(Frames) /\ Len(Front(stack)) = n - 1
           /\ \A k \in 1..(n - 1) : Front(stack)[k] = stack[k]
<1>1. stack \in Seq(Frames)
  BY DEF OpenTypes
<1> QED
  BY <1>1 DEF Front

\* The store that openWithSeen returns.
Returned == [repo |-> Top.repo, verify |-> Top.verify, alternates |-> Top.alternates]

\* The stack after the return, but for the fields of the caller's frame that
\* do not change; and the stores.
Return(n, t) ==
    /\ Len(stack') = n - 1 /\ stack' \in Seq(Frames)
    /\ \A k \in 1..(n - 1) :
          /\ stack'[k].num = stack[k].num /\ stack'[k].path = stack[k].path /\ stack'[k].verify = stack[k].verify
          /\ stack'[k].pc = stack[k].pc /\ stack'[k].repo = stack[k].repo
          /\ stack'[k].packs = stack[k].packs /\ stack'[k].entries = stack[k].entries
          /\ ToSet(stack'[k].alternates) =
                ToSet(stack[k].alternates) \cup (IF k = n - 1 THEN {t} ELSE {})
    /\ DOMAIN stores' = DOMAIN stores \cup {t}
    /\ stores' \in [DOMAIN stores \cup {t} -> StoreRecs]
    /\ \A i \in DOMAIN stores : stores'[i] = stores[i]
    /\ stores'[t] = Returned
    /\ opc' = (IF n = 1 THEN "open" ELSE "opening")
    /\ chain' = chain \ {Top.repo}
    /\ UNCHANGED <<disk, unwinding, faults, held>>

\* What OpenReturns does.
LEMMA ReturnFacts ==
    ASSUME OpenInv, OpenReturns, NEW n \in Nat, n = Len(stack), n # 0
    PROVE  /\ Top = stack[n] /\ Top \in Frames /\ Top.pc = "alternates" /\ Top.entries = <<>>
           /\ opc = "opening" /\ ~unwinding
           /\ Top.num \notin DOMAIN stores /\ Top.num \in Nat
           /\ Returned \in StoreRecs
           /\ Return(n, Top.num)
<1>1. /\ opc = "opening" /\ ~unwinding /\ Top.pc = "alternates" /\ Top.entries = <<>>
  BY DEF OpenReturns, Opening
<1>2. Top = stack[n] /\ Top \in Frames /\ n \in 1..n
  BY <1>1, TopFacts DEF OpenInv
<1>3. Top.num \notin DOMAIN stores /\ Top.num \in Nat
  BY <1>1, <1>2 DEF OpenInv, Progress, Numbering, Frames
<1>4. Top.repo \in Repos
  BY <1>1, <1>2 DEF OpenInv, StackOK, FrameOK
<1>5. Returned \in StoreRecs
  BY <1>2, <1>4 DEF Returned, StoreRecs, Frames
<1>6. PICK rest \in Seq(Frames) : /\ rest = Front(stack) /\ Len(rest) = n - 1
                                  /\ \A k \in 1..(n - 1) : rest[k] = stack[k]
  BY FrontFacts DEF OpenInv
<1>7. /\ stores' = [i \in DOMAIN stores \cup {Top.num} |-> IF i = Top.num THEN Returned ELSE stores[i]]
      /\ IF rest = <<>> THEN opc' = "open" /\ stack' = <<>>
         ELSE /\ stack' = [rest EXCEPT ![Len(rest)].alternates = Append(@, Top.num)]
              /\ opc' = opc
      /\ chain' = chain \ {Top.repo}
      /\ UNCHANGED <<disk, unwinding, faults, held>>
  BY <1>1, <1>6 DEF OpenReturns, Returned, Unmarked
<1>8. /\ DOMAIN stores' = DOMAIN stores \cup {Top.num}
      /\ \A i \in DOMAIN stores : stores'[i] = stores[i]
      /\ stores'[Top.num] = Returned
      /\ stores' \in [DOMAIN stores \cup {Top.num} -> StoreRecs]
  <2>1. stores \in [DOMAIN stores -> StoreRecs]
    BY DEF OpenInv, OpenTypes
  <2> QED
    BY <1>3, <1>5, <1>7, <2>1
<1>9. rest = <<>> <=> n = 1
  BY <1>6
<1>10. CASE n = 1
  <2>1. stack' = <<>> /\ opc' = "open"
    BY <1>7, <1>9, <1>10
  <2>2. Len(stack') = n - 1 /\ stack' \in Seq(Frames) /\ 1..(n - 1) = {}
    BY <1>10, <2>1
  <2> QED
    BY <1>1, <1>2, <1>3, <1>5, <1>7, <1>8, <1>10, <2>1, <2>2 DEF Return
<1>11. CASE n # 1
  <2>1. stack' = [rest EXCEPT ![n - 1].alternates = Append(@, Top.num)] /\ opc' = "opening"
    BY <1>1, <1>6, <1>7, <1>9, <1>11
  <2>2. n - 1 \in 1..(n - 1)
    BY <1>11
  <2>3. rest[n - 1] \in Frames /\ rest[n - 1].alternates \in Seq(Nat)
    <3>1. rest[n - 1] \in Frames
      BY <1>6, <2>2
    <3> QED
      BY <3>1 DEF Frames
  <2>4. PICK g : g = [rest[n - 1] EXCEPT !.alternates = Append(@, Top.num)]
    OBVIOUS
  <2>5. Append(rest[n - 1].alternates, Top.num) \in Seq(Nat)
    BY <1>3, <2>3
  <2>6. /\ g \in Frames /\ g.num = rest[n - 1].num /\ g.path = rest[n - 1].path /\ g.verify = rest[n - 1].verify
        /\ g.pc = rest[n - 1].pc /\ g.repo = rest[n - 1].repo
        /\ g.packs = rest[n - 1].packs /\ g.entries = rest[n - 1].entries
        /\ g.alternates = Append(rest[n - 1].alternates, Top.num)
    BY <2>3, <2>4, <2>5 DEF Frames
  <2>7. ToSet(g.alternates) = ToSet(rest[n - 1].alternates) \cup {Top.num}
    BY <1>3, <2>3, <2>6, ToSetFacts
  <2>8. /\ stack' \in Seq(Frames) /\ Len(stack') = n - 1 /\ stack'[n - 1] = g
        /\ \A k \in 1..(n - 1) : k # n - 1 => stack'[k] = rest[k]
    <3>1. stack' = [rest EXCEPT ![n - 1] = g]
      BY <2>1, <2>4
    <3> QED
      BY <1>6, <2>2, <2>6, <3>1
  <2>9. ASSUME NEW k \in 1..(n - 1)
        PROVE  /\ stack'[k].num = stack[k].num /\ stack'[k].path = stack[k].path /\ stack'[k].verify = stack[k].verify
               /\ stack'[k].pc = stack[k].pc /\ stack'[k].repo = stack[k].repo
               /\ stack'[k].packs = stack[k].packs /\ stack'[k].entries = stack[k].entries
               /\ ToSet(stack'[k].alternates) =
                     ToSet(stack[k].alternates) \cup (IF k = n - 1 THEN {Top.num} ELSE {})
    <3>1. CASE k = n - 1
      BY <1>6, <2>6, <2>7, <2>8, <3>1
    <3>2. CASE k # n - 1
      BY <1>6, <2>8, <3>2
    <3> QED
      BY <3>1, <3>2
  <2> QED
    BY <1>1, <1>2, <1>3, <1>5, <1>7, <1>8, <1>11, <2>1, <2>8, <2>9 DEF Return
<1> QED
  BY <1>10, <1>11

\* The store that is returned becomes an alternate of the one around it.
LEMMA OpenReturnsInv ==
    ASSUME OpenInv, OpenReturns
    PROVE  OpenInv'
<1>1. PICK n \in Nat : n = Len(stack) /\ n # 0 /\ n \in 1..n
  BY TopFacts DEF OpenInv, OpenReturns, Opening
<1>2. PICK t \in Nat : t = Top.num
  BY <1>1, ReturnFacts
<1>3. /\ Top = stack[n] /\ Top \in Frames /\ Top.pc = "alternates" /\ Top.entries = <<>>
      /\ opc = "opening" /\ ~unwinding
      /\ t \notin DOMAIN stores /\ Returned \in StoreRecs /\ Return(n, t)
  BY <1>1, <1>2, ReturnFacts
<1>4. \A k \in 1..(n - 1) : k \in 1..n /\ k < n
  OBVIOUS
<1>5. /\ DOMAIN stores' = DOMAIN stores \cup {t}
      /\ \A i \in DOMAIN stores : stores'[i] = stores[i]
      /\ stores'[t] = Returned /\ Len(stack') = n - 1
      /\ UNCHANGED <<disk, unwinding, faults, held>>
  BY <1>3 DEF Return
<1>6. ASSUME NEW k \in 1..(n - 1)
      PROVE  /\ stack'[k].num = stack[k].num /\ stack'[k].path = stack[k].path /\ stack'[k].verify = stack[k].verify
             /\ stack'[k].pc = stack[k].pc /\ stack'[k].repo = stack[k].repo
             /\ stack'[k].packs = stack[k].packs /\ stack'[k].entries = stack[k].entries
             /\ ToSet(stack'[k].alternates) =
                   ToSet(stack[k].alternates) \cup (IF k = n - 1 THEN {t} ELSE {})
  BY <1>3 DEF Return
<1>7. /\ \A i \in DOMAIN stores : Kids(stores', i) = Kids(stores, i)
      /\ Kids(stores', t) = ToSet(Top.alternates)
  BY <1>5 DEF Kids, Returned
<1>8. /\ Returned.repo = Top.repo /\ Top.repo \in Repos /\ Top.repo = Common[Top.path] /\ Top.repo # None
      /\ Returned.verify = Top.verify /\ (VerifyCRC => Top.verify)
  BY <1>1, <1>3, ObjectsAssumption DEF Returned, OpenInv, StackOK, FrameOK
<1>9. Numbering /\ NoOrphan /\ ChainInv /\ \A k \in 1..n : AlternatesRead(k)
  BY <1>1, <1>3 DEF OpenInv, Progress
<1>10. OpenTypes'
  <2>1. IsFiniteSet(DOMAIN stores \cup {t})
    BY FS_AddElement DEF OpenInv, OpenTypes
  <2>2. DOMAIN stores \cup {t} \subseteq Nat
    BY DEF OpenInv, OpenTypes
  <2>3. stores' \in [DOMAIN stores' -> StoreRecs]
    BY <1>3 DEF Return
  <2>4. opc' \in {"opening", "open"} /\ chain' \subseteq Repos /\ stack' \in Seq(Frames)
    BY <1>3 DEF Return, OpenInv, OpenTypes
  <2> QED
    BY <1>5, <2>1, <2>2, <2>3, <2>4 DEF OpenInv, OpenTypes
<1>11. opc' = (IF n = 1 THEN "open" ELSE "opening") /\ (stack' = <<>> <=> n = 1)
  <2>1. stack' \in Seq(Frames)
    BY <1>10 DEF OpenTypes
  <2> QED
    BY <1>3, <1>5, <2>1 DEF Return
<1>12. Phases'
  BY <1>3, <1>5, <1>11 DEF OpenInv, Phases
<1>13. StackOK'
  <2>1. ASSUME NEW k \in 1..(n - 1) PROVE FrameOK(k)'
    <3>1. FrameOK(k) /\ stack[k].pc = "alternates"
      BY <1>1, <1>4 DEF OpenInv, StackOK, FrameOK
    <3> QED
      BY <1>5, <1>6, <3>1 DEF FrameOK
  <2> QED
    BY <1>5, <2>1 DEF StackOK
<1>14. \A k \in 1..(n - 1) : stack[k].num < t
  BY <1>1, <1>2, <1>3, <1>4, <1>9 DEF Numbering
<1>15. Numbering'
  <2>1. NumStores' = NumStores
    <3>1. PICK c \in Nat : c = Cardinality(DOMAIN stores)
      BY FS_CardinalityType DEF OpenInv, OpenTypes
    <3>2. Cardinality(DOMAIN stores \cup {t}) = c + 1
      BY <1>3, <3>1, FS_AddElement DEF OpenInv, OpenTypes
    <3>3. NumStores = c + n
      BY <1>1, <3>1 DEF NumStores
    <3>4. NumStores' = (c + 1) + (n - 1)
      BY <1>5, <3>2 DEF NumStores
    <3> QED
      BY <3>3, <3>4
  <2>2. \A j, k \in 1..(n - 1) : j < k => stack'[j].num < stack'[k].num
    BY <1>1, <1>4, <1>6, <1>9 DEF Numbering
  <2>3. n # 1 => stack'[1].num = 1
    <3> SUFFICES ASSUME n # 1 PROVE stack'[1].num = 1
      OBVIOUS
    <3>1. 1 \in 1..(n - 1)
      BY <1>1
    <3>2. stack # <<>>
      BY <1>3 DEF OpenInv, Phases
    <3> QED
      BY <1>6, <1>9, <3>1, <3>2 DEF Numbering
  <2>4. ASSUME NEW k \in 1..(n - 1)
        PROVE  stack'[k].num \in (1..NumStores) \ (DOMAIN stores \cup {t})
    <3>1. stack[k].num \in (1..NumStores) \ DOMAIN stores
      BY <1>1, <1>4, <1>9 DEF Numbering
    <3>2. stack[k].num # t
      <4>1. stack[k].num < t /\ stack[k].num \in Nat
        BY <1>14, <3>1
      <4> QED
        BY <4>1
    <3> QED
      BY <1>6, <3>1, <3>2
  <2>5. t \in 1..NumStores
    BY <1>1, <1>2, <1>3, <1>9 DEF Numbering
  <2> QED
    BY <1>5, <1>9, <1>11, <2>1, <2>2, <2>3, <2>4, <2>5 DEF Numbering
<1>16. Adopted'
  <2>1. Adopted
    BY DEF OpenInv
  <2>2. ASSUME NEW k \in 1..(n - 1), NEW j \in ToSet(stack'[k].alternates)
        PROVE  j \in DOMAIN stores \cup {t} /\ stack'[k].num < j
    <3>1. j \in ToSet(stack[k].alternates) \/ j = t
      BY <1>6, <2>2
    <3> QED
      BY <1>1, <1>4, <1>6, <1>14, <2>1, <3>1 DEF Adopted
  <2>3. ASSUME NEW i \in DOMAIN stores \cup {t}, NEW j \in Kids(stores', i)
        PROVE  j \in DOMAIN stores \cup {t} /\ i < j
    <3>1. CASE i \in DOMAIN stores
      BY <1>7, <2>1, <2>3, <3>1 DEF Adopted
    <3>2. CASE i = t
      BY <1>1, <1>2, <1>3, <1>7, <2>1, <2>3, <3>2 DEF Adopted
    <3> QED
      BY <3>1, <3>2
  <2> QED
    BY <1>5, <2>2, <2>3 DEF Adopted
<1>17. NoOrphan'
  <2> SUFFICES ASSUME NEW j \in DOMAIN stores \cup {t}
               PROVE  \/ opc' = "open" /\ j = 1
                      \/ \E k \in 1..(n - 1) : j \in ToSet(stack'[k].alternates)
                      \/ \E i \in DOMAIN stores \cup {t} : j \in Kids(stores', i)
    BY <1>5 DEF NoOrphan
  <2>1. CASE j = t
    <3>1. CASE n = 1
      <4>1. t = 1
        <5>1. stack # <<>>
          BY <1>3 DEF OpenInv, Phases
        <5> QED
          BY <1>2, <1>3, <1>9, <3>1, <5>1 DEF Numbering
      <4> QED
        BY <1>11, <2>1, <3>1, <4>1
    <3>2. CASE n # 1
      <4>1. n - 1 \in 1..(n - 1)
        BY <1>1, <3>2
      <4> QED
        BY <1>6, <2>1, <4>1
    <3> QED
      BY <3>1, <3>2
  <2>2. CASE j \in DOMAIN stores
    <3>1. \/ \E k \in 1..n : j \in ToSet(stack[k].alternates)
          \/ \E i \in DOMAIN stores : j \in Kids(stores, i)
      BY <1>1, <1>3, <1>9, <2>2 DEF NoOrphan
    <3>2. CASE \E k \in 1..n : j \in ToSet(stack[k].alternates)
      <4>1. PICK k \in 1..n : j \in ToSet(stack[k].alternates)
        BY <3>2
      <4>2. CASE k = n
        BY <1>3, <1>7, <4>1, <4>2
      <4>3. CASE k # n
        <5>1. k \in 1..(n - 1)
          BY <4>3
        <5> QED
          BY <1>6, <4>1, <5>1
      <4> QED
        BY <4>2, <4>3
    <3> QED
      BY <1>7, <3>1, <3>2
  <2> QED
    BY <2>1, <2>2
<1>18. RootOpened'
  <2> SUFFICES ASSUME n = 1 PROVE 1 \in DOMAIN stores' /\ stores'[1].repo = Root
    BY <1>11 DEF RootOpened
  <2>1. stack # <<>>
    BY <1>3 DEF OpenInv, Phases
  <2>2. t = 1
    BY <1>2, <1>3, <1>9, <2>1 DEF Numbering
  <2>3. Top.path = Root
    BY <1>1, <1>3 DEF OpenInv, Descent
  <2> QED
    BY <1>5, <1>8, <2>2, <2>3, CommonAssumption, ReposAssumption
<1>19. Descent'
  <2>0. Descent
    BY DEF OpenInv
  <2>1. \A k \in 1..(n - 1) : IF k = 1 THEN stack'[k].path = Root
                              ELSE stack'[k].path \in ListedIn(disk, stack'[k - 1].repo)
    <3> SUFFICES ASSUME NEW k \in 1..(n - 1)
                 PROVE  IF k = 1 THEN stack'[k].path = Root
                        ELSE stack'[k].path \in ListedIn(disk, stack'[k - 1].repo)
      OBVIOUS
    <3>1. k # 1 => k - 1 \in 1..(n - 1)
      OBVIOUS
    <3>2. IF k = 1 THEN stack[k].path = Root ELSE stack[k].path \in ListedIn(disk, stack[k - 1].repo)
      BY <1>1, <1>4, <2>0 DEF Descent
    <3> QED
      BY <1>6, <3>1, <3>2
  <2>2. \A k \in 1..(n - 1) : stack'[k].repo # None => stack'[k].repo \in ReachIn(disk, {Root})
    BY <1>1, <1>4, <1>6, <2>0 DEF Descent
  <2>3. \A j, k \in 1..(n - 1) : j < k /\ stack'[k].repo # None
                                    => stack'[k].repo \in After(disk, stack'[j].repo)
    <3> SUFFICES ASSUME NEW j \in 1..(n - 1), NEW k \in 1..(n - 1), j < k, stack'[k].repo # None
                 PROVE  stack'[k].repo \in After(disk, stack'[j].repo)
      OBVIOUS
    <3>1. stack'[k].repo = stack[k].repo /\ stack'[j].repo = stack[j].repo
      BY <1>6
    <3>2. j \in 1..Len(stack) /\ k \in 1..Len(stack)
      BY <1>1, <1>4
    <3> QED
      BY <2>0, <3>1, <3>2 DEF Descent
  <2> QED
    BY <1>5, <2>1, <2>2, <2>3 DEF Descent
<1>20. \A S, p : S \subseteq DOMAIN stores /\ Opened(stores, S, p) => Opened(stores', S, p)
  BY <1>5 DEF Opened
<1>21. StoresComplete'
  <2>1. ASSUME NEW i \in DOMAIN stores PROVE StoreComplete(i)'
    <3>1. StoreComplete(i) /\ Kids(stores, i) \subseteq DOMAIN stores
      BY DEF OpenInv, StoresComplete, Adopted
    <3> QED
      BY <1>5, <1>7, <1>20, <3>1 DEF StoreComplete
  <2>2. StoreComplete(t)'
    <3>1. Top.repo \in ReachIn(disk, {Root})
      BY <1>1, <1>3, <1>8 DEF OpenInv, Descent
    <3>2. ToSet(Top.entries) = {}
      BY <1>3, ToSetFacts
    <3>3. CoveredIn(disk, Top.repo) /\ \A p \in ListedIn(disk, Top.repo) : Opened(stores, ToSet(Top.alternates), p)
      <4>1. AlternatesRead(n) /\ stack[n] = Top /\ ~(n < Len(stack))
        BY <1>1, <1>3, <1>9
      <4> QED
        BY <1>3, <3>2, <4>1 DEF AlternatesRead
    <3>4. ToSet(Top.alternates) \subseteq DOMAIN stores
      BY <1>1, <1>3 DEF OpenInv, Adopted
    <3> QED
      BY <1>5, <1>7, <1>8, <1>20, <3>1, <3>3, <3>4 DEF StoreComplete
  <2> QED
    BY <1>5, <2>1, <2>2 DEF StoresComplete
<1>22. ASSUME NEW k \in 1..(n - 1) PROVE AlternatesRead(k)'
  <2>1. AlternatesRead(k) /\ stack[k].pc = "alternates" /\ k < n /\ k + 1 \in 1..n
    <3>1. k \in 1..n /\ k < n /\ k + 1 \in 1..n
      BY <1>4
    <3>2. FrameOK(k) /\ AlternatesRead(k)
      BY <1>1, <1>9, <3>1 DEF OpenInv, StackOK
    <3> QED
      BY <1>1, <3>1, <3>2 DEF FrameOK
  <2>2. /\ CoveredIn(disk, stack[k].repo)
        /\ ToSet(stack[k].entries) \subseteq ListedIn(disk, stack[k].repo)
        /\ \A p \in ListedIn(disk, stack[k].repo) :
              \/ p \in ToSet(stack[k].entries)
              \/ p = stack[k + 1].path
              \/ Opened(stores, ToSet(stack[k].alternates), p)
    BY <2>1 DEF AlternatesRead
  <2>3. ToSet(stack[k].alternates) \subseteq DOMAIN stores
    BY <1>1, <1>4 DEF OpenInv, Adopted
  <2>4. ASSUME NEW p \in ListedIn(disk, stack[k].repo)
        PROVE  \/ p \in ToSet(stack'[k].entries)
               \/ k < n - 1 /\ p = stack'[k + 1].path
               \/ Opened(stores', ToSet(stack'[k].alternates), p)
    <3>1. CASE p \in ToSet(stack[k].entries)
      BY <1>6, <3>1
    <3>2. CASE Opened(stores, ToSet(stack[k].alternates), p)
      <4>1. Opened(stores', ToSet(stack[k].alternates), p)
        BY <1>20, <2>3, <3>2
      <4> QED
        BY <1>6, <4>1 DEF Opened
    <3>3. CASE p = stack[k + 1].path
      <4>1. CASE k < n - 1
        <5>1. k + 1 \in 1..(n - 1)
          BY <4>1
        <5> QED
          BY <1>6, <3>3, <4>1, <5>1
      <4>2. CASE k = n - 1
        <5>1. p = Top.path
          BY <1>3, <3>3, <4>2
        <5>2. stores'[t].repo = Common[p] /\ t \in ToSet(stack'[k].alternates)
          BY <1>5, <1>6, <1>8, <4>2, <5>1
        <5> QED
          BY <5>2 DEF Opened
      <4> QED
        BY <4>1, <4>2
    <3> QED
      BY <2>2, <3>1, <3>2, <3>3
  <2>5. /\ stack'[k].repo = stack[k].repo /\ ToSet(stack'[k].entries) = ToSet(stack[k].entries)
    BY <1>6
  <2> QED
    BY <1>5, <2>2, <2>4, <2>5 DEF AlternatesRead
<1>23. ChainInv'
  <2>1. ASSUME NEW r \in chain \ {Top.repo}
        PROVE  \E k \in 1..(n - 1) : stack'[k].pc = "alternates" /\ stack'[k].repo = r
    <3>1. PICK k \in 1..n : stack[k].pc = "alternates" /\ stack[k].repo = r
      BY <1>1, <1>9 DEF ChainInv
    <3>2. k # n
      BY <1>3, <3>1
    <3>3. k \in 1..(n - 1)
      BY <3>2
    <3> QED
      BY <1>6, <3>1, <3>3
  <2>2. chain' = chain \ {Top.repo}
    BY <1>3 DEF Return
  <2> QED
    BY <1>5, <2>1, <2>2 DEF ChainInv
<1>24. HeldInv'
  <2>1. \A h : h \in held <=>
            \/ \E i \in DOMAIN stores : h \in HandlesOf(disk, i, stores[i].repo, {})
            \/ \E k \in 1..n : h \in FrameHeld(disk, stack[k])
    BY <1>1, <1>3 DEF OpenInv, HeldInv
  <2>2. \A k \in 1..(n - 1) : FrameHeld(disk, stack'[k]) = FrameHeld(disk, stack[k])
    BY <1>6 DEF FrameHeld
  <2>3. FrameHeld(disk, stack[n]) = HandlesOf(disk, t, stores'[t].repo, {})
    BY <1>2, <1>3, <1>5, <1>8 DEF FrameHeld
  <2>4. \A k \in 1..n : k \in 1..(n - 1) \/ k = n
    OBVIOUS
  <2>5. ASSUME NEW h
        PROVE  h \in held <=>
                 \/ \E i \in DOMAIN stores \cup {t} : h \in HandlesOf(disk, i, stores'[i].repo, {})
                 \/ \E k \in 1..(n - 1) : h \in FrameHeld(disk, stack'[k])
    <3>1. (\E k \in 1..n : h \in FrameHeld(disk, stack[k]))
            <=> \/ \E k \in 1..(n - 1) : h \in FrameHeld(disk, stack'[k])
                \/ h \in HandlesOf(disk, t, stores'[t].repo, {})
      BY <1>1, <1>4, <2>2, <2>3, <2>4
    <3>2. (\E i \in DOMAIN stores \cup {t} : h \in HandlesOf(disk, i, stores'[i].repo, {}))
            <=> \/ \E i \in DOMAIN stores : h \in HandlesOf(disk, i, stores[i].repo, {})
                \/ h \in HandlesOf(disk, t, stores'[t].repo, {})
      BY <1>5
    <3> QED
      BY <2>1, <3>1, <3>2
  <2> QED
    BY <1>5, <2>5 DEF HeldInv
<1>25. Progress' /\ Excused'
  BY <1>3, <1>5, <1>9, <1>15, <1>17, <1>22, <1>23 DEF Progress, Excused
<1>26. Owned'
  <2>1. CASE n = 1
    BY <1>11, <2>1 DEF Owned
  <2>2. CASE n # 1
    <3>1. Opening'
      BY <1>3, <1>5, <1>11, <2>2 DEF Opening
    <3> QED
      BY <1>10, <1>16, <1>24, <1>25, <3>1, HandlesOwnedNext
  <2> QED
    BY <2>1, <2>2
<1> QED
  BY <1>10, <1>12, <1>13, <1>16, <1>18, <1>19, <1>21, <1>24, <1>25, <1>26 DEF OpenInv

\* An error return closes what the call and its alternates have open.
LEMMA OpenUnwindsInv ==
    ASSUME OpenInv, OpenUnwinds
    PROVE  OpenInv'
<1>1. /\ opc = "opening" /\ unwinding /\ stack' = Front(stack)
      /\ held' = held \ FrameHandles(Top) /\ chain' \subseteq chain
      /\ opc' = (IF Len(stack) = 1 THEN "failed" ELSE opc)
      /\ UNCHANGED <<disk, stores, unwinding, faults>>
  BY DEF OpenUnwinds, Unmarked
<1>2. PICK n \in Nat : n = Len(stack) /\ n # 0 /\ n \in 1..n /\ Top = stack[n]
  BY <1>1, TopFacts DEF OpenInv
<1>3. /\ stack' \in Seq(Frames) /\ Len(stack') = n - 1
      /\ \A k \in 1..(n - 1) : stack'[k] = stack[k]
  BY <1>1, <1>2, FrontFacts DEF OpenInv
<1>4. \A k \in 1..(n - 1) : k \in 1..n /\ k < n
  OBVIOUS
<1>5. OpenTypes'
  BY <1>1, <1>3 DEF OpenInv, OpenTypes
<1>6. stack' = <<>> <=> n = 1
  BY <1>2, <1>3
<1>7. Phases'
  BY <1>1, <1>2, <1>6 DEF OpenInv, Phases
<1>8. StackOK'
  <2>1. ASSUME NEW k \in 1..(n - 1) PROVE FrameOK(k)'
    <3>1. FrameOK(k) /\ stack[k].pc = "alternates" /\ stack'[k] = stack[k]
      BY <1>2, <1>3, <1>4 DEF OpenInv, StackOK, FrameOK
    <3> QED
      BY <1>1, <3>1 DEF FrameOK
  <2> QED
    BY <1>3, <2>1 DEF StackOK
<1>9. Adopted'
  <2>1. \A k \in 1..(n - 1) : \A j \in ToSet(stack'[k].alternates) :
            j \in DOMAIN stores /\ stack'[k].num < j
    BY <1>2, <1>3, <1>4 DEF OpenInv, Adopted
  <2> QED
    BY <1>1, <1>3, <2>1 DEF OpenInv, Adopted
<1>10. RootOpened' /\ StoresComplete' /\ Excused'
  <2>1. RootOpened'
    BY <1>1 DEF RootOpened
  <2>2. StoresComplete'
    BY <1>1 DEF OpenInv, StoresComplete, StoreComplete
  <2>3. Excused'
    <3>1. disk' = disk
      BY <1>1
    <3>2. Sound' = Sound /\ Cyclic' = Cyclic
      BY <3>1, SameVerdict
    <3> QED
      BY <1>1, <3>2 DEF OpenInv, Excused
  <2> QED
    BY <2>1, <2>2, <2>3
<1>11. Descent'
  <2>0. Descent
    BY DEF OpenInv
  <2>1. \A k \in 1..(n - 1) : IF k = 1 THEN stack'[k].path = Root
                              ELSE stack'[k].path \in ListedIn(disk, stack'[k - 1].repo)
    <3> SUFFICES ASSUME NEW k \in 1..(n - 1)
                 PROVE  IF k = 1 THEN stack'[k].path = Root
                        ELSE stack'[k].path \in ListedIn(disk, stack'[k - 1].repo)
      OBVIOUS
    <3>1. k # 1 => k - 1 \in 1..(n - 1)
      OBVIOUS
    <3>2. IF k = 1 THEN stack[k].path = Root ELSE stack[k].path \in ListedIn(disk, stack[k - 1].repo)
      BY <1>2, <1>4, <2>0 DEF Descent
    <3> QED
      BY <1>3, <3>1, <3>2
  <2>2. \A k \in 1..(n - 1) : stack'[k].repo # None => stack'[k].repo \in ReachIn(disk, {Root})
    BY <1>2, <1>3, <1>4, <2>0 DEF Descent
  <2>3. \A j, k \in 1..(n - 1) : j < k /\ stack'[k].repo # None
                                    => stack'[k].repo \in After(disk, stack'[j].repo)
    <3> SUFFICES ASSUME NEW j \in 1..(n - 1), NEW k \in 1..(n - 1), j < k, stack'[k].repo # None
                 PROVE  stack'[k].repo \in After(disk, stack'[j].repo)
      OBVIOUS
    <3>1. stack'[k] = stack[k] /\ stack'[j] = stack[j]
      BY <1>3
    <3>2. j \in 1..Len(stack) /\ k \in 1..Len(stack)
      BY <1>2, <1>4
    <3> QED
      BY <2>0, <3>1, <3>2 DEF Descent
  <2> QED
    BY <1>1, <1>3, <2>1, <2>2, <2>3 DEF Descent
<1>12. Progress' /\ HeldInv'
  BY <1>1 DEF Progress, HeldInv
<1>13. ASSUME NEW h \in held'
       PROVE  \E k \in 1..(n - 1) : ClosesAt(k, h)
  <2>1. PICK k \in 1..n : ClosesAt(k, h)
    BY <1>1, <1>2 DEF OpenInv, Owned
  <2>2. k # n
    <3> SUFFICES ASSUME k = n PROVE h \in FrameHandles(Top)
      BY <1>1
    <3>1. h[1] = Top.num \/ h[1] \in Tree(ToSet(Top.alternates))
      BY <1>2, <2>1, TreeIs DEF ClosesAt
    <3> QED
      BY <1>1, <3>1 DEF FrameHandles
  <2>3. k \in 1..(n - 1)
    BY <2>2
  <2> QED
    BY <2>1, <2>3
<1>14. Owned'
  <2>1. \A k \in 1..(n - 1) : \A h : ClosesAt(k, h)' <=> ClosesAt(k, h)
    BY <1>1, <1>3 DEF ClosesAt
  <2>2. CASE n = 1
    <3>1. 1..(n - 1) = {}
      BY <2>2
    <3> QED
      BY <1>1, <1>2, <1>13, <2>2, <3>1 DEF Owned
  <2>3. CASE n # 1
    BY <1>1, <1>2, <1>3, <1>13, <2>1, <2>3 DEF Owned
  <2> QED
    BY <2>2, <2>3
<1> QED
  BY <1>5, <1>7, <1>8, <1>9, <1>10, <1>11, <1>12, <1>14 DEF OpenInv

\* Any step of Open.
LEMMA OpenStepInv ==
    ASSUME OpenInv, OpenStep
    PROVE  OpenInv'
  BY ReadConfigInv, OpenBackendsInv, OpenPackFileInv, ReadAlternatesInv, OpenAlternateInv,
     OpenReturnsInv, ReadFailsInv, OpenUnwindsInv DEF OpenStep

\* Close closes everything.
LEMMA CloseInv ==
    ASSUME OpenInv, Close
    PROVE  OpenInv'
<1>1. /\ opc = "open" /\ opc' = "closed" /\ held' = held \ ClosedBy
      /\ UNCHANGED <<disk, stack, chain, stores, unwinding, faults>>
  BY DEF Close
<1>2. ~unwinding /\ stack = <<>>
  BY <1>1 DEF OpenInv, Phases
<1>3. Tree({1}) = DOMAIN stores
  BY <1>1, <1>2, StoresBelowRoot, TreeIs DEF OpenInv, Progress
<1>4. held' = {}
  <2> SUFFICES ASSUME NEW h \in held PROVE h \in ClosedBy
    BY <1>1
  <2>1. \E i \in DOMAIN stores : h \in HandlesOf(disk, i, stores[i].repo, {})
    BY <1>1, <1>2 DEF OpenInv, HeldInv
  <2>2. h[1] \in DOMAIN stores
    BY <2>1, HandleStore
  <2> QED
    BY <1>3, <2>2 DEF ClosedBy
<1>5. OpenTypes' /\ Phases' /\ StackOK' /\ Adopted' /\ RootOpened'
  <2>1. OpenTypes' /\ Phases' /\ RootOpened'
    BY <1>1, <1>2 DEF OpenInv, OpenTypes, Phases, RootOpened
  <2>2. StackOK' /\ Adopted'
    BY <1>1 DEF OpenInv, StackOK, FrameOK, Adopted
  <2> QED
    BY <2>1, <2>2
<1>6. Descent' /\ StoresComplete'
  BY <1>1 DEF OpenInv, Descent, StoresComplete, StoreComplete
<1>7. Progress'
  <2>1. Numbering' /\ ChainInv'
    BY <1>1, <1>2 DEF OpenInv, Progress, Numbering, NumStores, ChainInv
  <2>2. NoOrphan'
    BY <1>1, <1>2 DEF OpenInv, Progress, NoOrphan
  <2>3. \A k \in 1..Len(stack') : AlternatesRead(k)'
    BY <1>1, <1>2
  <2> QED
    BY <2>1, <2>2, <2>3 DEF Progress
<1>8. Excused' /\ HeldInv' /\ Owned'
  BY <1>1, <1>2, <1>4 DEF Excused, HeldInv, Owned
<1> QED
  BY <1>5, <1>6, <1>7, <1>8 DEF OpenInv

\* What happens after Open leaves it alone.
LEMMA OpenUnchanged ==
    ASSUME OpenInv, UNCHANGED openingVars
    PROVE  OpenInv'
<1>1. UNCHANGED <<disk, opc, stack, chain, stores, unwinding, faults, held>>
  BY DEF openingVars
<1>2. OpenTypes' /\ Phases' /\ RootOpened'
  BY <1>1 DEF OpenInv, OpenTypes, Phases, RootOpened
<1>3. StackOK' /\ Adopted'
  BY <1>1 DEF OpenInv, StackOK, FrameOK, Adopted
<1>4. Descent' /\ StoresComplete'
  BY <1>1 DEF OpenInv, Descent, StoresComplete, StoreComplete
<1>5. Progress'
  <2>1. (Numbering /\ NoOrphan /\ ChainInv) => (Numbering' /\ NoOrphan' /\ ChainInv')
    BY <1>1 DEF Numbering, NumStores, NoOrphan, ChainInv
  <2>2. \A k : AlternatesRead(k) => AlternatesRead(k)'
    BY <1>1 DEF AlternatesRead
  <2> QED
    BY <1>1, <2>1, <2>2 DEF OpenInv, Progress
<1>6. Excused'
  <2>1. disk' = disk
    BY <1>1
  <2>2. Sound' = Sound /\ Cyclic' = Cyclic
    BY <2>1, SameVerdict
  <2> QED
    BY <1>1, <2>2 DEF OpenInv, Excused
<1>7. HeldInv' /\ Owned'
  BY <1>1 DEF OpenInv, HeldInv, Owned, ClosesAt
<1> QED
  BY <1>2, <1>3, <1>4, <1>5, <1>6, <1>7 DEF OpenInv

\* Any step at all.
LEMMA OpenNextInv == OpenInv /\ [ObjNext]_objVars => OpenInv'
<1> SUFFICES ASSUME OpenInv, [ObjNext]_objVars PROVE OpenInv'
  OBVIOUS
<1>1. CASE OpenStep
  BY <1>1, OpenStepInv
<1>2. CASE Close
  BY <1>2, CloseInv
<1>3. CASE UNCHANGED openingVars
  BY <1>3, OpenUnchanged
<1>4. ASSUME NEW c \in Callers, CallStep(c) PROVE UNCHANGED openingVars
  BY <1>4 DEF CallStep, FindLoose, FindPacked, WalkChain, LookupCached, LookupBase
<1>5. ASSUME NEW c \in Callers, NEW o \in Oids, Ask(c, o) PROVE UNCHANGED openingVars
  BY <1>5 DEF Ask
<1>6. CASE Finished \/ UNCHANGED objVars
  BY <1>3, <1>6 DEF Finished, objVars
<1> QED
  BY <1>1, <1>2, <1>3, <1>4, <1>5, <1>6 DEF ObjNext

\* Whatever the alternates files say and whichever reads fail, the opening is
\* a walk over the graph of the alternates that leaves a tree of stores.
THEOREM OpeningInvariant == ObjSpec => []OpenInv
<1>1. ObjInit => OpenInv
  BY OpenInitInv
<1>2. OpenInv /\ [ObjNext]_objVars => OpenInv'
  BY OpenNextInv
<1> QED
  BY <1>1, <1>2, PTL DEF ObjSpec

\* An open store has every handle of its tree open and no other; a failed
\* Open and a Close leave none behind, for every graph of alternates and every
\* read that may fail (store.go:140-147 and 231-262, alternates.go:45-48).
THEOREM HandlesAccountedHolds == ObjSpec => []HandlesAccounted
<1>1. OpenInv => HandlesAccounted
  <2> SUFFICES ASSUME OpenInv PROVE HandlesAccounted
    OBVIOUS
  <2>1. ASSUME opc = "open" PROVE held = UNION {NeededBy(i) : i \in Tree({1})}
    <3>1. ~unwinding /\ stack = <<>>
      BY <2>1 DEF OpenInv, Phases
    <3>2. Tree({1}) = DOMAIN stores
      BY <2>1, <3>1, StoresBelowRoot, TreeIs DEF OpenInv, Progress
    <3>3. \A h : h \in held <=> \E i \in DOMAIN stores : h \in HandlesOf(disk, i, stores[i].repo, {})
      BY <2>1, <3>1 DEF OpenInv, HeldInv
    <3>4. ASSUME NEW i \in DOMAIN stores PROVE NeededBy(i) = HandlesOf(disk, i, stores[i].repo, {})
      BY DEF NeededBy, HandlesOf, MidxHandle, Repo
    <3> QED
      BY <3>2, <3>3, <3>4
  <2>2. opc \in {"failed", "closed"} => held = {}
    BY DEF OpenInv, Owned
  <2> QED
    BY <2>1, <2>2 DEF HandlesAccounted
<1> QED
  BY <1>1, OpeningInvariant, PTL

\* Once Open has returned, the stores are over the repositories that can be
\* reached, and no repository can be reached from itself.
LEMMA OpenedAll ==
    ASSUME OpenInv, opc \in {"open", "closed"}
    PROVE  /\ Reachable = {stores[i].repo : i \in DOMAIN stores}
           /\ Sound /\ ~Cyclic /\ faults = 0
<1>1. /\ disk \in Disks /\ faults \in Nat /\ ~unwinding /\ faults = 0
      /\ DOMAIN stores \subseteq Nat /\ IsFiniteSet(DOMAIN stores)
      /\ \A i \in DOMAIN stores : stores[i].repo \in Repos
  BY DEF OpenInv, OpenTypes, Phases, StoreRecs
<1>2. 1 \in DOMAIN stores /\ stores[1].repo = Root /\ {Root} \subseteq Repos
  BY ReposAssumption DEF OpenInv, RootOpened
<1>3. ASSUME NEW i \in DOMAIN stores, NEW p \in ListedIn(disk, stores[i].repo)
      PROVE  \E j \in DOMAIN stores : i < j /\ stores[j].repo = Common[p] /\ Common[p] # None
  <2>1. PICK j \in Kids(stores, i) : stores[j].repo = Common[p]
    BY DEF OpenInv, StoresComplete, StoreComplete, Opened
  <2>2. j \in DOMAIN stores /\ i < j
    BY DEF OpenInv, Adopted
  <2> QED
    BY <1>1, <2>1, <2>2, ObjectsAssumption
<1>4. ReachIn(disk, {Root}) = {stores[i].repo : i \in DOMAIN stores}
  <2>1. {stores[i].repo : i \in DOMAIN stores} \subseteq ReachIn(disk, {Root})
    BY DEF OpenInv, StoresComplete, StoreComplete
  <2>2. PICK X : X = {stores[i].repo : i \in DOMAIN stores}
    OBVIOUS
  <2>3. {Root} \subseteq X /\ X \subseteq Repos
    BY <1>1, <1>2, <2>2
  <2>4. ASSUME NEW r \in X PROVE BorrowedIn(disk, r) \subseteq X
    BY <1>3, <2>2 DEF BorrowedIn
  <2>5. ReachIn(disk, {Root}) \subseteq X
    BY <1>1, <1>2, <2>3, <2>4, ReachFacts
  <2> QED
    BY <2>1, <2>2, <2>5
<1>5. Reachable = {stores[i].repo : i \in DOMAIN stores}
  BY <1>4, ReachIs
<1>6. Sound
  <2>1. None \notin Borrowed(Reachable)
    <3> SUFFICES ASSUME NEW r \in Reachable, NEW p \in ToSet(disk.alternates[r]) PROVE Common[p] # None
      BY DEF Borrowed
    <3>1. PICK i \in DOMAIN stores : r = stores[i].repo
      BY <1>5
    <3> QED
      BY <1>3, <3>1 DEF ListedIn
  <2>2. \A r \in Reachable : MidxComplete(r)
    BY <1>5 DEF OpenInv, StoresComplete, StoreComplete, CoveredIn, MidxComplete
  <2> QED
    BY <2>1, <2>2 DEF Sound
<1>7. ~Cyclic
  <2> SUFFICES ASSUME NEW r \in Reachable, r \in After(disk, r) PROVE FALSE
    BY ReachIs DEF Cyclic
  <2>1. PICK T : T = {i \in DOMAIN stores : stores[i].repo = r}
    OBVIOUS
  <2>2. T # {} /\ T \subseteq DOMAIN stores
    BY <1>5, <2>1
  <2>3. PICK m \in T : \A k \in T : k <= m
    BY <1>1, <2>2, GreatestNumber
  <2>4. m \in DOMAIN stores /\ stores[m].repo = r /\ r \in Repos
    BY <1>1, <2>1
  <2>5. PICK X : X = {stores[i].repo : i \in {j \in DOMAIN stores : m < j}}
    OBVIOUS
  <2>6. X \subseteq Repos
    BY <1>1, <2>5
  <2>7. BorrowedIn(disk, r) \subseteq X
    BY <1>3, <2>4, <2>5 DEF BorrowedIn
  <2>8. ASSUME NEW q \in X PROVE BorrowedIn(disk, q) \subseteq X
    <3>1. PICK i \in DOMAIN stores : m < i /\ q = stores[i].repo
      BY <2>5
    <3> SUFFICES ASSUME NEW p \in ListedIn(disk, q), Common[p] # None PROVE Common[p] \in X
      BY DEF BorrowedIn
    <3>2. PICK j \in DOMAIN stores : i < j /\ stores[j].repo = Common[p]
      BY <1>3, <3>1
    <3>3. m < j
      <4>1. m \in Nat /\ i \in Nat /\ j \in Nat
        BY <1>1, <2>4
      <4> QED
        BY <3>1, <3>2, <4>1
    <3> QED
      BY <2>5, <3>2, <3>3
  <2>9. BorrowedIn(disk, r) \subseteq Repos
    BY <1>1, <2>4, ListedTypes
  <2>10. After(disk, r) \subseteq X
    BY <1>1, <2>6, <2>7, <2>8, <2>9, ReachFacts DEF After
  <2>11. PICK i \in DOMAIN stores : m < i /\ stores[i].repo = r
    BY <2>5, <2>10
  <2>12. i <= m /\ i \in Nat /\ m \in Nat
    BY <1>1, <2>1, <2>3, <2>4, <2>11
  <2> QED
    BY <2>11, <2>12
<1> QED
  BY <1>1, <1>5, <1>6, <1>7

\* Open succeeds exactly when every repository reachable over alternates can
\* be read and none is reachable from itself: for every graph of alternates,
\* repositories under several names included (alternates.go:87-100,
\* store.go:168-179).
THEOREM OpenExactHolds == ObjSpec => []OpenExact
<1>1. OpenInv => OpenExact
  <2> SUFFICES ASSUME OpenInv PROVE OpenExact
    OBVIOUS
  <2>1. opc = "failed" => ~Sound \/ Cyclic \/ faults > 0
    BY DEF OpenInv, Phases, Excused
  <2> QED
    BY <2>1, OpenedAll DEF OpenExact
<1> QED
  BY <1>1, OpeningInvariant, PTL

(***************************************************************************)
(* ObjectInfo.                                                             *)
(***************************************************************************)
Kinds == [kind : {"ok", "corrupt", "missing"}, type : {TypeOf[o] : o \in Oids} \cup {Wrong, None},
          size : Oids \cup {None}]

CallRecs ==
    [pc : {"idle", "loose", "packs", "walk", "cached", "scan"}, oid : Oids \cup {None},
     todo : Seq(Nat), pack : Nat, at : Oids \cup {None}, base : Oids \cup {None}, hops : Nat,
     size : Oids \cup {None}, answer : Kinds \cup {None}]

\* The repository a call is looking at.
At(x) == stores[Head(x.todo)].repo

\* A call in progress: the stores that are left to be asked are open ones.
Active(x) ==
    x.pc # "idle" =>
        /\ opc = "open" /\ x.oid \in Oids /\ x.answer = None
        /\ x.todo \in Seq(DOMAIN stores) /\ x.todo # <<>>

\* A store that has the object is below one that is still to be asked.
Unasked(x) ==
    x.pc \in {"loose", "packs"} =>
        /\ x.pack = 0 /\ x.size = None /\ x.hops = 0
        /\ \A i \in DOMAIN stores :
              Present(stores[i].repo, x.oid) => i \in TreeOf(stores, ToSet(x.todo))

\* The store that is asked has the object, or has no loose file of it.
Found(x) ==
    /\ x.pc = "packs" => disk.loose[At(x)][x.oid] = "absent"
    /\ x.pc \in {"walk", "cached", "scan"} => Present(At(x), x.oid)

\* The values of the recursive function that Resolves defines.
IsGood(g, r) ==
    g = [d \in 0..MaxChainDepth |->
           IF d = 0 THEN {}
           ELSE {at \in (DOMAIN disk.packs[r]) \X Oids :
                   LET e == disk.packs[r][at[1]].objects[at[2]]
                   IN /\ e # None
                      /\ \/ e.kind = "whole"
                         \/ e.kind = "ofs" /\ <<at[1], e.base>> \in g[d - 1]
                         \/ e.kind = "ref" /\ <<Lookup(r, e.base), e.base>> \in g[d - 1]}]

\* The object a walk has come to, and where its entry is.
Where(x) == IF x.pc = "walk" THEN x.at ELSE x.base
Position(x) == IF x.pc = "walk" THEN <<x.pack, x.at>> ELSE <<Lookup(At(x), x.base), x.base>>

\* Every entry that can be read is covered by a checksum or undamaged.
Protected == VerifyCRC /\ Checked /\ DamageAtHeads

\* A walk stands on an entry of an object of the type that was asked for, and
\* knows the size from the first header.
Standing(x) ==
    x.pc \in {"walk", "cached", "scan"} =>
        /\ Where(x) \in Oids /\ TypeOf[Where(x)] = TypeOf[x.oid]
        /\ x.pc = "walk" => x.pack \in Holding(At(x), x.at)
        /\ IF x.pc = "walk" /\ x.size = None THEN x.at = x.oid ELSE x.size = x.oid

\* A checksum has covered the first entry, and no base is damaged.
Covered(x) ==
    Protected =>
        /\ x.pc = "walk" => ~Rotten(At(x), x.pack, x.at)
        /\ x.pc \in {"cached", "scan"} => \A d \in disk.rot : d[3] # x.base

\* Where nothing is damaged, as many headers are left as the chain needs.
Resolving(x) ==
    x.pc \in {"walk", "cached", "scan"} =>
        /\ x.hops <= MaxChainDepth
        /\ Healthy(At(x)) =>
              \E g : IsGood(g, At(x)) /\ Position(x) \in g[MaxChainDepth - x.hops]

\* What the answer a to the question for o must say.
AnswerRight(a, o) ==
    /\ a = Missing <=> \A r \in Reachable : ~Present(r, o)
    /\ a.kind = "ok" => a = Ok(TypeOf[o], o) \/ ~Protected
    /\ a = Corrupt => \E r \in Reachable : ~Healthy(r)

CallOK(x) ==
    /\ Active(x) /\ Unasked(x) /\ Found(x) /\ Standing(x) /\ Covered(x) /\ Resolving(x)
    /\ x.answer # None => AnswerRight(x.answer, x.oid)

\* What the cache remembers of a base is what a lookup would find.
CacheInv ==
    /\ cache \in [DOMAIN stores -> [Oids -> Nat \cup {None}]]
    /\ \A i \in DOMAIN stores : \A b \in Oids :
          cache[i][b] # None => cache[i][b] = Lookup(stores[i].repo, b)

CallsInv ==
    /\ call \in [Callers -> CallRecs]
    /\ \A c \in Callers : \A x \in CallRecs : x = call[c] => CallOK(x)
    /\ CacheInv

\* Among several packs there is a first.
LEMMA FirstExists ==
    ASSUME disk \in Disks, NEW r \in Repos, NEW ps, ps \subseteq DOMAIN disk.packs[r], ps # {}
    PROVE  FirstOf(r, ps) \in ps
<1>1. disk.packs[r] \in Seq(PackFiles)
  BY DisksAssumption
<1>2. /\ ps \subseteq Nat /\ IsFiniteSet(ps)
      /\ \A p \in ps : disk.packs[r][p].mtime \in Nat
  <2>1. PICK n \in Nat : n = Len(disk.packs[r]) /\ DOMAIN disk.packs[r] = 1..n
    BY <1>1
  <2>2. IsFiniteSet(1..n)
    BY FS_Interval
  <2>3. IsFiniteSet(ps)
    BY <2>1, <2>2, FS_Subset
  <2>4. ASSUME NEW p \in ps PROVE p \in Nat /\ disk.packs[r][p].mtime \in Nat
    <3>1. p \in 1..n
      BY <2>1
    <3>2. disk.packs[r][p] \in PackFiles
      BY <1>1, <2>1, <3>1
    <3> QED
      BY <3>1, <3>2 DEF PackFiles
  <2> QED
    BY <2>3, <2>4
<1>3. PICK m \in Nat : /\ \E p \in ps : disk.packs[r][p].mtime = m
                       /\ \A p \in ps : disk.packs[r][p].mtime <= m
  <2>1. PICK f : f = [p \in ps |-> disk.packs[r][p].mtime]
    OBVIOUS
  <2>2. PICK M : M = {f[p] : p \in ps}
    OBVIOUS
  <2>3. f \in Surjection(ps, M)
    BY <2>1, <2>2 DEF Surjection
  <2>4. IsFiniteSet(M)
    BY <1>2, <2>3, FS_Surjection
  <2>5. M \subseteq Nat /\ M # {}
    BY <1>2, <2>1, <2>2
  <2>6. PICK m \in M : \A k \in M : k <= m
    BY <2>4, <2>5, GreatestNumber
  <2> QED
    BY <2>1, <2>2, <2>5, <2>6
<1>4. PICK T : T = {p \in ps : disk.packs[r][p].mtime = m}
  OBVIOUS
<1>5. T \subseteq Nat /\ T # {}
  BY <1>2, <1>3, <1>4
<1>6. PICK p \in T : \A q \in T : p <= q
  BY <1>5, LeastNumber
<1>7. ASSUME NEW q \in ps PROVE Precedes(r, p, q)
  <2>1. disk.packs[r][q].mtime \in Nat /\ disk.packs[r][q].mtime <= m /\ disk.packs[r][p].mtime = m
    BY <1>2, <1>3, <1>4
  <2>2. CASE disk.packs[r][q].mtime = m
    BY <1>4, <1>6, <2>1, <2>2 DEF Precedes
  <2>3. CASE disk.packs[r][q].mtime # m
    <3>1. disk.packs[r][p].mtime > disk.packs[r][q].mtime
      BY <2>1, <2>3
    <3> QED
      BY <3>1 DEF Precedes
  <2> QED
    BY <2>2, <2>3
<1>8. p \in ps /\ \A q \in ps : Precedes(r, p, q)
  BY <1>4, <1>7
<1> QED
  BY <1>8, Zenon DEF FirstOf

\* Lookup finds a pack that has the object, if there is one.
LEMMA LookupFacts ==
    ASSUME disk \in Disks, NEW r \in Repos, NEW o
    PROVE  /\ Lookup(r, o) = 0 => Holding(r, o) = {}
           /\ Lookup(r, o) # 0 => Lookup(r, o) \in Holding(r, o)
           /\ Lookup(r, o) \in Nat
           /\ Holding(r, o) \subseteq Nat \ {0}
<1>1. Holding(r, o) \subseteq DOMAIN disk.packs[r]
  BY DEF Holding
<1>2. DOMAIN disk.packs[r] \subseteq Nat \ {0}
  <2>1. disk.packs[r] \in Seq(PackFiles)
    BY DisksAssumption
  <2> QED
    BY <2>1
<1> DEFINE covered == Holding(r, o) \cap disk.midx[r]
           others == Holding(r, o) \ disk.midx[r]
<1>3. Lookup(r, o) = IF covered # {} THEN FirstOf(r, covered)
                     ELSE IF others # {} THEN FirstOf(r, others) ELSE 0
  BY DEF Lookup
<1>4. covered # {} => FirstOf(r, covered) \in Holding(r, o)
  <2>1. covered \subseteq DOMAIN disk.packs[r]
    BY <1>1
  <2>2. covered # {} => FirstOf(r, covered) \in covered
    <3> HIDE DEF covered
    <3> QED
      BY <2>1, FirstExists
  <2> QED
    BY <2>2
<1>5. others # {} => FirstOf(r, others) \in Holding(r, o)
  <2>1. others \subseteq DOMAIN disk.packs[r]
    BY <1>1
  <2>2. others # {} => FirstOf(r, others) \in others
    <3> HIDE DEF others
    <3> QED
      BY <2>1, FirstExists
  <2> QED
    BY <2>2
<1>6. covered = {} /\ others = {} => Holding(r, o) = {}
  OBVIOUS
<1> HIDE DEF covered, others
<1> QED
  BY <1>1, <1>2, <1>3, <1>4, <1>5, <1>6

(***************************************************************************)
(* What happens to one call leaves the others alone.                       *)
(***************************************************************************)
LEMMA SameAnswer ==
    ASSUME disk' = disk, NEW a, NEW o
    PROVE  AnswerRight(a, o)' <=> AnswerRight(a, o)
<1>1. Reachable' = Reachable
  BY Zenon DEF Reachable, ReachableFrom, Borrowed
<1>2. \A r : Present(r, o)' <=> Present(r, o)
  BY DEF Present, Holding
<1>3. \A r : Healthy(r)' <=> Healthy(r)
  BY SMT DEF Healthy, Rotten, Resolves, Lookup, FirstOf, Holding, Precedes
<1>4. Protected' <=> Protected
  BY DEF Protected, Checked, DamageAtHeads
<1> QED
  BY <1>1, <1>2, <1>3, <1>4 DEF AnswerRight

\* A call is not affected by what leaves the disk and the stores alone.
LEMMA CallKept ==
    ASSUME UNCHANGED <<disk, opc, stores>>, NEW x, CallOK(x)
    PROVE  CallOK(x)'
<1>1. At(x)' = At(x)
  BY DEF At
<1>2. Active(x)'
  BY DEF CallOK, Active
<1>3. Unasked(x)'
  <2>1. \A r : Present(r, x.oid)' <=> Present(r, x.oid)
    BY DEF Present, Holding
  <2> QED
    BY <2>1 DEF CallOK, Unasked
<1>4. Found(x)'
  <2>1. \A r : Present(r, x.oid)' <=> Present(r, x.oid)
    BY DEF Present, Holding
  <2> QED
    BY <1>1, <2>1 DEF CallOK, Found
<1>5. Standing(x)'
  <2>1. \A r, o : Holding(r, o)' = Holding(r, o)
    BY DEF Holding
  <2> QED
    BY <1>1, <2>1 DEF CallOK, Standing, Where
<1>6. Covered(x)'
  <2>1. Protected' <=> Protected
    BY DEF Protected, Checked, DamageAtHeads
  <2>2. \A r, p, o : Rotten(r, p, o)' <=> Rotten(r, p, o)
    BY DEF Rotten
  <2> QED
    BY <1>1, <2>1, <2>2 DEF CallOK, Covered
<1>7. Resolving(x)'
  <2>1. \A r : Healthy(r)' <=> Healthy(r)
    BY SMT DEF Healthy, Rotten, Resolves, Lookup, FirstOf, Holding, Precedes
  <2>2. \A r, o : Lookup(r, o)' = Lookup(r, o)
    BY SMT DEF Lookup, FirstOf, Holding, Precedes
  <2>3. \A g, r : IsGood(g, r)' <=> IsGood(g, r)
    BY SMT DEF IsGood, Lookup, FirstOf, Holding, Precedes
  <2>4. Position(x)' = Position(x)
    BY <1>1, <2>2 DEF Position
  <2> QED
    BY <1>1, <2>1, <2>3, <2>4 DEF CallOK, Resolving
<1>8. (x.answer # None => AnswerRight(x.answer, x.oid))'
  BY SameAnswer DEF CallOK
<1> QED
  BY <1>2, <1>3, <1>4, <1>5, <1>6, <1>7, <1>8 DEF CallOK

\* A call that is not in progress does not look at the stores.
LEMMA IdleKept ==
    ASSUME disk' = disk, NEW x, CallOK(x), x.pc = "idle"
    PROVE  CallOK(x)'
<1>1. Active(x)' /\ Unasked(x)' /\ Found(x)' /\ Standing(x)' /\ Covered(x)' /\ Resolving(x)'
  BY DEF Active, Unasked, Found, Standing, Covered, Resolving
<1>2. (x.answer # None => AnswerRight(x.answer, x.oid))'
  BY SameAnswer DEF CallOK
<1> QED
  BY <1>1, <1>2 DEF CallOK

\* Nor is the cache.
LEMMA CacheKept ==
    ASSUME CacheInv, UNCHANGED <<disk, stores, cache>>
    PROVE  CacheInv'
<1>1. \A r, o : Lookup(r, o)' = Lookup(r, o)
  BY SMT DEF Lookup, FirstOf, Holding, Precedes
<1> QED
  BY <1>1 DEF CacheInv

\* One caller goes on.
LEMMA CallMoves ==
    ASSUME CallsInv, UNCHANGED openingVars, NEW c \in Callers, NEW y \in CallRecs,
           call' = [call EXCEPT ![c] = y], CallOK(y)
    PROVE  /\ call' \in [Callers -> CallRecs]
           /\ \A e \in Callers : \A x \in CallRecs : x = call'[e] => CallOK(x)'
<1>1. UNCHANGED <<disk, opc, stores>>
  BY DEF openingVars
<1>2. call' \in [Callers -> CallRecs]
  BY DEF CallsInv
<1>3. ASSUME NEW e \in Callers, NEW x \in CallRecs, x = call'[e] PROVE CallOK(x)'
  <2>1. CallOK(x)
    BY <1>3 DEF CallsInv
  <2> QED
    BY <1>1, <2>1, CallKept
<1> QED
  BY <1>2, <1>3

\* The call moves on and the cache stays.
LEMMA CallMovesInv ==
    ASSUME CallsInv, UNCHANGED <<openingVars, cache>>, NEW c \in Callers, NEW y \in CallRecs,
           call' = [call EXCEPT ![c] = y], CallOK(y)
    PROVE  CallsInv'
<1>1. UNCHANGED openingVars /\ UNCHANGED <<disk, stores, cache>>
  BY DEF openingVars
<1>2. CacheInv'
  BY <1>1, CacheKept DEF CallsInv
<1> QED
  BY <1>1, <1>2, CallMoves DEF CallsInv

(***************************************************************************)
(* The steps of a call.                                                    *)
(***************************************************************************)
\* A call in progress asks an open store, over a repository that can be
\* reached.
LEMMA AskedFacts ==
    ASSUME OpenInv, NEW x \in CallRecs, CallOK(x), x.pc # "idle"
    PROVE  /\ opc = "open" /\ disk \in Disks /\ x.oid \in Oids /\ x.answer = None
           /\ Head(x.todo) \in DOMAIN stores /\ Tail(x.todo) \in Seq(DOMAIN stores)
           /\ ToSet(x.todo) = {Head(x.todo)} \cup ToSet(Tail(x.todo))
           /\ At(x) \in Repos /\ At(x) \in Reachable
<1>1. /\ opc = "open" /\ disk \in Disks /\ x.oid \in Oids /\ x.answer = None
      /\ x.todo \in Seq(DOMAIN stores) /\ x.todo # <<>>
  BY DEF CallOK, Active, OpenInv, OpenTypes
<1>2. Head(x.todo) \in DOMAIN stores /\ Tail(x.todo) \in Seq(DOMAIN stores)
  BY <1>1, HeadTailProperties
<1>3. ToSet(x.todo) = {Head(x.todo)} \cup ToSet(Tail(x.todo))
  BY <1>1, ToSetFacts
<1>4. \A i \in DOMAIN stores : stores[i].repo \in Repos
  BY DEF OpenInv, OpenTypes, StoreRecs
<1>5. \A i \in DOMAIN stores : stores[i].repo \in Reachable
  BY <1>1, OpenedAll
<1> QED
  BY <1>1, <1>2, <1>3, <1>4, <1>5 DEF At

\* A call returns.
LEMMA AnswerGiven ==
    ASSUME NEW x \in CallRecs, x.oid \in Oids, NEW a \in Kinds, AnswerRight(a, x.oid)
    PROVE  /\ [Idle EXCEPT !.oid = x.oid, !.answer = a] \in CallRecs
           /\ CallOK([Idle EXCEPT !.oid = x.oid, !.answer = a])
<1>1. PICK y : y = [Idle EXCEPT !.oid = x.oid, !.answer = a]
  OBVIOUS
<1>2. y \in CallRecs /\ y.pc = "idle" /\ y.oid = x.oid /\ y.answer = a
  <2>0. <<>> \in Seq(Nat)
    OBVIOUS
  <2>1. PICK t \in Seq(Nat) : t = <<>>
    BY <2>0, Zenon
  <2>2. y = [pc |-> "idle", oid |-> x.oid, todo |-> t, pack |-> 0, at |-> None,
             base |-> None, hops |-> 0, size |-> None, answer |-> a]
    BY <1>1, <2>1 DEF Idle
  <2> QED
    BY <2>1, <2>2 DEF CallRecs
<1>3. Active(y) /\ Unasked(y) /\ Found(y) /\ Standing(y) /\ Covered(y) /\ Resolving(y)
  BY <1>2 DEF Active, Unasked, Found, Standing, Covered, Resolving
<1>4. CallOK(y)
  BY <1>2, <1>3 DEF CallOK
<1> QED
  BY <1>1, <1>2, <1>4

\* The object is corrupt: there is one, in a repository with damage.
LEMMA CorruptRight ==
    ASSUME NEW r \in Reachable, NEW o, Present(r, o), ~Healthy(r)
    PROVE  Corrupt \in Kinds /\ AnswerRight(Corrupt, o)
<1>1. Corrupt # Missing /\ Corrupt.kind # "ok"
  BY DEF Corrupt, Missing
<1>2. Corrupt \in Kinds
  BY DEF Corrupt, Kinds
<1> QED
  BY <1>1, <1>2 DEF AnswerRight

\* The object is described.
LEMMA OkRight ==
    ASSUME NEW r \in Reachable, NEW o \in Oids, Present(r, o),
           NEW t \in {TypeOf[q] : q \in Oids} \cup {Wrong}, Protected => t = TypeOf[o]
    PROVE  Ok(t, o) \in Kinds /\ AnswerRight(Ok(t, o), o)
<1>1. Ok(t, o) # Missing /\ Ok(t, o) # Corrupt
  BY DEF Corrupt, Missing, Ok
<1>2. Ok(t, o) \in Kinds
  BY DEF Ok, Kinds
<1>3. Protected => Ok(t, o) = Ok(TypeOf[o], o)
  OBVIOUS
<1> QED
  BY <1>1, <1>2, <1>3 DEF AnswerRight

\* ObjectInfo begins with the first store, below which all the others are.
LEMMA AskInv ==
    ASSUME OpenInv, CallsInv, NEW c \in Callers, NEW o \in Oids, Ask(c, o)
    PROVE  CallsInv'
<1>1. PICK y : y = [Idle EXCEPT !.pc = "loose", !.oid = o, !.todo = <<1>>]
  OBVIOUS
<1>2. /\ opc = "open" /\ UNCHANGED <<openingVars, cache>>
      /\ call' = [call EXCEPT ![c] = y]
  BY <1>1 DEF Ask, Goto
<1>3. /\ y \in CallRecs /\ y.pc = "loose" /\ y.oid = o /\ y.todo = <<1>> /\ y.answer = None
      /\ y.pack = 0 /\ y.size = None /\ y.hops = 0
  <2>0. <<1>> \in Seq(Nat)
    OBVIOUS
  <2>1. PICK t \in Seq(Nat) : t = <<1>>
    BY <2>0, Zenon
  <2>2. y = [pc |-> "loose", oid |-> o, todo |-> t, pack |-> 0, at |-> None,
             base |-> None, hops |-> 0, size |-> None, answer |-> None]
    BY <1>1, <2>1 DEF Idle
  <2> QED
    BY <2>1, <2>2 DEF CallRecs
<1>4. 1 \in DOMAIN stores
  BY <1>2 DEF OpenInv, RootOpened
<1>5. ToSet(<<1>>) = {1}
  BY DEF ToSet
<1>6. TreeOf(stores, {1}) = DOMAIN stores
  <2>1. ~unwinding
    BY <1>2 DEF OpenInv, Phases
  <2> QED
    BY <1>2, <2>1, StoresBelowRoot DEF OpenInv, Progress
<1>7. Active(y)
  BY <1>2, <1>3, <1>4 DEF Active
<1>8. Unasked(y)
  BY <1>3, <1>5, <1>6 DEF Unasked
<1>9. Found(y) /\ Standing(y) /\ Covered(y) /\ Resolving(y)
  BY <1>3 DEF Found, Standing, Covered, Resolving
<1>10. CallOK(y)
  BY <1>3, <1>7, <1>8, <1>9 DEF CallOK
<1> QED
  BY <1>2, <1>3, <1>10, CallMovesInv

\* The call of c.
LEMMA CallOf ==
    ASSUME CallsInv, NEW c \in Callers
    PROVE  call[c] \in CallRecs /\ CallOK(call[c])
  BY DEF CallsInv

\* A loose file answers; without one the packs are next.
LEMMA FindLooseInv ==
    ASSUME OpenInv, CallsInv, NEW c \in Callers, FindLoose(c)
    PROVE  CallsInv'
<1>1. PICK x \in CallRecs : x = call[c] /\ CallOK(x)
  BY CallOf
<1>2. x.pc = "loose" /\ UNCHANGED <<openingVars, cache>>
  BY <1>1 DEF FindLoose, In
<1>3. /\ disk \in Disks /\ x.oid \in Oids /\ At(x) \in Repos /\ At(x) \in Reachable
  BY <1>1, <1>2, AskedFacts
<1>4. Repo(Asked(c)) = At(x)
  BY <1>1 DEF Repo, Asked, At
<1>5. \/ disk.loose[At(x)][x.oid] = "bad" /\ Answer(c, Corrupt)
      \/ disk.loose[At(x)][x.oid] = "present" /\ Answer(c, Ok(TypeOf[x.oid], x.oid))
      \/ disk.loose[At(x)][x.oid] = "absent" /\ Goto(c, [x EXCEPT !.pc = "packs"])
  BY <1>1, <1>4 DEF FindLoose
<1>6. CASE disk.loose[At(x)][x.oid] = "bad" /\ Answer(c, Corrupt)
  <2>1. Present(At(x), x.oid) /\ ~Healthy(At(x))
    BY <1>3, <1>6 DEF Present, Healthy
  <2>2. Corrupt \in Kinds /\ AnswerRight(Corrupt, x.oid)
    BY <1>3, <2>1, CorruptRight
  <2>3. call' = [call EXCEPT ![c] = [Idle EXCEPT !.oid = x.oid, !.answer = Corrupt]]
    BY <1>1, <1>6 DEF Answer, Goto
  <2> QED
    BY <1>2, <1>3, <2>2, <2>3, AnswerGiven, CallMovesInv
<1>7. CASE disk.loose[At(x)][x.oid] = "present" /\ Answer(c, Ok(TypeOf[x.oid], x.oid))
  <2>1. Present(At(x), x.oid)
    BY <1>7 DEF Present
  <2>2. PICK a : a = Ok(TypeOf[x.oid], x.oid)
    OBVIOUS
  <2>3. a \in Kinds /\ AnswerRight(a, x.oid)
    BY <1>3, <2>1, <2>2, OkRight
  <2>4. call' = [call EXCEPT ![c] = [Idle EXCEPT !.oid = x.oid, !.answer = a]]
    BY <1>1, <1>7, <2>2 DEF Answer, Goto
  <2> QED
    BY <1>2, <1>3, <2>3, <2>4, AnswerGiven, CallMovesInv
<1>8. CASE disk.loose[At(x)][x.oid] = "absent" /\ Goto(c, [x EXCEPT !.pc = "packs"])
  <2>1. PICK y : y = [x EXCEPT !.pc = "packs"]
    OBVIOUS
  <2>2. /\ y \in CallRecs /\ y.pc = "packs" /\ y.oid = x.oid /\ y.todo = x.todo
        /\ y.answer = x.answer /\ y.pack = x.pack /\ y.size = x.size /\ y.hops = x.hops
    BY <2>1 DEF CallRecs
  <2>3. At(y) = At(x)
    BY <2>2 DEF At
  <2>4. Active(y) /\ Unasked(y)
    BY <1>1, <1>2, <2>2 DEF CallOK, Active, Unasked
  <2>5. Found(y)
    BY <1>8, <2>2, <2>3 DEF Found
  <2>6. Standing(y) /\ Covered(y) /\ Resolving(y)
    BY <2>2 DEF Standing, Covered, Resolving
  <2>7. CallOK(y)
    BY <1>1, <2>2, <2>4, <2>5, <2>6 DEF CallOK
  <2>8. call' = [call EXCEPT ![c] = y]
    BY <1>8, <2>1 DEF Goto
  <2> QED
    BY <1>2, <2>2, <2>7, <2>8, CallMovesInv
<1> QED
  BY <1>5, <1>6, <1>7, <1>8

\* The members of two sequences, one after the other.
LEMMA ConcatSet ==
    ASSUME NEW S, NEW s \in Seq(S), NEW t \in Seq(S)
    PROVE  /\ s \o t \in Seq(S) /\ ToSet(s \o t) = ToSet(s) \cup ToSet(t)
           /\ s \o t = <<>> => ToSet(s) \cup ToSet(t) = {}
<1>1. PICK u \in Seq(S) : /\ u = s \o t /\ Len(u) = Len(s) + Len(t)
                          /\ \A i \in 1..(Len(s) + Len(t)) :
                                u[i] = IF i <= Len(s) THEN s[i] ELSE t[i - Len(s)]
  <2>1. /\ s \o t \in Seq(S) /\ Len(s \o t) = Len(s) + Len(t)
        /\ \A i \in 1..(Len(s) + Len(t)) :
              (s \o t)[i] = IF i <= Len(s) THEN s[i] ELSE t[i - Len(s)]
    BY ConcatProperties
  <2> QED
    BY <2>1, Zenon
<1>2. /\ DOMAIN u = 1..(Len(s) + Len(t)) /\ DOMAIN s = 1..Len(s) /\ DOMAIN t = 1..Len(t)
      /\ Len(s) \in Nat /\ Len(t) \in Nat
  BY <1>1
<1>3. ASSUME NEW y \in ToSet(u) PROVE y \in ToSet(s) \cup ToSet(t)
  <2>1. PICK i \in 1..(Len(s) + Len(t)) : y = u[i]
    BY <1>2, <1>3 DEF ToSet
  <2>2. CASE i <= Len(s)
    <3>1. i \in 1..Len(s) /\ y = s[i]
      BY <1>1, <1>2, <2>1, <2>2
    <3> QED
      BY <1>2, <3>1 DEF ToSet
  <2>3. CASE ~(i <= Len(s))
    <3>1. i - Len(s) \in 1..Len(t) /\ y = t[i - Len(s)]
      BY <1>1, <1>2, <2>1, <2>3
    <3> QED
      BY <1>2, <3>1 DEF ToSet
  <2> QED
    BY <2>2, <2>3
<1>4. ASSUME NEW y \in ToSet(s) PROVE y \in ToSet(u)
  <2>1. PICK i \in 1..Len(s) : y = s[i]
    BY <1>2, <1>4 DEF ToSet
  <2>2. i \in 1..(Len(s) + Len(t)) /\ i <= Len(s)
    BY <1>2
  <2>3. u[i] = y
    BY <1>1, <2>1, <2>2
  <2> QED
    BY <1>2, <2>2, <2>3 DEF ToSet
<1>5. ASSUME NEW y \in ToSet(t) PROVE y \in ToSet(u)
  <2>1. PICK i \in 1..Len(t) : y = t[i]
    BY <1>2, <1>5 DEF ToSet
  <2>2. /\ i + Len(s) \in 1..(Len(s) + Len(t)) /\ ~(i + Len(s) <= Len(s))
        /\ (i + Len(s)) - Len(s) = i
    BY <1>2
  <2>3. u[i + Len(s)] = y
    BY <1>1, <2>1, <2>2
  <2> QED
    BY <1>2, <2>2, <2>3 DEF ToSet
<1>6. ToSet(u) = ToSet(s) \cup ToSet(t)
  BY <1>3, <1>4, <1>5
<1> QED
  BY <1>1, <1>6, ToSetFacts

\* A sequence is one of its members.
LEMMA MembersIn ==
    ASSUME NEW S, NEW s \in Seq(S), NEW T, ToSet(s) \subseteq T
    PROVE  s \in Seq(T)
<1>1. s \in [1..Len(s) -> S] /\ Len(s) \in Nat /\ DOMAIN s = 1..Len(s)
  OBVIOUS
<1>2. \A i \in 1..Len(s) : s[i] \in T
  BY <1>1 DEF ToSet
<1>3. s \in [1..Len(s) -> T]
  BY <1>1, <1>2
<1> QED
  BY <1>1, <1>3, SeqDef

\* A store has neither a loose file nor a packed entry: the search goes on
\* with its alternates.
LEMMA NextStoreRight ==
    ASSUME OpenInv, NEW x \in CallRecs, CallOK(x), x.pc = "packs", ~Present(At(x), x.oid),
           NEW todo, todo = stores[Head(x.todo)].alternates \o Tail(x.todo)
    PROVE  /\ todo \in Seq(DOMAIN stores)
           /\ \A i \in DOMAIN stores :
                 Present(stores[i].repo, x.oid) => i \in TreeOf(stores, ToSet(todo))
           /\ todo = <<>> => AnswerRight(Missing, x.oid)
<1> DEFINE h == Head(x.todo)
           K == Kids(stores, h)
           T == ToSet(Tail(x.todo))
<1>1. /\ opc = "open" /\ x.oid \in Oids /\ h \in DOMAIN stores
      /\ Tail(x.todo) \in Seq(DOMAIN stores) /\ ToSet(x.todo) = {h} \cup T
  BY AskedFacts
<1>2. K \subseteq DOMAIN stores
  BY <1>1 DEF OpenInv, Adopted
<1>3. stores[h].alternates \in Seq(DOMAIN stores)
  <2>1. stores[h].alternates \in Seq(Nat)
    BY <1>1 DEF OpenInv, OpenTypes, StoreRecs
  <2>2. ToSet(stores[h].alternates) \subseteq DOMAIN stores
    BY <1>2 DEF Kids
  <2> HIDE DEF h, K
  <2> QED
    BY <2>1, <2>2, MembersIn
<1>4. /\ todo \in Seq(DOMAIN stores) /\ ToSet(todo) = K \cup T
      /\ todo = <<>> => K \cup T = {}
  <2>1. PICK u \in Seq(DOMAIN stores), v \in Seq(DOMAIN stores) :
            u = stores[h].alternates /\ v = Tail(x.todo)
    BY <1>1, <1>3, Zenon
  <2>2. K = ToSet(u) /\ T = ToSet(v) /\ todo = u \o v
    BY <2>1 DEF Kids
  <2> HIDE DEF h, K, T
  <2>3. /\ u \o v \in Seq(DOMAIN stores) /\ ToSet(u \o v) = ToSet(u) \cup ToSet(v)
        /\ u \o v = <<>> => ToSet(u) \cup ToSet(v) = {}
    BY ConcatSet, Zenon
  <2> QED
    BY <2>2, <2>3, Zenon
<1>5. T \subseteq DOMAIN stores
  <2>1. PICK v \in Seq(DOMAIN stores) : v = Tail(x.todo)
    BY <1>1, Zenon
  <2>2. T = ToSet(v)
    BY <2>1
  <2>3. ToSet(v) \subseteq DOMAIN stores
    BY DEF ToSet
  <2> QED
    BY <2>2, <2>3, Zenon
<1> HIDE DEF h, K, T
<1>6. Family(stores)
  BY StoresFamily DEF OpenInv
<1>7. K \cup T \subseteq DOMAIN stores
  BY <1>2, <1>5
<1>8. PICK X : X = {h} \cup TreeOf(stores, K \cup T)
  OBVIOUS
<1>9. /\ K \cup T \subseteq TreeOf(stores, K \cup T)
      /\ TreeOf(stores, K \cup T) \subseteq DOMAIN stores
      /\ \A i \in TreeOf(stores, K \cup T) : Kids(stores, i) \subseteq TreeOf(stores, K \cup T)
      /\ K \cup T = {} => TreeOf(stores, K \cup T) = {}
  <2>1. /\ K \cup T \subseteq TreeOf(stores, K \cup T)
        /\ TreeOf(stores, K \cup T) \subseteq DOMAIN stores
        /\ \A i \in TreeOf(stores, K \cup T) : Kids(stores, i) \subseteq TreeOf(stores, K \cup T)
        /\ \A Y : K \cup T \subseteq Y /\ Y \subseteq DOMAIN stores
                     /\ (\A i \in Y : Kids(stores, i) \subseteq Y) => TreeOf(stores, K \cup T) \subseteq Y
    BY <1>6, <1>7, TreeFacts
  <2>2. ASSUME K \cup T = {} PROVE TreeOf(stores, K \cup T) \subseteq {}
    <3>1. K \cup T \subseteq {} /\ {} \subseteq DOMAIN stores /\ \A i \in {} : Kids(stores, i) \subseteq {}
      BY <2>2
    <3> QED
      BY <2>1, <3>1
  <2> QED
    BY <2>1, <2>2
<1>10. TreeOf(stores, ToSet(x.todo)) \subseteq X
  <2>1. ToSet(x.todo) \subseteq X /\ X \subseteq DOMAIN stores
    BY <1>1, <1>8, <1>9
  <2>2. ASSUME NEW i \in X PROVE Kids(stores, i) \subseteq X
    <3>1. CASE i = h
      BY <1>8, <1>9, <3>1 DEF K
    <3>2. CASE i \in TreeOf(stores, K \cup T)
      BY <1>8, <1>9, <3>2
    <3> QED
      BY <1>8, <3>1, <3>2
  <2>3. ToSet(x.todo) \subseteq DOMAIN stores
    BY <2>1
  <2> QED
    BY <1>6, <2>1, <2>2, <2>3, TreeFacts
<1>11. ASSUME NEW i \in DOMAIN stores, Present(stores[i].repo, x.oid)
       PROVE  i \in TreeOf(stores, K \cup T)
  <2>1. i \in X
    BY <1>10, <1>11 DEF CallOK, Unasked
  <2>2. i # h
    BY <1>11 DEF At, h
  <2> QED
    BY <1>8, <2>1, <2>2
<1>12. todo = <<>> => AnswerRight(Missing, x.oid)
  <2> SUFFICES ASSUME todo = <<>> PROVE AnswerRight(Missing, x.oid)
    OBVIOUS
  <2>1. \A i \in DOMAIN stores : ~Present(stores[i].repo, x.oid)
    BY <1>4, <1>9, <1>11
  <2>2. Reachable = {stores[i].repo : i \in DOMAIN stores}
    BY <1>1, OpenedAll
  <2>3. \A r \in Reachable : ~Present(r, x.oid)
    BY <2>1, <2>2
  <2>4. Missing.kind # "ok" /\ Missing # Corrupt
    BY DEF Missing, Corrupt
  <2> QED
    BY <2>3, <2>4 DEF AnswerRight
<1> QED
  BY <1>4, <1>11, <1>12

\* The recursive function that Resolves defines exists.
LEMMA ResolvesIs ==
    ASSUME NEW r
    PROVE  \E g : IsGood(g, r) /\ Resolves(r) = g[MaxChainDepth]
<1> DEFINE Good(g, d) ==
             IF d = 0 THEN {}
             ELSE {at \in (DOMAIN disk.packs[r]) \X Oids :
                     LET e == disk.packs[r][at[1]].objects[at[2]]
                     IN /\ e # None
                        /\ \/ e.kind = "whole"
                           \/ e.kind = "ofs" /\ <<at[1], e.base>> \in g[d - 1]
                           \/ e.kind = "ref" /\ <<Lookup(r, e.base), e.base>> \in g[d - 1]}
<1> DEFINE S == {l \in Nat : \E g : g = [i \in 0..l |-> Good(g, i)]}
<1>0. MaxChainDepth \in Nat
  BY StoreBoundsAssumption
<1>a. ASSUME NEW f, NEW g, NEW d, d = 0 \/ f[d - 1] = g[d - 1] PROVE Good(f, d) = Good(g, d)
  BY <1>a
<1>b. ASSUME NEW g PROVE Good(g, 0) = {}
  OBVIOUS
<1>1. 0 \in S
  <2>1. PICK f : f = [i \in 0..0 |-> {}]
    OBVIOUS
  <2> HIDE DEF Good
  <2>2. f = [i \in 0..0 |-> Good(f, i)]
    BY <1>b, <2>1
  <2> QED
    BY <2>2
<1>2. ASSUME NEW n \in Nat, n \in S PROVE n + 1 \in S
  <2> HIDE DEF Good
  <2>1. PICK f : f = [i \in 0..n |-> Good(f, i)]
    BY <1>2
  <2>2. PICK g : g = [i \in 0..(n + 1) |-> IF i = n + 1 THEN Good(f, i) ELSE f[i]]
    OBVIOUS
  <2>3. ASSUME NEW i \in 0..(n + 1) PROVE g[i] = Good(g, i)
    <3>1. i = 0 \/ g[i - 1] = f[i - 1]
      <4>1. i # 0 => i - 1 \in 0..(n + 1) /\ i - 1 # n + 1
        OBVIOUS
      <4> QED
        BY <2>2, <4>1
    <3>2. Good(g, i) = Good(f, i)
      BY <1>a, <3>1
    <3>3. CASE i = n + 1
      BY <2>2, <3>2, <3>3
    <3>4. CASE i # n + 1
      <4>1. i \in 0..n /\ g[i] = f[i]
        BY <2>2, <3>4
      <4> QED
        BY <2>1, <3>2, <4>1
    <3> QED
      BY <3>3, <3>4
  <2>4. g = [i \in 0..(n + 1) |-> Good(g, i)]
    BY <2>2, <2>3
  <2> QED
    BY <2>4
<1>3. Nat \subseteq S
  <2> HIDE DEF S
  <2> QED
    BY <1>1, <1>2, SetInduction
<1> DEFINE good[d \in 0..MaxChainDepth] == Good(good, d)
<1>4. \E g : g = [d \in 0..MaxChainDepth |-> Good(g, d)]
  <2> HIDE DEF Good
  <2> QED
    BY <1>0, <1>3
<1>5. good = [d \in 0..MaxChainDepth |-> Good(good, d)]
  BY <1>4, Zenon DEF good
<1>6. IsGood(good, r)
  BY <1>5, Zenon DEF IsGood
<1>7. Resolves(r) = good[MaxChainDepth]
  BY Zenon DEF Resolves, good
<1> QED
  BY <1>6, <1>7, Zenon

\* What is known of an entry from which a whole object is reached.
LEMMA GoodStep ==
    ASSUME NEW g, NEW r, IsGood(g, r), NEW d \in 0..MaxChainDepth, NEW p, NEW o, <<p, o>> \in g[d],
           NEW f, f = disk.packs[r][p].objects[o]
    PROVE  /\ d # 0 /\ p \in DOMAIN disk.packs[r] /\ o \in Oids
           /\ \/ f.kind = "whole"
              \/ f.kind = "ofs" /\ <<p, f.base>> \in g[d - 1]
              \/ f.kind = "ref" /\ <<Lookup(r, f.base), f.base>> \in g[d - 1]
<1>1. d # 0
  BY DEF IsGood
<1>2. g[d] = {at \in (DOMAIN disk.packs[r]) \X Oids :
                LET e == disk.packs[r][at[1]].objects[at[2]]
                IN /\ e # None
                   /\ \/ e.kind = "whole"
                      \/ e.kind = "ofs" /\ <<at[1], e.base>> \in g[d - 1]
                      \/ e.kind = "ref" /\ <<Lookup(r, e.base), e.base>> \in g[d - 1]}
  BY <1>1 DEF IsGood
<1> QED
  BY <1>1, <1>2

\* The packs on a disk, and the deltas in them.
LEMMA EntryFacts ==
    ASSUME disk \in Disks, NEW r \in Repos, NEW o \in Oids, NEW p \in Holding(r, o),
           NEW f, f = disk.packs[r][p].objects[o]
    PROVE  /\ p \in DOMAIN disk.packs[r] /\ p \in Nat \ {0} /\ f # None
           /\ f.kind \in {"ofs", "ref"} => f.base \in Oids /\ TypeOf[f.base] = TypeOf[o]
           /\ f.kind = "ofs" => p \in Holding(r, f.base)
<1> DEFINE objects == disk.packs[r][p].objects
<1>1. p \in DOMAIN disk.packs[r] /\ objects[o] # None /\ p \in Nat \ {0}
  BY LookupFacts DEF Holding
<1>3. objects[o].kind \in {"ofs", "ref"} =>
         /\ objects[o].base \in Oids
         /\ objects[o].kind = "ofs" => objects[objects[o].base] # None
         /\ TypeOf[objects[o].base] = TypeOf[o]
  BY <1>1, DeltasAssumption
<1> QED
  BY <1>1, <1>3 DEF Holding

\* A pack has the object, or the search goes on in the alternates.
LEMMA FindPackedInv ==
    ASSUME OpenInv, CallsInv, NEW c \in Callers, FindPacked(c)
    PROVE  CallsInv'
<1>1. PICK x \in CallRecs : x = call[c] /\ CallOK(x)
  BY CallOf
<1>2. x.pc = "packs" /\ UNCHANGED <<openingVars, cache>>
  BY <1>1 DEF FindPacked, In
<1>3. /\ disk \in Disks /\ x.oid \in Oids /\ At(x) \in Repos /\ At(x) \in Reachable
      /\ opc = "open" /\ Head(x.todo) \in DOMAIN stores /\ x.answer = None
  BY <1>1, <1>2, AskedFacts
<1>4. Repo(Asked(c)) = At(x) /\ Asked(c) = Head(x.todo)
  BY <1>1 DEF Repo, Asked, At
<1>5. PICK p : p = Lookup(At(x), x.oid)
  OBVIOUS
<1>6. \/ p = 0 /\ NextStore(c)
      \/ p # 0 /\ CRCMismatch(Head(x.todo), p, x.oid) /\ Answer(c, Corrupt)
      \/ /\ p # 0 /\ ~CRCMismatch(Head(x.todo), p, x.oid)
         /\ Goto(c, [x EXCEPT !.pc = "walk", !.pack = p, !.at = x.oid])
  BY <1>1, <1>4, <1>5 DEF FindPacked
<1>7. /\ p = 0 => Holding(At(x), x.oid) = {}
      /\ p # 0 => p \in Holding(At(x), x.oid)
      /\ p \in Nat
  BY <1>3, <1>5, LookupFacts
<1>8. CASE p = 0 /\ NextStore(c)
  <2>1. PICK todo : todo = stores[Head(x.todo)].alternates \o Tail(x.todo)
    OBVIOUS
  <2>2. ~Present(At(x), x.oid)
    BY <1>1, <1>2, <1>7, <1>8 DEF Present, CallOK, Found
  <2>3. /\ todo \in Seq(DOMAIN stores)
        /\ \A i \in DOMAIN stores :
              Present(stores[i].repo, x.oid) => i \in TreeOf(stores, ToSet(todo))
        /\ todo = <<>> => AnswerRight(Missing, x.oid)
    BY <1>1, <1>2, <2>1, <2>2, NextStoreRight
  <2>4. CASE todo = <<>>
    <3>1. call' = [call EXCEPT ![c] = [Idle EXCEPT !.oid = x.oid, !.answer = Missing]]
      BY <1>1, <1>4, <1>8, <2>1, <2>4 DEF NextStore, Answer, Goto
    <3>2. Missing \in Kinds
      BY DEF Missing, Kinds
    <3> QED
      BY <1>2, <1>3, <2>3, <2>4, <3>1, <3>2, AnswerGiven, CallMovesInv
  <2>5. CASE todo # <<>>
    <3>1. PICK y : y = [x EXCEPT !.pc = "loose", !.todo = todo]
      OBVIOUS
    <3>2. call' = [call EXCEPT ![c] = y]
      BY <1>1, <1>4, <1>8, <2>1, <2>5, <3>1 DEF NextStore, Goto
    <3>3. todo \in Seq(Nat)
      <4>1. DOMAIN stores \subseteq Nat
        BY DEF OpenInv, OpenTypes
      <4>2. ToSet(todo) \subseteq DOMAIN stores
        BY <2>3 DEF ToSet
      <4>3. ToSet(todo) \subseteq Nat
        BY <4>1, <4>2
      <4> QED
        BY <2>3, <4>3, MembersIn
    <3>4. /\ y \in CallRecs /\ y.pc = "loose" /\ y.oid = x.oid /\ y.todo = todo
          /\ y.answer = x.answer /\ y.pack = x.pack /\ y.size = x.size /\ y.hops = x.hops
      BY <3>1, <3>3 DEF CallRecs
    <3>5. Active(y) /\ Unasked(y)
      BY <1>1, <1>2, <1>3, <2>3, <2>5, <3>4 DEF CallOK, Active, Unasked
    <3>6. Found(y) /\ Standing(y) /\ Covered(y) /\ Resolving(y)
      BY <3>4 DEF Found, Standing, Covered, Resolving
    <3>7. CallOK(y)
      BY <1>3, <3>4, <3>5, <3>6 DEF CallOK
    <3> QED
      BY <1>2, <3>2, <3>4, <3>7, CallMovesInv
  <2> QED
    BY <2>4, <2>5
<1>9. CASE p # 0 /\ CRCMismatch(Head(x.todo), p, x.oid) /\ Answer(c, Corrupt)
  <2>1. p \in DOMAIN disk.packs[At(x)] /\ disk.packs[At(x)][p].objects[x.oid] # None
    BY <1>7, <1>9 DEF Holding
  <2>2. Rotten(At(x), p, x.oid)
    BY <1>9 DEF CRCMismatch, At, Repo
  <2>3. ~Healthy(At(x))
    BY <1>3, <2>1, <2>2 DEF Healthy
  <2>4. Present(At(x), x.oid)
    BY <1>7, <1>9 DEF Present
  <2>5. Corrupt \in Kinds /\ AnswerRight(Corrupt, x.oid)
    BY <1>3, <2>3, <2>4, CorruptRight
  <2>6. call' = [call EXCEPT ![c] = [Idle EXCEPT !.oid = x.oid, !.answer = Corrupt]]
    BY <1>1, <1>9 DEF Answer, Goto
  <2> QED
    BY <1>2, <1>3, <2>5, <2>6, AnswerGiven, CallMovesInv
<1>10. CASE /\ p # 0 /\ ~CRCMismatch(Head(x.todo), p, x.oid)
            /\ Goto(c, [x EXCEPT !.pc = "walk", !.pack = p, !.at = x.oid])
  <2>1. PICK y : y = [x EXCEPT !.pc = "walk", !.pack = p, !.at = x.oid]
    OBVIOUS
  <2>2. /\ y \in CallRecs /\ y.pc = "walk" /\ y.oid = x.oid /\ y.todo = x.todo
        /\ y.answer = x.answer /\ y.pack = p /\ y.at = x.oid /\ y.size = x.size /\ y.hops = x.hops
    BY <1>3, <1>7, <2>1 DEF CallRecs
  <2>3. At(y) = At(x)
    BY <2>2 DEF At
  <2>4. x.size = None /\ x.hops = 0
    BY <1>1, <1>2 DEF CallOK, Unasked
  <2>5. p \in DOMAIN disk.packs[At(x)] /\ disk.packs[At(x)][p].objects[x.oid] # None
    BY <1>7, <1>10 DEF Holding
  <2>6. Active(y) /\ Unasked(y)
    BY <1>1, <1>2, <2>2 DEF CallOK, Active, Unasked
  <2>7. Found(y)
    BY <1>7, <1>10, <2>2, <2>3 DEF Found, Present
  <2>8. Standing(y)
    BY <1>3, <1>7, <1>10, <2>2, <2>3, <2>4 DEF Standing, Where
  <2>9. Covered(y)
    <3> SUFFICES ASSUME Protected PROVE ~Rotten(At(x), p, x.oid)
      BY <2>2, <2>3 DEF Covered
    <3>1. stores[Head(x.todo)].verify
      BY <1>3 DEF OpenInv, StoresComplete, StoreComplete, Protected
    <3>2. disk.packs[At(x)][p].crcs
      BY <1>3, <2>5 DEF Protected, Checked
    <3> QED
      BY <1>10, <3>1, <3>2 DEF CRCMismatch, Repo, At
  <2>10. Resolving(y)
    <3>1. MaxChainDepth \in Nat
      BY StoreBoundsAssumption
    <3>2. ASSUME Healthy(At(x))
          PROVE \E g : IsGood(g, At(x)) /\ <<p, x.oid>> \in g[MaxChainDepth]
      <4>1. <<p, x.oid>> \in Resolves(At(x))
        BY <1>3, <2>5, <3>2 DEF Healthy
      <4> QED
        BY <4>1, ResolvesIs
    <3>3. 0 <= MaxChainDepth /\ MaxChainDepth - 0 = MaxChainDepth
      BY <3>1
    <3> QED
      BY <2>2, <2>3, <2>4, <3>2, <3>3 DEF Resolving, Position
  <2>11. CallOK(y)
    BY <1>3, <2>2, <2>6, <2>7, <2>8, <2>9, <2>10 DEF CallOK
  <2>12. call' = [call EXCEPT ![c] = y]
    BY <1>10, <2>1 DEF Goto
  <2> QED
    BY <1>2, <2>2, <2>11, <2>12, CallMovesInv
<1> QED
  BY <1>6, <1>8, <1>9, <1>10

\* A header answers, or leads to a base.
LEMMA WalkChainInv ==
    ASSUME OpenInv, CallsInv, NEW c \in Callers, WalkChain(c)
    PROVE  CallsInv'
<1>1. PICK x \in CallRecs : x = call[c] /\ CallOK(x)
  BY CallOf
<1>2. x.pc = "walk" /\ UNCHANGED <<openingVars, cache>>
  BY <1>1 DEF WalkChain, In
<1>3. /\ disk \in Disks /\ x.oid \in Oids /\ At(x) \in Repos /\ At(x) \in Reachable
      /\ opc = "open" /\ x.answer = None
  BY <1>1, <1>2, AskedFacts
<1>4. Repo(Asked(c)) = At(x) /\ Asked(c) = Head(x.todo)
  BY <1>1 DEF Repo, Asked, At
<1>5. PICK e : e = disk.packs[At(x)][x.pack].objects[x.at]
  OBVIOUS
<1>6. /\ x.at \in Oids /\ x.pack \in Holding(At(x), x.at) /\ TypeOf[x.at] = TypeOf[x.oid]
      /\ SizeSeen(c) = x.oid
  BY <1>1, <1>2, <1>3 DEF CallOK, Standing, Where, SizeSeen
<1>7. /\ x.pack \in DOMAIN disk.packs[At(x)] /\ x.pack \in Nat \ {0} /\ e # None
      /\ e.kind \in {"ofs", "ref"} => e.base \in Oids /\ TypeOf[e.base] = TypeOf[x.oid]
      /\ e.kind = "ofs" => x.pack \in Holding(At(x), e.base)
  <2>1. /\ x.pack \in DOMAIN disk.packs[At(x)] /\ x.pack \in Nat \ {0} /\ e # None
        /\ e.kind \in {"ofs", "ref"} => e.base \in Oids /\ TypeOf[e.base] = TypeOf[x.at]
        /\ e.kind = "ofs" => x.pack \in Holding(At(x), e.base)
    BY <1>3, <1>5, <1>6, EntryFacts
  <2> QED
    BY <1>6, <2>1
<1>8. Present(At(x), x.oid)
  BY <1>1, <1>2 DEF CallOK, Found
<1>9. x.hops \in Nat /\ MaxChainDepth \in Nat /\ x.hops <= MaxChainDepth
  BY <1>1, <1>2, StoreBoundsAssumption DEF CallOK, Resolving, CallRecs
<1>10. ASSUME Healthy(At(x))
       PROVE  /\ x.hops # MaxChainDepth
              /\ e.kind # "bad"
              /\ \E g : /\ IsGood(g, At(x))
                        /\ e.kind = "ofs" => <<x.pack, e.base>> \in g[MaxChainDepth - (x.hops + 1)]
                        /\ e.kind = "ref" =>
                              <<Lookup(At(x), e.base), e.base>> \in g[MaxChainDepth - (x.hops + 1)]
  <2>1. PICK g : IsGood(g, At(x)) /\ <<x.pack, x.at>> \in g[MaxChainDepth - x.hops]
    BY <1>1, <1>2, <1>10 DEF CallOK, Resolving, Position
  <2>2. PICK d \in 0..MaxChainDepth : d = MaxChainDepth - x.hops
    BY <1>9
  <2>3. /\ d # 0
        /\ \/ e.kind = "whole"
           \/ e.kind = "ofs" /\ <<x.pack, e.base>> \in g[d - 1]
           \/ e.kind = "ref" /\ <<Lookup(At(x), e.base), e.base>> \in g[d - 1]
    BY <1>5, <2>1, <2>2, GoodStep
  <2>4. d - 1 = MaxChainDepth - (x.hops + 1) /\ x.hops # MaxChainDepth
    BY <1>9, <2>2, <2>3
  <2> QED
    BY <2>1, <2>3, <2>4
<1>11. PICK read : read = [x EXCEPT !.size = x.oid, !.hops = @ + 1]
  OBVIOUS
<1>12. \/ x.hops = MaxChainDepth /\ Answer(c, Corrupt)
       \/ e.kind = "bad" /\ Answer(c, Corrupt)
       \/ /\ e.kind = "whole"
          /\ Answer(c, Ok(IF Rotten(At(x), x.pack, x.at) THEN Wrong ELSE TypeOf[x.at], x.oid))
       \/ x.hops # MaxChainDepth /\ e.kind = "ofs" /\ Goto(c, [read EXCEPT !.at = e.base])
       \/ x.hops # MaxChainDepth /\ e.kind = "ref"
             /\ Goto(c, [read EXCEPT !.pc = "cached", !.base = e.base])
  BY <1>1, <1>4, <1>5, <1>6, <1>11 DEF WalkChain, TooDeep
<1>13. CASE (x.hops = MaxChainDepth \/ e.kind = "bad") /\ Answer(c, Corrupt)
  <2>1. ~Healthy(At(x))
    BY <1>10, <1>13
  <2>2. Corrupt \in Kinds /\ AnswerRight(Corrupt, x.oid)
    BY <1>3, <1>8, <2>1, CorruptRight
  <2>3. call' = [call EXCEPT ![c] = [Idle EXCEPT !.oid = x.oid, !.answer = Corrupt]]
    BY <1>1, <1>13 DEF Answer, Goto
  <2> QED
    BY <1>2, <1>3, <2>2, <2>3, AnswerGiven, CallMovesInv
<1>14. CASE Answer(c, Ok(IF Rotten(At(x), x.pack, x.at) THEN Wrong ELSE TypeOf[x.at], x.oid))
  <2>1. PICK t : t = IF Rotten(At(x), x.pack, x.at) THEN Wrong ELSE TypeOf[x.at]
    OBVIOUS
  <2>2. t \in {TypeOf[q] : q \in Oids} \cup {Wrong}
    BY <1>6, <2>1
  <2>3. Protected => t = TypeOf[x.oid]
    BY <1>1, <1>2, <1>6, <2>1 DEF CallOK, Covered
  <2>4. PICK a : a = Ok(t, x.oid)
    OBVIOUS
  <2>5. a \in Kinds /\ AnswerRight(a, x.oid)
    BY <1>3, <1>8, <2>2, <2>3, <2>4, OkRight
  <2>6. call' = [call EXCEPT ![c] = [Idle EXCEPT !.oid = x.oid, !.answer = a]]
    BY <1>1, <1>14, <2>1, <2>4 DEF Answer, Goto
  <2> QED
    BY <1>2, <1>3, <2>5, <2>6, AnswerGiven, CallMovesInv
<1>15. ASSUME Protected, e.kind \in {"ofs", "ref"} PROVE \A d \in disk.rot : d[3] # e.base
  BY <1>3, <1>5, <1>6, <1>7, <1>15 DEF Protected, DamageAtHeads
<1>16. /\ read \in CallRecs /\ read.pc = "walk" /\ read.oid = x.oid /\ read.todo = x.todo
       /\ read.answer = x.answer /\ read.pack = x.pack /\ read.size = x.oid
       /\ read.hops = x.hops + 1
  <2>1. PICK n \in Nat : n = x.hops + 1
    BY <1>9
  <2>2. read = [x EXCEPT !.size = x.oid, !.hops = n]
    BY <1>11, <2>1
  <2> QED
    BY <1>2, <1>3, <2>1, <2>2 DEF CallRecs
<1>17. CASE x.hops # MaxChainDepth /\ e.kind = "ofs" /\ Goto(c, [read EXCEPT !.at = e.base])
  <2>1. PICK y : y = [read EXCEPT !.at = e.base]
    OBVIOUS
  <2>2. /\ y \in CallRecs /\ y.pc = "walk" /\ y.oid = x.oid /\ y.todo = x.todo /\ y.at = e.base
        /\ y.answer = x.answer /\ y.pack = x.pack /\ y.size = x.oid /\ y.hops = x.hops + 1
    BY <1>7, <1>16, <1>17, <2>1 DEF CallRecs
  <2>3. At(y) = At(x)
    BY <2>2 DEF At
  <2>4. Active(y) /\ Unasked(y)
    BY <1>1, <1>2, <2>2 DEF CallOK, Active, Unasked
  <2>5. Found(y)
    BY <1>8, <2>2, <2>3 DEF Found
  <2>6. Standing(y)
    <3>1. x.oid # None
      BY <1>3, ObjectsAssumption
    <3> QED
      BY <1>7, <1>17, <2>2, <2>3, <3>1 DEF Standing, Where
  <2>7. Covered(y)
    <3>1. Protected => ~Rotten(At(x), x.pack, e.base)
      BY <1>15, <1>17 DEF Rotten
    <3> QED
      BY <2>2, <2>3, <3>1 DEF Covered
  <2>8. Resolving(y)
    <3>1. x.hops + 1 <= MaxChainDepth
      BY <1>9, <1>17
    <3> QED
      BY <1>10, <1>17, <2>2, <2>3, <3>1 DEF Resolving, Position
  <2>9. CallOK(y)
    BY <1>3, <2>2, <2>4, <2>5, <2>6, <2>7, <2>8 DEF CallOK
  <2>10. call' = [call EXCEPT ![c] = y]
    BY <1>17, <2>1 DEF Goto
  <2> QED
    BY <1>2, <2>2, <2>9, <2>10, CallMovesInv
<1>18. CASE x.hops # MaxChainDepth /\ e.kind = "ref"
              /\ Goto(c, [read EXCEPT !.pc = "cached", !.base = e.base])
  <2>1. PICK y : y = [read EXCEPT !.pc = "cached", !.base = e.base]
    OBVIOUS
  <2>2. /\ y \in CallRecs /\ y.pc = "cached" /\ y.oid = x.oid /\ y.todo = x.todo /\ y.base = e.base
        /\ y.answer = x.answer /\ y.size = x.oid /\ y.hops = x.hops + 1
    BY <1>7, <1>16, <1>18, <2>1 DEF CallRecs
  <2>3. At(y) = At(x)
    BY <2>2 DEF At
  <2>4. Active(y) /\ Unasked(y)
    BY <1>1, <1>2, <2>2 DEF CallOK, Active, Unasked
  <2>5. Found(y)
    BY <1>8, <2>2, <2>3 DEF Found
  <2>6. Standing(y)
    BY <1>7, <1>18, <2>2, <2>3 DEF Standing, Where
  <2>7. Covered(y)
    BY <1>15, <1>18, <2>2 DEF Covered
  <2>8. Resolving(y)
    <3>1. x.hops + 1 <= MaxChainDepth
      BY <1>9, <1>18
    <3> QED
      BY <1>10, <1>18, <2>2, <2>3, <3>1 DEF Resolving, Position
  <2>9. CallOK(y)
    BY <1>3, <2>2, <2>4, <2>5, <2>6, <2>7, <2>8 DEF CallOK
  <2>10. call' = [call EXCEPT ![c] = y]
    BY <1>18, <2>1 DEF Goto
  <2> QED
    BY <1>2, <2>2, <2>9, <2>10, CallMovesInv
<1> QED
  BY <1>12, <1>13, <1>14, <1>17, <1>18

\* The base is where a lookup finds it, or the object is corrupt.
LEMMA BaseFound ==
    ASSUME OpenInv, NEW c \in Callers, NEW x \in CallRecs, x = call[c], CallOK(x),
           x.pc \in {"cached", "scan"}, NEW p, p = Lookup(At(x), x.base), GoToBase(c, p)
    PROVE  \E y \in CallRecs : call' = [call EXCEPT ![c] = y] /\ CallOK(y)
<1>1. /\ disk \in Disks /\ x.oid \in Oids /\ At(x) \in Repos /\ At(x) \in Reachable
      /\ opc = "open" /\ x.answer = None
  BY AskedFacts
<1>2. /\ x.base \in Oids /\ TypeOf[x.base] = TypeOf[x.oid] /\ x.size = x.oid /\ x.oid # None
  BY <1>1, ObjectsAssumption DEF CallOK, Standing, Where
<1>3. Present(At(x), x.oid)
  BY DEF CallOK, Found
<1>4. p \in Nat /\ (p # 0 => p \in Holding(At(x), x.base))
  BY <1>1, LookupFacts
<1>5. x.hops \in Nat /\ MaxChainDepth \in Nat /\ x.hops <= MaxChainDepth
  BY StoreBoundsAssumption DEF CallOK, Resolving, CallRecs
<1>6. CASE p = 0
  <2>1. ASSUME Healthy(At(x)) PROVE FALSE
    <3>1. PICK g : IsGood(g, At(x)) /\ <<p, x.base>> \in g[MaxChainDepth - x.hops]
      BY <2>1 DEF CallOK, Resolving, Position
    <3>2. PICK d \in 0..MaxChainDepth : d = MaxChainDepth - x.hops
      BY <1>5
    <3>3. p \in DOMAIN disk.packs[At(x)]
      <4>1. IsGood(g, At(x)) /\ <<p, x.base>> \in g[d]
        BY <3>1, <3>2
      <4>2. PICK r : r = At(x)
        OBVIOUS
      <4>3. PICK o : o = x.base
        OBVIOUS
      <4>4. PICK q : q = p
        OBVIOUS
      <4>5. IsGood(g, r) /\ <<q, o>> \in g[d] /\ d \in 0..MaxChainDepth
        BY <3>2, <4>1, <4>2, <4>3, <4>4
      <4>6. q \in DOMAIN disk.packs[r]
        BY <4>5, GoodStep
      <4> QED
        BY <4>2, <4>4, <4>6
    <3>4. disk.packs[At(x)] \in Seq(PackFiles)
      BY <1>1, DisksAssumption
    <3> QED
      BY <1>6, <3>3, <3>4
  <2>2. Corrupt \in Kinds /\ AnswerRight(Corrupt, x.oid)
    BY <1>1, <1>3, <2>1, CorruptRight
  <2>3. call' = [call EXCEPT ![c] = [Idle EXCEPT !.oid = x.oid, !.answer = Corrupt]]
    BY <1>6 DEF GoToBase, Answer, Goto
  <2>4. PICK y : y = [Idle EXCEPT !.oid = x.oid, !.answer = Corrupt]
    OBVIOUS
  <2>5. y \in CallRecs /\ CallOK(y)
    BY <1>1, <2>2, <2>4, AnswerGiven
  <2> QED
    BY <2>3, <2>4, <2>5
<1>7. CASE p # 0
  <2>1. PICK y : y = [x EXCEPT !.pc = "walk", !.pack = p, !.at = x.base, !.base = None]
    OBVIOUS
  <2>2. /\ y \in CallRecs /\ y.pc = "walk" /\ y.oid = x.oid /\ y.todo = x.todo /\ y.at = x.base
        /\ y.answer = x.answer /\ y.pack = p /\ y.size = x.size /\ y.hops = x.hops
    BY <1>2, <1>4, <2>1 DEF CallRecs
  <2>3. At(y) = At(x)
    BY <2>2 DEF At
  <2>4. Active(y) /\ Unasked(y)
    BY <2>2 DEF CallOK, Active, Unasked
  <2>5. Found(y)
    BY <1>3, <2>2, <2>3 DEF Found
  <2>6. Standing(y)
    BY <1>2, <1>4, <1>7, <2>2, <2>3 DEF Standing, Where
  <2>7. Covered(y)
    <3>1. Protected => ~Rotten(At(x), p, x.base)
      BY DEF CallOK, Covered, Rotten
    <3> QED
      BY <2>2, <2>3, <3>1 DEF Covered
  <2>8. Resolving(y)
    <3>1. Position(y) = Position(x)
      BY <2>2, <2>3 DEF Position
    <3> QED
      BY <1>5, <2>2, <2>3, <3>1 DEF CallOK, Resolving
  <2>9. CallOK(y)
    BY <1>1, <2>2, <2>4, <2>5, <2>6, <2>7, <2>8 DEF CallOK
  <2>10. call' = [call EXCEPT ![c] = y]
    BY <1>7, <2>1 DEF GoToBase, Goto
  <2> QED
    BY <2>2, <2>9, <2>10
<1> QED
  BY <1>6, <1>7

\* A base that is remembered is where a lookup would find it.
LEMMA LookupCachedInv ==
    ASSUME OpenInv, CallsInv, NEW c \in Callers, LookupCached(c)
    PROVE  CallsInv'
<1>1. PICK x \in CallRecs : x = call[c] /\ CallOK(x)
  BY CallOf
<1>2. x.pc = "cached" /\ UNCHANGED <<openingVars, cache>>
  BY <1>1 DEF LookupCached, In
<1>3. Head(x.todo) \in DOMAIN stores /\ x.answer = None /\ x.base \in Oids
  BY <1>1, <1>2, AskedFacts DEF CallOK, Standing, Where
<1>4. PICK p : p = cache[Head(x.todo)][x.base]
  OBVIOUS
<1>5. (p # None /\ GoToBase(c, p)) \/ Goto(c, [x EXCEPT !.pc = "scan"])
  BY <1>1, <1>4 DEF LookupCached, Asked
<1>6. CASE p # None /\ GoToBase(c, p)
  <2>1. p = Lookup(At(x), x.base)
    BY <1>3, <1>4, <1>6 DEF CallsInv, CacheInv, At
  <2>2. \E y \in CallRecs : call' = [call EXCEPT ![c] = y] /\ CallOK(y)
    BY <1>1, <1>2, <1>6, <2>1, BaseFound
  <2> QED
    BY <1>2, <2>2, CallMovesInv
<1>7. CASE Goto(c, [x EXCEPT !.pc = "scan"])
  <2>1. PICK y : y = [x EXCEPT !.pc = "scan"]
    OBVIOUS
  <2>2. /\ y \in CallRecs /\ y.pc = "scan" /\ y.oid = x.oid /\ y.todo = x.todo /\ y.base = x.base
        /\ y.answer = x.answer /\ y.size = x.size /\ y.hops = x.hops
    BY <2>1 DEF CallRecs
  <2>3. At(y) = At(x)
    BY <2>2 DEF At
  <2>4. Active(y) /\ Unasked(y) /\ Found(y)
    BY <1>1, <1>2, <2>2, <2>3 DEF CallOK, Active, Unasked, Found
  <2>5. Standing(y) /\ Covered(y)
    BY <1>1, <1>2, <2>2, <2>3 DEF CallOK, Standing, Where, Covered
  <2>6. Resolving(y)
    <3>1. Position(y) = Position(x)
      BY <1>2, <2>2, <2>3 DEF Position
    <3> QED
      BY <1>1, <1>2, <2>2, <2>3, <3>1 DEF CallOK, Resolving
  <2>7. CallOK(y)
    BY <1>3, <2>2, <2>4, <2>5, <2>6 DEF CallOK
  <2>8. call' = [call EXCEPT ![c] = y]
    BY <1>7, <2>1 DEF Goto
  <2> QED
    BY <1>2, <2>2, <2>7, <2>8, CallMovesInv
<1> QED
  BY <1>5, <1>6, <1>7

\* Two callers that look for the same base at once remember the same pack.
LEMMA LookupBaseInv ==
    ASSUME OpenInv, CallsInv, NEW c \in Callers, LookupBase(c)
    PROVE  CallsInv'
<1>1. PICK x \in CallRecs : x = call[c] /\ CallOK(x)
  BY CallOf
<1>2. x.pc = "scan" /\ UNCHANGED openingVars
  BY <1>1 DEF LookupBase, In
<1>3. /\ Head(x.todo) \in DOMAIN stores /\ x.base \in Oids /\ At(x) \in Repos /\ disk \in Disks
  BY <1>1, <1>2, AskedFacts DEF CallOK, Standing, Where
<1>4. PICK p : p = Lookup(At(x), x.base)
  OBVIOUS
<1>5. GoToBase(c, p) /\ cache' = [cache EXCEPT ![Head(x.todo)][x.base] = p]
  BY <1>1, <1>4 DEF LookupBase, Asked, Remember, Repo, At
<1>6. PICK y \in CallRecs : call' = [call EXCEPT ![c] = y] /\ CallOK(y)
  BY <1>1, <1>2, <1>4, <1>5, BaseFound
<1>7. CacheInv'
  <2>1. UNCHANGED <<disk, stores>>
    BY <1>2 DEF openingVars
  <2>2. \A r, o : Lookup(r, o)' = Lookup(r, o)
    BY <2>1, SMT DEF Lookup, FirstOf, Holding, Precedes
  <2>3. p \in Nat
    BY <1>3, <1>4, LookupFacts
  <2>4. cache \in [DOMAIN stores -> [Oids -> Nat \cup {None}]]
    BY DEF CallsInv, CacheInv
  <2>5. cache' \in [DOMAIN stores -> [Oids -> Nat \cup {None}]]
    BY <1>3, <1>5, <2>3, <2>4
  <2>6. ASSUME NEW i \in DOMAIN stores, NEW b \in Oids, cache'[i][b] # None
        PROVE  cache'[i][b] = Lookup(stores[i].repo, b)
    <3>1. CASE i = Head(x.todo) /\ b = x.base
      BY <1>3, <1>4, <1>5, <2>4, <3>1 DEF At
    <3>2. CASE ~(i = Head(x.todo) /\ b = x.base)
      <4>1. cache'[i][b] = cache[i][b]
        BY <1>3, <1>5, <2>4, <3>2
      <4> QED
        BY <2>6, <4>1 DEF CallsInv, CacheInv
    <3> QED
      BY <3>1, <3>2
  <2> QED
    BY <2>1, <2>2, <2>5, <2>6 DEF CacheInv
<1> QED
  BY <1>2, <1>6, <1>7, CallMoves DEF CallsInv

\* Nobody asks before Open has returned, or after Close.
LEMMA OpenStepCalls ==
    ASSUME OpenInv, CallsInv, OpenStep \/ Close
    PROVE  call' = call /\ \A c \in Callers : \A x \in CallRecs : x = call'[c] => CallOK(x)'
<1>1. UNCHANGED <<disk, call>>
  BY DEF OpenStep, ReadConfig, OpenBackends, OpenPackFile, ReadAlternates, OpenAlternate,
         OpenReturns, ConfigFails, BackendFails, OpenUnwinds, Close, callVars
<1>2. opc = "opening" \/ \A c \in Callers : In(c, "idle")
  BY DEF OpenStep, ReadConfig, OpenBackends, OpenPackFile, ReadAlternates, OpenAlternate,
         OpenReturns, ConfigFails, BackendFails, OpenUnwinds, Close, Opening
<1>3. ASSUME NEW c \in Callers, NEW x \in CallRecs, x = call'[c] PROVE CallOK(x)'
  <2>1. CallOK(x)
    BY <1>1, <1>3 DEF CallsInv
  <2>2. x.pc = "idle"
    BY <1>1, <1>2, <1>3, <2>1 DEF In, CallOK, Active
  <2> QED
    BY <1>1, <2>1, <2>2, IdleKept
<1> QED
  BY <1>1, <1>3

\* A store that has been opened remembers nothing yet.
LEMMA OpenStepCache ==
    ASSUME OpenInv, CallsInv, OpenStep \/ Close
    PROVE  CacheInv'
<1>1. CASE OpenReturns
  <2>1. OpenInv' /\ disk' = disk
    BY <1>1, OpenStepInv DEF OpenStep, OpenReturns
  <2>2. \A r, o : Lookup(r, o)' = Lookup(r, o)
    BY <2>1, SMT DEF Lookup, FirstOf, Holding, Precedes
  <2>3. PICK n : n = Top.num
    OBVIOUS
  <2>4. PICK done : done = [repo |-> Top.repo, verify |-> Top.verify, alternates |-> Top.alternates]
    OBVIOUS
  <2>5. /\ stores' = [i \in DOMAIN stores \cup {n} |-> IF i = n THEN done ELSE stores[i]]
        /\ cache' = [i \in DOMAIN stores \cup {n} |->
                       IF i = n THEN [o \in Oids |-> None] ELSE cache[i]]
    BY <1>1, <2>3, <2>4 DEF OpenReturns
  <2>6. DOMAIN stores' = DOMAIN stores \cup {n}
    BY <2>5
  <2>7. cache' \in [DOMAIN stores' -> [Oids -> Nat \cup {None}]]
    BY <2>5, <2>6 DEF CallsInv, CacheInv
  <2>8. ASSUME NEW i \in DOMAIN stores', NEW b \in Oids, cache'[i][b] # None
        PROVE  cache'[i][b] = Lookup(stores'[i].repo, b)
    <3>1. i # n
      BY <2>5, <2>8
    <3>2. i \in DOMAIN stores /\ stores'[i] = stores[i] /\ cache'[i] = cache[i]
      BY <2>5, <2>6, <3>1
    <3> QED
      BY <2>8, <3>2 DEF CallsInv, CacheInv
  <2> QED
    BY <2>2, <2>7, <2>8 DEF CacheInv
<1>2. CASE ~OpenReturns
  <2>1. UNCHANGED <<disk, stores, cache>>
    BY <1>2 DEF OpenStep, ReadConfig, OpenBackends, OpenPackFile, ReadAlternates, OpenAlternate,
         ConfigFails, BackendFails, OpenUnwinds, Close, callVars, Fails
  <2> QED
    BY <2>1, CacheKept DEF CallsInv
<1> QED
  BY <1>1, <1>2

\* Any step at all.
LEMMA CallsNextInv == OpenInv /\ CallsInv /\ [ObjNext]_objVars => CallsInv'
<1> SUFFICES ASSUME OpenInv, CallsInv, [ObjNext]_objVars PROVE CallsInv'
  OBVIOUS
<1>1. CASE OpenStep \/ Close
  BY <1>1, OpenStepCalls, OpenStepCache DEF CallsInv
<1>2. ASSUME NEW c \in Callers, CallStep(c) PROVE CallsInv'
  BY <1>2, FindLooseInv, FindPackedInv, WalkChainInv, LookupCachedInv, LookupBaseInv DEF CallStep
<1>3. ASSUME NEW c \in Callers, NEW o \in Oids, Ask(c, o) PROVE CallsInv'
  BY <1>3, AskInv
<1>4. CASE Finished \/ UNCHANGED objVars
  <2>1. UNCHANGED <<disk, opc, stores, call, cache>>
    BY <1>4 DEF Finished, objVars, openingVars, callVars
  <2>2. CacheInv'
    BY <2>1, CacheKept DEF CallsInv
  <2>3. ASSUME NEW c \in Callers, NEW x \in CallRecs, x = call'[c] PROVE CallOK(x)'
    <3>1. CallOK(x)
      BY <2>1, <2>3 DEF CallsInv
    <3> QED
      BY <2>1, <3>1, CallKept
  <2> QED
    BY <2>1, <2>2, <2>3 DEF CallsInv
<1> QED
  BY <1>1, <1>2, <1>3, <1>4 DEF ObjNext

\* Nobody has asked.
LEMMA CallsInitInv == ObjInit => CallsInv
<1> SUFFICES ASSUME ObjInit PROVE CallsInv
  OBVIOUS
<1>1. Idle \in CallRecs /\ Idle.pc = "idle" /\ Idle.answer = None
  <2>0. <<>> \in Seq(Nat)
    OBVIOUS
  <2>1. PICK t \in Seq(Nat) : t = <<>>
    BY <2>0, Zenon
  <2>2. Idle = [pc |-> "idle", oid |-> None, todo |-> t, pack |-> 0, at |-> None,
                base |-> None, hops |-> 0, size |-> None, answer |-> None]
    BY <2>1 DEF Idle
  <2> QED
    BY <2>1, <2>2 DEF CallRecs
<1>2. PICK y \in CallRecs : y = Idle
  BY <1>1
<1>3. Active(y) /\ Unasked(y) /\ Found(y) /\ Standing(y) /\ Covered(y) /\ Resolving(y)
  BY <1>1, <1>2 DEF Active, Unasked, Found, Standing, Covered, Resolving
<1>4. CallOK(y)
  BY <1>1, <1>2, <1>3 DEF CallOK
<1>5. call = [c \in Callers |-> y]
  BY <1>2 DEF ObjInit
<1>6. CacheInv
  BY DEF ObjInit, CacheInv
<1> QED
  BY <1>2, <1>4, <1>5, <1>6 DEF CallsInv

\* Every call of ObjectInfo that is in progress searches, looks up and walks
\* as the answer requires, however the calls interleave.
THEOREM CallsInvariant == ObjSpec => []CallsInv
<1>1. ObjInit => CallsInv
  BY CallsInitInv
<1>2. OpenInv /\ CallsInv /\ [ObjNext]_objVars => CallsInv'
  BY CallsNextInv
<1> QED
  BY <1>1, <1>2, OpeningInvariant, PTL DEF ObjSpec

\* ErrNotExist is the answer exactly for the objects that no repository
\* reachable over alternates has, for every graph of alternates, any packs and
\* any number of goroutines (object_info.go:120-137).
THEOREM MissingExactHolds == ObjSpec => []MissingExact
<1>1. CallsInv => MissingExact
  BY DEF CallsInv, CallOK, AnswerRight, MissingExact, Answered
<1> QED
  BY <1>1, CallsInvariant, PTL

\* An answer gives the object's type and its own size, and an object is only
\* reported as corrupt where a reachable repository has damage: for delta
\* chains up to exactly maxChainDepth entries, over packs of any shape, with
\* whatever the callers have left in the cache (object_info.go:157-252).
THEOREM AnswersTrueHolds == ObjSpec => []AnswersTrue
<1>1. CallsInv => AnswersTrue
  BY DEF CallsInv, CallOK, AnswerRight, AnswersTrue, Answered, Protected
<1> QED
  BY <1>1, CallsInvariant, PTL
=============================================================================
