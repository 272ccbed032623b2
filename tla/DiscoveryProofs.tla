-------------------------- MODULE DiscoveryProofs --------------------------
(***************************************************************************)
(* Proofs about RefStore and Discovery, for any number of refs and         *)
(* directories, any objects, any depth of peeling, and as many steps of    *)
(* Git as there may be.                                                    *)
(*                                                                         *)
(* RefStore.  The files backend reads one file at a time, so what it holds *)
(* of a ref is related to what the disk holds of it only while Git leaves  *)
(* the ref alone: WalkInv says of such a ref how far the walk has come     *)
(* with it.  The reftable backend reads tables that never change under a   *)
(* list that does: TablesInv says that the listed tables hold the refs,    *)
(* and StackInv that there is a run of tables, the one listed when the     *)
(* list was read, of which the opened ones are the beginning.  Both need   *)
(* to know what Latest computes for a run of tables of any length, and     *)
(* TruePeel for a chain of tags of any length.                             *)
(*                                                                         *)
(* Discovery.  What a session is to know is a function of the opened       *)
(* store: the names, their ids and what each peels to (ListedKeys, IdOf,   *)
(* PeelFor).  Parsing says that the refs a v0 session has taken, and the   *)
(* lines that are still on the wire or in the adapter, make one listing of *)
(* exactly that; every line parsed keeps it, and so no line is refused     *)
(* that a packet can carry.  Over v2 the refs yielded and the lines left   *)
(* are such a listing as they are (Listing).  Two listings of the same     *)
(* names have them in the same order, from which the agreement of the      *)
(* versions follows; and what Peel finds is true because a chain of tags,  *)
(* followed over fewer objects or less far, gives no answer or the same    *)
(* one.                                                                    *)
(***************************************************************************)
EXTENDS Discovery, WellFoundedInduction, FiniteSetTheorems, TLAPS

(***************************************************************************)
(* Induction.  The library's principles take a predicate as a parameter;   *)
(* what is needed of them can be said of a set of numbers.                 *)
(***************************************************************************)
\* A set of numbers that is not empty has a least one.
LEMMA LeastNumber ==
    ASSUME NEW T, T \subseteq Nat, T # {}
    PROVE  \E m \in T : \A k \in T : m <= k
<1>r. PICK R : R = {ss \in Nat \X Nat : ss[1] < ss[2]}
  OBVIOUS
<1>1. IsWellFoundedOn({ss \in Nat \X Nat : ss[1] < ss[2]}, Nat)
  BY NatLessThanWellFounded, Zenon DEF OpToRel
<1>2. \E x \in T : \A y \in T : ~ (<<y, x>> \in R)
  BY <1>r, <1>1, WFMin
<1>3. \A x \in T, y \in T : <<y, x>> \in R <=> y < x
  BY <1>r
<1>4. PICK x \in T : \A y \in T : ~ (<<y, x>> \in R)
  BY <1>2
<1>5. ASSUME NEW y \in T PROVE x <= y
  <2>1. <<y, x>> \notin R
    BY <1>4
  <2>2. ~(y < x)
    BY <1>3, <2>1
  <2>3. x \in Nat /\ y \in Nat
    OBVIOUS
  <2> QED
    BY <2>2, <2>3
<1> QED
  BY <1>5

\* A set that has 0, and with every number the next, has them all.
LEMMA SetInduction ==
    ASSUME NEW S, 0 \in S, \A n \in Nat : n \in S => n + 1 \in S
    PROVE  Nat \subseteq S
<1> SUFFICES ASSUME ~(Nat \subseteq S) PROVE FALSE
  OBVIOUS
<1>1. PICK m \in Nat \ S : \A k \in Nat \ S : m <= k
  <2>1. Nat \ S \subseteq Nat /\ Nat \ S # {}
    OBVIOUS
  <2> QED
    BY <2>1, LeastNumber
<1>2. m # 0
  OBVIOUS
<1>3. m - 1 \in Nat
  BY <1>2
<1>4. m - 1 \in S
  <2>1. ~(m <= m - 1)
    BY <1>3
  <2> QED
    BY <1>1, <1>3, <2>1
<1>5. (m - 1) + 1 \in S /\ (m - 1) + 1 = m
  BY <1>3, <1>4
<1> QED
  BY <1>5

(***************************************************************************)
(* Latest.                                                                 *)
(***************************************************************************)
\* The recursive function that Latest defines exists.
LEMMA LatestExists ==
    ASSUME NEW ts, NEW L \in Nat
    PROVE  \E f : f = [i \in 0..L |->
            IF i = 0 THEN Empty
            ELSE [k \in Keys |-> IF ts[i][k] = None THEN f[i - 1][k] ELSE ts[i][k]]]
<1> DEFINE St(f, i) == IF i = 0 THEN Empty
            ELSE [k \in Keys |-> IF ts[i][k] = None THEN f[i - 1][k] ELSE ts[i][k]]
<1> DEFINE S == {l \in Nat : \E f : f = [i \in 0..l |-> St(f, i)]}
<1>1. 0 \in S
  <2>1. PICK f : f = [i \in 0..0 |-> Empty]
    OBVIOUS
  <2>2. f = [i \in 0..0 |-> St(f, i)]
    BY <2>1
  <2> QED
    BY <2>2
<1>2. ASSUME NEW n \in Nat, n \in S PROVE n + 1 \in S
  <2>1. PICK f : f = [i \in 0..n |-> St(f, i)]
    BY <1>2
  <2>2. PICK g : g = [i \in 0..(n + 1) |-> IF i = n + 1 THEN St(f, i) ELSE f[i]]
    OBVIOUS
  <2>3. ASSUME NEW i \in 0..(n + 1) PROVE g[i] = St(g, i)
    <3>1. CASE i = n + 1
      <4>1. i # 0 /\ i - 1 = n /\ n # n + 1 /\ n \in 0..(n + 1)
        BY <3>1
      <4>2. g[n] = f[n] /\ g[i] = St(f, i)
        BY <2>2, <3>1, <4>1
      <4> QED
        BY <4>1, <4>2
    <3>2. CASE i # n + 1
      <4>1. i \in 0..n
        BY <3>2
      <4>2. g[i] = f[i]
        BY <2>2, <3>2
      <4>3. f[i] = St(f, i)
        BY <2>1, <4>1
      <4>4. CASE i = 0
        BY <4>2, <4>3, <4>4
      <4>5. CASE i # 0
        <5>1. i - 1 \in 0..(n + 1) /\ i - 1 # n + 1
          BY <4>1, <4>5
        <5>2. g[i - 1] = f[i - 1]
          BY <2>2, <5>1
        <5> QED
          BY <4>2, <4>3, <4>5, <5>2
      <4> QED
        BY <4>4, <4>5
    <3> QED
      BY <3>1, <3>2
  <2>4. g = [i \in 0..(n + 1) |-> St(g, i)]
    <3> HIDE DEF St
    <3> QED
    BY <2>2, <2>3
  <2> QED
    BY <2>4
<1>3. Nat \subseteq S
  <2> HIDE DEF S
  <2> QED
    BY <1>1, <1>2, SetInduction
<1> QED
  BY <1>3

\* So Latest is its value for the whole run of tables.
LEMMA LatestDef ==
    ASSUME NEW ts, Len(ts) \in Nat
    PROVE  \E f : /\ f = [i \in 0..Len(ts) |->
                        IF i = 0 THEN Empty
                        ELSE [k \in Keys |-> IF ts[i][k] = None THEN f[i - 1][k] ELSE ts[i][k]]]
                  /\ Latest(ts) = f[Len(ts)]
<1> DEFINE upTo[i \in 0..Len(ts)] ==
            IF i = 0 THEN Empty
            ELSE [k \in Keys |-> IF ts[i][k] = None THEN upTo[i - 1][k] ELSE ts[i][k]]
<1>1. \E f : f = [i \in 0..Len(ts) |->
            IF i = 0 THEN Empty
            ELSE [k \in Keys |-> IF ts[i][k] = None THEN f[i - 1][k] ELSE ts[i][k]]]
  BY LatestExists
<1>2. upTo = [i \in 0..Len(ts) |->
            IF i = 0 THEN Empty
            ELSE [k \in Keys |-> IF ts[i][k] = None THEN upTo[i - 1][k] ELSE ts[i][k]]]
  BY <1>1, Zenon DEF upTo
<1>3. Latest(ts) = upTo[Len(ts)]
  BY Zenon DEF Latest, upTo
<1> QED
  BY <1>2, <1>3, Zenon

\* v is the last record of k among the first m of ts.
LastRecord(ts, m, k, v) ==
    \/ v = None /\ \A i \in 1..m : ts[i][k] = None
    \/ /\ v # None
       /\ \E i \in 1..m : ts[i][k] = v /\ \A j \in i + 1..m : ts[j][k] = None

\* Latest gives every key its last record.
LEMMA LatestRecord ==
    ASSUME NEW ts, Len(ts) \in Nat, NEW k \in Keys
    PROVE  LastRecord(ts, Len(ts), k, Latest(ts)[k])
<1>1. PICK f : /\ f = [i \in 0..Len(ts) |->
                        IF i = 0 THEN Empty
                        ELSE [key \in Keys |-> IF ts[i][key] = None THEN f[i - 1][key] ELSE ts[i][key]]]
               /\ Latest(ts) = f[Len(ts)]
  BY LatestDef
<1>l. PICK L \in Nat : L = Len(ts)
  OBVIOUS
<1> DEFINE S == {m \in Nat : m <= L => LastRecord(ts, m, k, f[m][k])}
<1>2. 0 \in S
  <2>1. f[0][k] = None
    BY <1>1, <1>l DEF Empty
  <2> QED
    BY <2>1 DEF LastRecord
<1>3. ASSUME NEW m \in Nat, m \in S PROVE m + 1 \in S
  <2> SUFFICES ASSUME m + 1 <= L PROVE LastRecord(ts, m + 1, k, f[m + 1][k])
    OBVIOUS
  <2>1. m + 1 \in 0..L /\ m + 1 # 0 /\ (m + 1) - 1 = m /\ m <= L
    OBVIOUS
  <2>2. f[m + 1] = [key \in Keys |-> IF ts[m + 1][key] = None THEN f[m][key] ELSE ts[m + 1][key]]
    BY <1>1, <1>l, <2>1
  <2>3. f[m + 1][k] = IF ts[m + 1][k] = None THEN f[m][k] ELSE ts[m + 1][k]
    BY <2>2
  <2>4. LastRecord(ts, m, k, f[m][k])
    BY <1>3, <2>1
  <2>5. CASE ts[m + 1][k] = None
    <3>1. f[m + 1][k] = f[m][k]
      BY <2>3, <2>5
    <3>2. CASE f[m][k] = None
      BY <2>4, <2>5, <3>1, <3>2 DEF LastRecord
    <3>3. CASE f[m][k] # None
      <4>1. PICK i \in 1..m : ts[i][k] = f[m][k] /\ \A j \in i + 1..m : ts[j][k] = None
        BY <2>4, <3>3 DEF LastRecord
      <4>2. i \in 1..m + 1 /\ \A j \in i + 1..m + 1 : ts[j][k] = None
        BY <2>5, <4>1
      <4> QED
        BY <3>1, <3>3, <4>1, <4>2 DEF LastRecord
    <3> QED
      BY <3>2, <3>3
  <2>6. CASE ts[m + 1][k] # None
    <3>1. f[m + 1][k] = ts[m + 1][k]
      BY <2>3, <2>6
    <3>2. m + 1 \in 1..m + 1 /\ \A j \in (m + 1) + 1..m + 1 : ts[j][k] = None
      OBVIOUS
    <3> QED
      BY <2>6, <3>1, <3>2 DEF LastRecord
  <2> QED
    BY <2>5, <2>6
<1>4. Nat \subseteq S
  <2> HIDE DEF S
  <2> QED
    BY <1>2, <1>3, SetInduction
<1> QED
  BY <1>1, <1>l, <1>4

\* There is only one last record.
LEMMA OneLastRecord ==
    ASSUME NEW ts, NEW m \in Nat, NEW k, NEW v, NEW w,
           LastRecord(ts, m, k, v), LastRecord(ts, m, k, w)
    PROVE  v = w
<1>1. CASE v = None \/ w = None
  BY <1>1 DEF LastRecord
<1>2. CASE v # None /\ w # None
  <2>1. PICK i \in 1..m : ts[i][k] = v /\ \A j \in i + 1..m : ts[j][k] = None
    BY <1>2 DEF LastRecord
  <2>2. PICK i2 \in 1..m : ts[i2][k] = w /\ \A j \in i2 + 1..m : ts[j][k] = None
    BY <1>2 DEF LastRecord
  <2>3. ~(i < i2)
    <3> SUFFICES ASSUME i < i2 PROVE FALSE
      OBVIOUS
    <3>1. i2 \in i + 1..m
      OBVIOUS
    <3> QED
      BY <1>2, <2>1, <2>2, <3>1
  <2>4. ~(i2 < i)
    <3> SUFFICES ASSUME i2 < i PROVE FALSE
      OBVIOUS
    <3>1. i \in i2 + 1..m
      OBVIOUS
    <3> QED
      BY <1>2, <2>1, <2>2, <3>1
  <2>5. i = i2
    BY <2>3, <2>4
  <2> QED
    BY <2>1, <2>2, <2>5
<1> QED
  BY <1>1, <1>2

\* Two runs with the same tables have the same records.
LEMMA SameRun ==
    ASSUME NEW ts, NEW us, Len(ts) \in Nat, Len(us) = Len(ts),
           \A i \in 1..Len(ts) : us[i] = ts[i], NEW k \in Keys
    PROVE  Latest(us)[k] = Latest(ts)[k]
<1>l. PICK L \in Nat : L = Len(ts)
  OBVIOUS
<1>1. LastRecord(ts, L, k, Latest(ts)[k])
  BY <1>l, LatestRecord
<1>2. LastRecord(us, L, k, Latest(us)[k])
  BY <1>l, LatestRecord
<1>3. LastRecord(us, L, k, Latest(ts)[k])
  <2> PICK v : v = Latest(ts)[k]
    OBVIOUS
  <2>1. LastRecord(ts, L, k, v)
    BY <1>1
  <2>2. \A i \in 1..L : us[i][k] = ts[i][k]
    BY <1>l
  <2>3. \A i \in 1..L : i + 1..L \subseteq 1..L
    OBVIOUS
  <2>4. LastRecord(us, L, k, v)
    BY <2>1, <2>2, <2>3 DEF LastRecord
  <2> QED
    BY <2>4
<1> QED
  BY <1>2, <1>3, OneLastRecord

\* A table on top of a run hides what is below it where it has a record.
LEMMA TableOnTop ==
    ASSUME NEW L \in Nat, NEW ts, NEW us, Len(ts) = L, Len(us) = L + 1,
           \A i \in 1..L : us[i] = ts[i], NEW k \in Keys
    PROVE  Latest(us)[k] = IF us[L + 1][k] = None THEN Latest(ts)[k] ELSE us[L + 1][k]
<1>1. LastRecord(ts, L, k, Latest(ts)[k])
  BY LatestRecord
<1>2. LastRecord(us, L + 1, k, Latest(us)[k])
  BY LatestRecord
<1>3. \A i \in 1..L : us[i][k] = ts[i][k]
  OBVIOUS
<1>4. CASE us[L + 1][k] = None
  <2>1. LastRecord(us, L + 1, k, Latest(ts)[k])
    <3> PICK v : v = Latest(ts)[k]
      OBVIOUS
    <3>1. CASE v = None
      <4>1. \A i \in 1..L : us[i][k] = None
        BY <1>1, <1>3, <3>1 DEF LastRecord
      <4>2. \A i \in 1..L + 1 : i \in 1..L \/ i = L + 1
        OBVIOUS
      <4> QED
        BY <1>4, <3>1, <4>1, <4>2 DEF LastRecord
    <3>2. CASE v # None
      <4>1. PICK i \in 1..L : ts[i][k] = v /\ \A j \in i + 1..L : ts[j][k] = None
        BY <1>1, <3>2 DEF LastRecord
      <4>2. i \in 1..L + 1 /\ us[i][k] = v
        BY <1>3, <4>1
      <4>3. ASSUME NEW j \in i + 1..L + 1 PROVE us[j][k] = None
        <5>1. j = L + 1 \/ (j \in i + 1..L /\ j \in 1..L)
          OBVIOUS
        <5> QED
          BY <1>3, <1>4, <4>1, <5>1
      <4> QED
        BY <3>2, <4>2, <4>3 DEF LastRecord
    <3> QED
      BY <3>1, <3>2
  <2> QED
    BY <1>2, <1>4, <2>1, OneLastRecord
<1>5. CASE us[L + 1][k] # None
  <2>1. L + 1 \in 1..L + 1 /\ \A j \in (L + 1) + 1..L + 1 : us[j][k] = None
    OBVIOUS
  <2>2. LastRecord(us, L + 1, k, us[L + 1][k])
    BY <1>5, <2>1 DEF LastRecord
  <2> QED
    BY <1>2, <1>5, <2>2, OneLastRecord
<1> QED
  BY <1>4, <1>5

\* us is ts, of L tables, with those from the i-th on, the P tables of part,
\* replaced by one that has the record of k that part has.
Compacted(ts, us, part, L, i, P, k) ==
    /\ L \in Nat /\ i \in 1..L /\ P \in Nat /\ P = L - i + 1
    /\ Len(ts) = L /\ Len(us) = i /\ Len(part) = P
    /\ \A j \in 1..i - 1 : us[j] = ts[j]
    /\ \A j \in 1..P : part[j] = ts[i + j - 1]
    /\ us[i][k] = Latest(part)[k]

\* A compacted run has the records it had.
LEMMA CompactedRun ==
    ASSUME NEW ts, NEW us, NEW part, NEW L, NEW i, NEW P, NEW k \in Keys,
           Compacted(ts, us, part, L, i, P, k)
    PROVE  Latest(us)[k] = Latest(ts)[k]
<1> USE DEF Compacted
<1>i. i \in Nat /\ 1 <= i /\ i <= L
  OBVIOUS
<1>1. LastRecord(ts, L, k, Latest(ts)[k])
  BY LatestRecord
<1>2. LastRecord(us, i, k, Latest(us)[k])
  BY <1>i, LatestRecord
<1>3. LastRecord(part, P, k, us[i][k])
  BY LatestRecord
<1>4. \A j \in 1..i - 1 : us[j][k] = ts[j][k]
  OBVIOUS
<1>5. ASSUME NEW j \in i..L PROVE ts[j] = part[j - i + 1] /\ j - i + 1 \in 1..P
  <2>1. j - i + 1 \in 1..P /\ i + (j - i + 1) - 1 = j
    BY <1>i
  <2> QED
    BY <2>1
<1>6. CASE us[i][k] = None
  <2>1. \A j \in 1..P : part[j][k] = None
    BY <1>3, <1>6 DEF LastRecord
  <2>2. \A j \in i..L : ts[j][k] = None
    BY <1>5, <2>1
  <2>3. LastRecord(ts, L, k, Latest(us)[k])
    <3> PICK v : v = Latest(us)[k]
      OBVIOUS
    <3>1. CASE v = None
      <4>1. \A j \in 1..i : us[j][k] = None
        BY <1>2, <3>1 DEF LastRecord
      <4>2. ASSUME NEW j \in 1..L PROVE ts[j][k] = None
        <5>1. (j \in 1..i - 1 /\ j \in 1..i) \/ j \in i..L
          BY <1>i
        <5> QED
          BY <1>4, <2>2, <4>1, <5>1
      <4> QED
        BY <3>1, <4>2 DEF LastRecord
    <3>2. CASE v # None
      <4>1. PICK h \in 1..i : us[h][k] = v /\ \A j \in h + 1..i : us[j][k] = None
        BY <1>2, <3>2 DEF LastRecord
      <4>2. h # i
        BY <1>6, <3>2, <4>1
      <4>3. h \in 1..i - 1 /\ h \in 1..L
        BY <1>i, <4>2
      <4>4. ts[h][k] = v
        BY <1>4, <4>1, <4>3
      <4>5. ASSUME NEW j \in h + 1..L PROVE ts[j][k] = None
        <5>1. (j \in h + 1..i /\ j \in 1..i - 1) \/ j \in i..L
          BY <1>i, <4>3
        <5> QED
          BY <1>4, <2>2, <4>1, <5>1
      <4> QED
        BY <3>2, <4>3, <4>4, <4>5 DEF LastRecord
    <3> QED
      BY <3>1, <3>2
  <2> QED
    BY <1>1, <2>3, OneLastRecord
<1>7. CASE us[i][k] # None
  <2>1. PICK h \in 1..P : part[h][k] = us[i][k] /\ \A j \in h + 1..P : part[j][k] = None
    BY <1>3, <1>7 DEF LastRecord
  <2>2. i + h - 1 \in i..L /\ (i + h - 1) - i + 1 = h /\ i + h - 1 \in 1..L
    BY <1>i
  <2>3. ts[i + h - 1][k] = us[i][k]
    BY <1>5, <2>1, <2>2
  <2>4. ASSUME NEW j \in (i + h - 1) + 1..L PROVE ts[j][k] = None
    <3>1. j \in i..L /\ j - i + 1 \in h + 1..P
      BY <1>i
    <3> QED
      BY <1>5, <2>1, <3>1
  <2>5. LastRecord(ts, L, k, us[i][k])
    BY <1>7, <2>2, <2>3, <2>4 DEF LastRecord
  <2>6. i \in 1..i /\ \A j \in i + 1..i : us[j][k] = None
    BY <1>i
  <2>7. LastRecord(us, i, k, us[i][k])
    BY <1>7, <2>6 DEF LastRecord
  <2>8. Latest(us)[k] = us[i][k]
    BY <1>2, <1>i, <2>7, OneLastRecord
  <2>9. Latest(ts)[k] = us[i][k]
    BY <1>1, <2>5, OneLastRecord
  <2> QED
    BY <2>8, <2>9
<1> QED
  BY <1>6, <1>7

(***************************************************************************)
(* What a tag peels to.                                                    *)
(***************************************************************************)
\* f satisfies the recursive definition in PeeledVia.
IsChain(f, objs, depth) ==
    f = [d \in 0..depth |->
            [o \in Oids |->
                IF d = 0 \/ o \notin objs \/ Target[o] = None THEN None
                ELSE IF Target[Target[o]] = None THEN Target[o]
                ELSE f[d - 1][Target[o]]]]

\* The recursive function that PeeledVia defines exists.
LEMMA ChainExists ==
    ASSUME NEW objs, NEW depth \in Nat
    PROVE  \E f : IsChain(f, objs, depth)
<1> DEFINE St(f, d) ==
            [o \in Oids |->
                IF d = 0 \/ o \notin objs \/ Target[o] = None THEN None
                ELSE IF Target[Target[o]] = None THEN Target[o]
                ELSE f[d - 1][Target[o]]]
<1> DEFINE S == {l \in Nat : \E f : f = [d \in 0..l |-> St(f, d)]}
<1>0. ASSUME NEW f, NEW g, NEW d, d = 0 \/ f[d - 1] = g[d - 1] PROVE St(f, d) = St(g, d)
  <2>1. CASE d = 0
    BY <2>1
  <2>2. CASE f[d - 1] = g[d - 1]
    BY <2>2
  <2> QED
    BY <1>0, <2>1, <2>2
<1>1. 0 \in S
  <2>1. PICK f : f = [d \in 0..0 |-> St(d, 0)]
    OBVIOUS
  <2>2. f = [d \in 0..0 |-> St(f, d)]
    BY <2>1
  <2> QED
    BY <2>2
<1>2. ASSUME NEW n \in Nat, n \in S PROVE n + 1 \in S
  <2>1. PICK f : f = [d \in 0..n |-> St(f, d)]
    BY <1>2
  <2> HIDE DEF St
  <2>2. PICK g : g = [d \in 0..(n + 1) |-> IF d = n + 1 THEN St(f, d) ELSE f[d]]
    OBVIOUS
  <2>3. ASSUME NEW d \in 0..(n + 1) PROVE g[d] = St(g, d)
    <3>1. CASE d = n + 1
      <4>1. d - 1 = n /\ n # n + 1 /\ n \in 0..(n + 1)
        BY <3>1
      <4>2. g[d - 1] = f[d - 1] /\ g[d] = St(f, d)
        BY <2>2, <3>1, <4>1
      <4> QED
        BY <1>0, <4>2
    <3>2. CASE d # n + 1
      <4>1. d \in 0..n
        BY <3>2
      <4>2. g[d] = f[d] /\ f[d] = St(f, d)
        BY <2>1, <2>2, <3>2, <4>1
      <4>3. d = 0 \/ (d - 1 \in 0..(n + 1) /\ d - 1 # n + 1)
        BY <4>1
      <4>4. d = 0 \/ f[d - 1] = g[d - 1]
        BY <2>2, <4>3
      <4> QED
        BY <1>0, <4>2, <4>4
    <3> QED
      BY <3>1, <3>2
  <2>4. g = [d \in 0..(n + 1) |-> St(g, d)]
    BY <2>2, <2>3
  <2> QED
    BY <2>4
<1>3. Nat \subseteq S
  <2> HIDE DEF S
  <2> QED
    BY <1>1, <1>2, SetInduction
<1>4. PICK f : f = [d \in 0..depth |-> St(f, d)]
  BY <1>3
<1> QED
  BY <1>4, Zenon DEF IsChain

\* So PeeledVia is its value for the greatest depth.
LEMMA PeeledViaDef ==
    ASSUME NEW objs, NEW depth \in Nat
    PROVE  \E f : IsChain(f, objs, depth) /\ PeeledVia(objs, depth) = f[depth]
<1> DEFINE chain[d \in 0..depth] ==
            [o \in Oids |->
                IF d = 0 \/ o \notin objs \/ Target[o] = None THEN None
                ELSE IF Target[Target[o]] = None THEN Target[o]
                ELSE chain[d - 1][Target[o]]]
<1>1. \E f : IsChain(f, objs, depth)
  BY ChainExists
<1>2. IsChain(chain, objs, depth)
  BY <1>1, Zenon DEF chain, IsChain
<1>3. PeeledVia(objs, depth) = chain[depth]
  BY Zenon DEF PeeledVia, chain
<1> QED
  BY <1>2, <1>3, Zenon

\* An object peels to an object or to nothing.
LEMMA PeeledViaType ==
    ASSUME NEW objs, NEW depth \in Nat
    PROVE  PeeledVia(objs, depth) \in [Oids -> Oids \cup {None}]
<1>0. PICK f : IsChain(f, objs, depth) /\ PeeledVia(objs, depth) = f[depth]
  BY PeeledViaDef
<1>1. f = [d \in 0..depth |->
            [o \in Oids |->
                IF d = 0 \/ o \notin objs \/ Target[o] = None THEN None
                ELSE IF Target[Target[o]] = None THEN Target[o]
                ELSE f[d - 1][Target[o]]]]
  BY <1>0, Zenon DEF IsChain
<1> DEFINE S == {d \in Nat : d <= depth => f[d] \in [Oids -> Oids \cup {None}]}
<1>2. 0 \in S
  <2>1. f[0] = [o \in Oids |-> None]
    BY <1>1
  <2> QED
    BY <2>1
<1>3. ASSUME NEW d \in Nat, d \in S PROVE d + 1 \in S
  <2> SUFFICES ASSUME d + 1 <= depth PROVE f[d + 1] \in [Oids -> Oids \cup {None}]
    OBVIOUS
  <2>1. d + 1 \in 0..depth /\ d + 1 # 0 /\ (d + 1) - 1 = d /\ d <= depth
    OBVIOUS
  <2>2. f[d + 1] = [o \in Oids |->
                        IF o \notin objs \/ Target[o] = None THEN None
                        ELSE IF Target[Target[o]] = None THEN Target[o]
                        ELSE f[d][Target[o]]]
    BY ZenonT(30), <1>1, <2>1
  <2>3. f[d] \in [Oids -> Oids \cup {None}]
    BY <1>3, <2>1
  <2> QED
    BY <2>2, <2>3, TargetAssumption
<1>4. Nat \subseteq S
  <2> HIDE DEF S
  <2> QED
    BY <1>2, <1>3, SetInduction
<1> QED
  BY <1>0, <1>4

\* The same of the peel hints.
LEMMA PeelOfType ==
    /\ TruePeel \in [Oids -> Oids \cup {None}]
    /\ \A o \in Oids \cup {None} : PeelOf(o) \in Oids \cup {None}
    /\ PeelOf(None) = None
    /\ \A o \in Oids : PeelOf(o) = TruePeel[o]
<1>1. Cardinality(Oids) \in Nat
  BY OidsAssumption, FS_CardinalityType
<1>2. TruePeel \in [Oids -> Oids \cup {None}]
  BY <1>1, PeeledViaType DEF TruePeel
<1> QED
  BY <1>2, DistinctAssumption DEF PeelOf

(***************************************************************************)
(* The inductive invariant.                                                *)
(***************************************************************************)
Values == Oids \cup Names \cup {None, Bad, Deleted}
Tables == [Keys -> Values]

DiskTypeOK ==
    /\ backend \in {"files", "reftable"}
    /\ loose \in [Names -> Oids \cup Names \cup {None, Bad}]
    /\ packed \in [Names -> Oids \cup {None}]
    /\ hint \in [Names -> Oids \cup {None}]
    /\ headFile \in Oids \cup Names \cup {Bad}
    /\ dirs \subseteq Dirs
    /\ gitSteps \in Nat

OpenTypeOK ==
    /\ opc \in {"packed", "root", "walk", "head", "hop", "open", "failed"}
    /\ refs \in [Names -> RefEntries \cup {None}]
    /\ todoDirs \subseteq Dirs
    /\ todo \subseteq Names
    /\ opc = "hop" => hop \in Names

\* Which backend is at work, and when it holds tables.
PhaseInv ==
    /\ backend = "files" => spc = "idle"
    /\ spc \in {"idle", "failed", "closed"} => readers = <<>>
    /\ opc = "failed" => spc \in {"idle", "failed", "closed"}
    /\ opc \notin {"packed", "open", "failed"} => backend = "files"

\* packed-refs keeps the promise of its header.
HintsKept ==
    \A n \in Names :
        /\ hint[n] \in {None, PeelOf(packed[n])}
        /\ HintPromised(trait, n) => hint[n] = PeelOf(packed[n])

PeelsKept ==
    \A n \in Names : refs[n] # None /\ PeelKnown(n) => refs[n].peeled = TruePeel[refs[n].oid]

\* The walk has still to come to a ref.
Pending(n) == opc = "root" \/ (opc = "walk" /\ (DirOf[n] \in todoDirs \/ n \in todo))

MirrorsPacked(n) ==
    IF packed[n] = None THEN refs[n] = None ELSE refs[n] # None /\ refs[n].oid = packed[n]

MirrorsLoose(n) == refs[n] # None /\ refs[n].oid = loose[n]

WalkInv ==
    backend = "files" /\ removed = {} =>
        /\ dirs = Dirs
        /\ opc \notin {"packed", "failed"} =>
              \A n \in Names \ touched :
                  /\ loose[n] \notin Oids => MirrorsPacked(n)
                  /\ ~Pending(n) => loose[n] # Bad /\ (loose[n] \in Oids => MirrorsLoose(n))

Listed == [i \in 1..Len(tablesList) |-> files[tablesList[i]]]

\* The tables in the list hold the refs.
TablesInv ==
    backend = "reftable" =>
        /\ DOMAIN files \subseteq 1..gitSteps + 1
        /\ files \in [DOMAIN files -> Tables]
        /\ tablesList \in Seq(DOMAIN files)
        /\ tablesList # <<>> => \A k \in Keys : Merge(Listed)[k] = Records[k]

\* run is the tables that were listed when the list was read.
IsRun(run) ==
    /\ Len(run) = Len(names)
    /\ \A k \in Keys : Merge(run)[k] = snapshot[k]
    /\ \A i \in 1..Len(names) : names[i] \in DOMAIN files => files[names[i]] = run[i]
    /\ \A i \in 1..Len(readers) : readers[i] = run[i]

StackInv ==
    backend = "reftable" =>
        /\ names \in Seq(1..gitSteps + 1)
        /\ readers \in Seq(Tables)
        /\ Len(readers) <= Len(names)
        /\ spc \in {"tables", "open"} =>
              snapshot \in Tables /\ snapshot[0] \in Oids \cup Names \cup {Bad}
        /\ spc = "tables" => names = <<>> \/ \E run \in Seq(Tables) : IsRun(run)
        /\ spc = "open" =>
              merged[0] = None \/ \A k \in Keys : merged[k] = snapshot[k] /\ merged[k] # Bad

StoreInv ==
    /\ DiskTypeOK /\ OpenTypeOK /\ PhaseInv /\ HintsKept /\ PeelsKept /\ WalkInv
    /\ TablesInv /\ StackInv /\ StackIsSnapshot /\ HeadMatchesList

(***************************************************************************)
(* Facts about tables.                                                     *)
(***************************************************************************)
\* Merge is Latest without the deletions.
LEMMA MergeRecord ==
    ASSUME NEW ts, NEW k \in Keys
    PROVE  Merge(ts)[k] = IF Latest(ts)[k] = Deleted THEN None ELSE Latest(ts)[k]
BY DEF Merge, WithoutDeletions

\* An empty run has no records.
LEMMA NoTables ==
    ASSUME NEW ts, Len(ts) = 0, NEW k \in Keys
    PROVE  Latest(ts)[k] = None /\ Merge(ts)[k] = None
<1>1. LastRecord(ts, 0, k, Latest(ts)[k])
  BY LatestRecord
<1>2. Latest(ts)[k] = None
  BY <1>1 DEF LastRecord
<1> QED
  BY <1>2, MergeRecord

\* A run of one table has its records.
LEMMA OneTable ==
    ASSUME NEW ts, Len(ts) = 1, NEW k \in Keys, ts[1][k] # Deleted
    PROVE  Merge(ts)[k] = ts[1][k]
<1>0. Len(ts) \in Nat
  OBVIOUS
<1>1. LastRecord(ts, Len(ts), k, Latest(ts)[k])
  BY <1>0, LatestRecord
<1>2. 1 \in 1..1 /\ \A i \in 1..1 : i = 1
  OBVIOUS
<1>3. Latest(ts)[k] = ts[1][k]
  BY <1>1, <1>2 DEF LastRecord
<1> QED
  BY <1>3, MergeRecord

\* The latest records of a run make a table.
LEMMA LatestType ==
    ASSUME NEW ts, Len(ts) \in Nat, \A i \in 1..Len(ts) : ts[i] \in Tables
    PROVE  Latest(ts) \in Tables
<1>1. PICK f : /\ f = [i \in 0..Len(ts) |->
                        IF i = 0 THEN Empty
                        ELSE [k \in Keys |-> IF ts[i][k] = None THEN f[i - 1][k] ELSE ts[i][k]]]
               /\ Latest(ts) = f[Len(ts)]
  BY LatestDef
<1>2. Latest(ts) = [k \in Keys |-> Latest(ts)[k]]
  <2>1. CASE Len(ts) = 0
    BY <1>1, <2>1 DEF Empty
  <2>2. CASE Len(ts) # 0
    <3>1. Latest(ts) = [k \in Keys |-> IF ts[Len(ts)][k] = None THEN f[Len(ts) - 1][k]
                                       ELSE ts[Len(ts)][k]]
      <4>1. PICK L \in Nat : L = Len(ts)
        OBVIOUS
      <4>2. L \in 0..L /\ L # 0
        BY <2>2, <4>1
      <4> QED
        BY <1>1, <4>1, <4>2
    <3> QED
      BY <3>1
  <2> QED
    BY <2>1, <2>2
<1>3. ASSUME NEW k \in Keys PROVE Latest(ts)[k] \in Values
  <2>1. LastRecord(ts, Len(ts), k, Latest(ts)[k])
    BY LatestRecord
  <2>2. Latest(ts)[k] = None \/ \E i \in 1..Len(ts) : ts[i][k] = Latest(ts)[k]
    BY <2>1 DEF LastRecord
  <2> QED
    BY <2>2 DEF Tables, Values
<1> QED
  BY <1>2, <1>3 DEF Tables

\* Forgetting deletions leaves a table.
LEMMA WithoutDeletionsType ==
    ASSUME NEW t \in Tables
    PROVE  WithoutDeletions(t) \in Tables
BY DEF WithoutDeletions, Tables, Values

\* The refs make a table, one without deletions.
LEMMA RecordsType ==
    ASSUME DiskTypeOK
    PROVE  /\ Records \in Tables
           /\ \A k \in Keys : Records[k] # Deleted
           /\ Records[0] = headFile
           /\ \A n \in Names : Records[n] = loose[n]
<1>1. Keys = {0} \cup Names /\ 0 \notin Names
  BY NumRefsAssumption DEF Keys, Names
<1>2. \A k \in Keys : k \in Names \/ k = 0
  BY <1>1
<1>3. Deleted \notin Oids \cup Names \cup {None, Bad}
  BY DistinctAssumption, MarksAssumption DEF Names
<1> QED
  BY <1>1, <1>2, <1>3 DEF Records, Tables, Values, DiskTypeOK

\* The tables of the list.
LEMMA ListedType ==
    ASSUME files \in [DOMAIN files -> Tables], tablesList \in Seq(DOMAIN files)
    PROVE  /\ Len(tablesList) \in Nat
           /\ Len(Listed) = Len(tablesList)
           /\ Listed \in Seq(Tables)
           /\ \A i \in 1..Len(tablesList) :
                 Listed[i] = files[tablesList[i]] /\ tablesList[i] \in DOMAIN files
<1>1. Len(tablesList) \in Nat
  OBVIOUS
<1>2. \A i \in 1..Len(tablesList) : tablesList[i] \in DOMAIN files
  OBVIOUS
<1>3. \A i \in 1..Len(tablesList) : files[tablesList[i]] \in Tables
  BY <1>2
<1>4. Listed \in [1..Len(tablesList) -> Tables]
  BY <1>3 DEF Listed
<1> QED
  BY <1>1, <1>2, <1>4 DEF Listed

\* A sequence over a set is one over a larger set.
LEMMA WiderSeq ==
    ASSUME NEW S, NEW T, S \subseteq T, NEW s \in Seq(S)
    PROVE  s \in Seq(T)
<1>1. s \in [1..Len(s) -> S] /\ Len(s) \in Nat
  OBVIOUS
<1>2. s \in [1..Len(s) -> T]
  BY <1>1
<1> QED
  BY <1>1, <1>2

\* What the repository and the store are when the opening begins.
LEMMA StoreInitInv ==
    ASSUME StoreInit
    PROVE  StoreInv
<1> USE DEF StoreInit
<1>1. DiskTypeOK /\ HintsKept
  <2>1. PICK lines \in SUBSET Names :
          /\ \A n \in Names : HintPromised(trait, n) => n \in lines
          /\ hint = [n \in Names |-> IF n \in lines THEN PeelOf(packed[n]) ELSE None]
    OBVIOUS
  <2>2. packed \in [Names -> Oids \cup {None}]
    BY PackedOidsAssumption
  <2>3. hint \in [Names -> Oids \cup {None}]
    BY <2>1, <2>2, PeelOfType
  <2>4. HintsKept
    BY <2>1 DEF HintsKept
  <2> QED
    BY <2>2, <2>3, <2>4, BackendsAssumption, ContentsAssumption DEF DiskTypeOK
<1>2. OpenTypeOK /\ PhaseInv /\ PeelsKept /\ WalkInv
  BY DEF OpenTypeOK, PhaseInv, PeelsKept, WalkInv, StackIdle
<1>3. StackIsSnapshot /\ HeadMatchesList
  BY DEF StackIsSnapshot, HeadMatchesList
<1>4. StackInv
  BY DEF StackInv, StackIdle
<1>5. TablesInv
  <2> SUFFICES ASSUME backend = "reftable" PROVE TablesInv
    BY DEF TablesInv
  <2>1. files = [f \in {1} |-> Records] /\ tablesList \in {<<1>>, <<>>} /\ gitSteps = 0
    OBVIOUS
  <2>2. Records \in Tables /\ \A k \in Keys : Records[k] # Deleted
    BY <1>1, RecordsType
  <2>3. DOMAIN files = {1} /\ files \in [DOMAIN files -> Tables] /\ files[1] = Records
    BY <2>1, <2>2
  <2>4. tablesList \in Seq(DOMAIN files)
    <3>1. <<1>> \in Seq({1}) /\ <<>> \in Seq({1})
      OBVIOUS
    <3> QED
      BY <2>1, <2>3, <3>1
  <2>5. ASSUME tablesList # <<>>, NEW k \in Keys PROVE Merge(Listed)[k] = Records[k]
    <3>1. tablesList = <<1>> /\ Len(tablesList) = 1 /\ tablesList[1] = 1
      BY <2>1, <2>5
    <3>2. Len(Listed) = 1 /\ Listed[1] = Records
      BY <2>3, <2>4, <3>1, ListedType
    <3> QED
      BY <2>2, <3>2, OneTable
  <2>6. DOMAIN files \subseteq 1..gitSteps + 1
    BY <2>1, <2>3
  <2> QED
    BY <2>3, <2>4, <2>5, <2>6 DEF TablesInv
<1> QED
  BY <1>1, <1>2, <1>3, <1>4, <1>5 DEF StoreInv

(***************************************************************************)
(* The files backend.                                                      *)
(***************************************************************************)
\* The first of a set is one of it.
LEMMA FirstIn ==
    ASSUME NEW S, S \subseteq Nat, S # {}
    PROVE  First(S) \in S
<1>1. \E n \in S : \A m \in S : n <= m
  BY LeastNumber
<1> QED
  BY <1>1, Zenon DEF First

\* Entries are entries, and not None.
LEMMA EntryTypes ==
    ASSUME DiskTypeOK
    PROVE  /\ \A n \in Names : packed[n] # None =>
                 PackedEntry(n) \in RefEntries /\ PackedEntry(n) # None
           /\ \A o \in Oids : LooseEntry(o) \in RefEntries /\ LooseEntry(o) # None
           /\ \A o \in Oids : ReftableEntry(o) \in RefEntries /\ ReftableEntry(o) # None
<1>1. \A n \in Names : packed[n] # None => PackedEntry(n) \in RefEntries
  BY DEF PackedEntry, RefEntries, DiskTypeOK
<1>2. \A o \in Oids : LooseEntry(o) \in RefEntries
  BY DEF LooseEntry, RefEntries
<1>3. \A o \in Oids : ReftableEntry(o) \in RefEntries
  BY PeelOfType DEF ReftableEntry, RefEntries
<1> QED
  BY <1>1, <1>2, <1>3, NoneAssumption

\* The parts about the disk and the tables, and the part about the opening.
DiskPart == DiskTypeOK /\ HintsKept /\ TablesInv /\ StackInv
OpenPart == OpenTypeOK /\ PhaseInv /\ PeelsKept /\ WalkInv /\ StackIsSnapshot /\ HeadMatchesList

\* Reading changes nothing on the disk.
LEMMA DiskUnchanged ==
    ASSUME StoreInv, UNCHANGED diskVars, UNCHANGED stackVars
    PROVE  DiskPart'
<1> USE DEF StoreInv, diskVars, stackVars, tableVars
<1>1. DiskTypeOK'
  BY DEF DiskTypeOK
<1>2. HintsKept'
  BY DEF HintsKept
<1>3. Listed' = Listed /\ Records' = Records
  BY DEF Listed, Records
<1>4. TablesInv'
  BY <1>3 DEF TablesInv
<1>5. StackInv'
  BY DEF StackInv, IsRun
<1> QED
  BY <1>1, <1>2, <1>4, <1>5 DEF DiskPart

\* An opening that fails.
LEMMA OpenFailsInv ==
    ASSUME StoreInv, OpenFails, backend' = backend, dirs' = dirs, removed' = removed,
           spc' \in {"idle", "failed", "closed"}, readers' = <<>>, backend = "files" => spc' = "idle"
    PROVE  OpenPart'
<1> USE DEF StoreInv, OpenFails
<1>1. OpenTypeOK' /\ PhaseInv'
  BY DEF OpenTypeOK, PhaseInv
<1>2. PeelsKept'
  BY DEF PeelsKept, PeelKnown
<1>3. WalkInv'
  BY DEF WalkInv
<1>4. StackIsSnapshot' /\ HeadMatchesList'
  BY DEF StackIsSnapshot, HeadMatchesList
<1> QED
  BY <1>1, <1>2, <1>3, <1>4 DEF OpenPart

\* The same, while the files backend is being opened.
LEMMA FilesFail ==
    ASSUME StoreInv, OpenFails, UNCHANGED diskVars, UNCHANGED stackVars, backend = "files"
    PROVE  OpenPart'
BY OpenFailsInv DEF StoreInv, PhaseInv, diskVars, stackVars

\* readPackedRefsFile.
LEMMA ReadPackedRefsInv ==
    ASSUME StoreInv, ReadPackedRefs, UNCHANGED stackVars
    PROVE  OpenPart'
<1>d. backend = "files" /\ opc = "packed" /\ UNCHANGED diskVars
  BY DEF ReadPackedRefs
<1>1. CASE trait = "malformed" /\ OpenFails
  BY <1>1, <1>d, FilesFail
<1>2. CASE trait # "malformed" /\ ~OpenFails
  <2>1. /\ opc' = "root" /\ traits' = trait
        /\ refs' = [n \in Names |-> IF packed[n] = None THEN None ELSE PackedEntry(n)]
        /\ UNCHANGED <<todoDirs, todo, hop, seen, head>>
    BY <1>2 DEF ReadPackedRefs
  <2>2. DiskTypeOK /\ OpenTypeOK /\ PhaseInv /\ HintsKept /\ WalkInv
    BY DEF StoreInv
  <2>3. OpenTypeOK' /\ PhaseInv'
    BY <1>d, <2>1, <2>2, EntryTypes DEF OpenTypeOK, PhaseInv, diskVars, stackVars
  <2>4. ASSUME NEW n \in Names, refs'[n] # None, PeelKnown(n)'
        PROVE  refs'[n].peeled = TruePeel[refs'[n].oid]
    <3>1. packed[n] \in Oids /\ refs'[n] = PackedEntry(n)
      BY <2>1, <2>2, <2>4 DEF DiskTypeOK
    <3>2. refs'[n].oid = packed[n] /\ refs'[n].peeled = hint[n]
      BY <3>1 DEF PackedEntry
    <3>3. hint[n] # None \/ HintPromised(trait, n)
      BY <2>1, <2>4, <3>1 DEF PeelKnown, PackedEntry
    <3>4. hint[n] = PeelOf(packed[n])
      BY <2>2, <3>3 DEF HintsKept
    <3> QED
      BY <3>1, <3>2, <3>4, PeelOfType
  <2>5. PeelsKept'
    BY <2>4 DEF PeelsKept
  <2>6. WalkInv'
    <3>1. \A n \in Names : packed'[n] = packed[n] /\ Pending(n)'
      BY <1>d, <2>1 DEF Pending, diskVars
    <3>2. \A n \in Names : MirrorsPacked(n)'
      BY <1>d, <2>1, <2>2, EntryTypes DEF MirrorsPacked, PackedEntry, diskVars
    <3>3. removed' = {} => dirs' = Dirs
      BY <1>d, <2>2 DEF WalkInv, diskVars
    <3> QED
      BY <3>1, <3>2, <3>3 DEF WalkInv
  <2>7. StackIsSnapshot' /\ HeadMatchesList'
    BY <2>1 DEF StackIsSnapshot, HeadMatchesList
  <2> QED
    BY <2>3, <2>5, <2>6, <2>7 DEF OpenPart
<1> QED
  BY <1>1, <1>2, <1>d, FilesFail DEF ReadPackedRefs

\* Dirs are numbers, and so are names.
LEMMA RankTypes == Dirs \subseteq Nat /\ Names \subseteq Nat
BY DirOfAssumption DEF Dirs, Names

\* A step of the walk that changes no entry: what is left to show is how far
\* it has come.
LEMMA WalkStepInv ==
    ASSUME StoreInv, UNCHANGED diskVars, UNCHANGED stackVars,
           UNCHANGED <<traits, refs, hop, head>>, backend = "files", opc \notin {"packed", "failed"},
           opc' \in {"walk", "head"}, todoDirs' \subseteq Dirs, todo' \subseteq Names,
           ASSUME NEW n \in Names \ touched, removed = {}, ~Pending(n)'
           PROVE  loose[n] # Bad /\ (loose[n] \in Oids => ~Pending(n))
    PROVE  OpenPart'
<1>1. OpenTypeOK /\ PhaseInv /\ PeelsKept /\ WalkInv
  BY DEF StoreInv
<1>2. OpenTypeOK' /\ PhaseInv'
  BY <1>1 DEF OpenTypeOK, PhaseInv, diskVars, stackVars
<1>3. PeelsKept'
  BY <1>1 DEF PeelsKept, PeelKnown
<1>4. WalkInv'
  <2> SUFFICES ASSUME removed = {} PROVE WalkInv'
    BY DEF WalkInv, diskVars
  <2>1. dirs = Dirs /\ dirs' = dirs
    BY <1>1 DEF WalkInv, diskVars
  <2>2. ASSUME NEW n \in Names \ touched
        PROVE  /\ (loose[n] \notin Oids => MirrorsPacked(n))'
               /\ (~Pending(n) => loose[n] # Bad /\ (loose[n] \in Oids => MirrorsLoose(n)))'
    <3>1. loose'[n] = loose[n] /\ packed'[n] = packed[n] /\ refs'[n] = refs[n]
      BY DEF diskVars
    <3>2. loose[n] \notin Oids => MirrorsPacked(n)
      BY <1>1 DEF WalkInv
    <3>3. ~Pending(n) => loose[n] # Bad /\ (loose[n] \in Oids => MirrorsLoose(n))
      BY <1>1 DEF WalkInv
    <3>4. MirrorsPacked(n)' <=> MirrorsPacked(n)
      BY <3>1 DEF MirrorsPacked
    <3>5. MirrorsLoose(n)' <=> MirrorsLoose(n)
      BY <3>1 DEF MirrorsLoose
    <3> QED
      BY <3>1, <3>2, <3>3, <3>4, <3>5
  <2>3. touched' = touched
    BY DEF diskVars
  <2> QED
    BY <2>1, <2>2, <2>3 DEF WalkInv
<1>5. StackIsSnapshot' /\ HeadMatchesList'
  BY DEF StackIsSnapshot, HeadMatchesList
<1> QED
  BY <1>2, <1>3, <1>4, <1>5 DEF OpenPart

\* WalkDir lists refs/.
LEMMA ReadRefsDirInv ==
    ASSUME StoreInv, ReadRefsDir, UNCHANGED stackVars
    PROVE  OpenPart'
<1>1. /\ opc = "root" /\ opc' = "walk" /\ todoDirs' = dirs /\ todo' = todo
      /\ UNCHANGED diskVars /\ UNCHANGED <<traits, refs, hop, head>>
  BY DEF ReadRefsDir
<1>2. DiskTypeOK /\ OpenTypeOK /\ PhaseInv /\ WalkInv
  BY DEF StoreInv
<1>3. backend = "files" /\ todoDirs' \subseteq Dirs /\ todo' \subseteq Names
  BY <1>1, <1>2 DEF PhaseInv, DiskTypeOK, OpenTypeOK
<1>4. ASSUME NEW n \in Names \ touched, removed = {} PROVE Pending(n)'
  BY <1>1, <1>2, <1>3, <1>4 DEF WalkInv, Pending, Dirs
<1> QED
  BY <1>1, <1>3, <1>4, WalkStepInv

\* WalkDir enters a directory, or finds it gone.
LEMMA EnterDirInv ==
    ASSUME StoreInv, EnterDir, UNCHANGED stackVars
    PROVE  OpenPart'
<1>1. /\ opc = "walk" /\ todo = {} /\ todoDirs # {}
      /\ UNCHANGED diskVars /\ UNCHANGED <<traits, refs, hop, head>>
  BY DEF EnterDir
<1>2. DiskTypeOK /\ OpenTypeOK /\ PhaseInv /\ WalkInv
  BY DEF StoreInv
<1>3. backend = "files" /\ todoDirs \subseteq Dirs
  BY <1>1, <1>2 DEF PhaseInv, OpenTypeOK
<1>4. PICK d : d = First(todoDirs) /\ d \in todoDirs
  BY <1>1, <1>3, RankTypes, FirstIn
<1>5. CASE d \in dirs
  <2>1. /\ todo' = {n \in Names : DirOf[n] = d /\ loose[n] # None}
        /\ todoDirs' = todoDirs \ {d} /\ opc' = "walk"
    BY <1>1, <1>4, <1>5 DEF EnterDir
  <2>2. ASSUME NEW n \in Names \ touched, removed = {}, ~Pending(n)'
        PROVE  loose[n] # Bad /\ (loose[n] \in Oids => ~Pending(n))
    <3>1. DirOf[n] \notin todoDirs \ {d} /\ ~(DirOf[n] = d /\ loose[n] # None)
      BY <2>1, <2>2 DEF Pending
    <3>2. CASE DirOf[n] = d
      BY <3>1, <3>2, MarksAssumption, DistinctAssumption
    <3>3. CASE DirOf[n] # d
      <4>1. ~Pending(n)
        BY <1>1, <3>1, <3>3 DEF Pending
      <4> QED
        BY <1>1, <1>2, <1>3, <2>2, <4>1 DEF WalkInv
    <3> QED
      BY <3>2, <3>3
  <2> QED
    BY <1>1, <1>3, <2>1, <2>2, WalkStepInv
<1>6. CASE d \notin dirs
  <2>1. opc' = "head" /\ UNCHANGED <<todo, todoDirs>>
    BY <1>4, <1>6 DEF EnterDir
  <2>2. removed # {}
    BY <1>2, <1>3, <1>4, <1>6 DEF WalkInv
  <2> QED
    BY <1>1, <1>2, <1>3, <2>1, <2>2, WalkStepInv DEF OpenTypeOK
<1> QED
  BY <1>5, <1>6

\* The walk ends.
LEMMA WalkEndsInv ==
    ASSUME StoreInv, WalkEnds, UNCHANGED stackVars
    PROVE  OpenPart'
<1>1. /\ opc = "walk" /\ todo = {} /\ todoDirs = {} /\ opc' = "head"
      /\ todo' = todo /\ todoDirs' = todoDirs
      /\ UNCHANGED diskVars /\ UNCHANGED <<traits, refs, hop, head>>
  BY DEF WalkEnds
<1>2. PhaseInv /\ WalkInv
  BY DEF StoreInv
<1>3. backend = "files"
  BY <1>1, <1>2 DEF PhaseInv
<1>4. \A n \in Names : ~Pending(n)
  BY <1>1 DEF Pending
<1>5. ASSUME NEW n \in Names \ touched, removed = {} PROVE loose[n] # Bad
  BY <1>1, <1>2, <1>3, <1>4, <1>5 DEF WalkInv
<1> QED
  BY <1>1, <1>3, <1>4, <1>5, WalkStepInv

\* The walk reads a file.
LEMMA ReadLooseRefInv ==
    ASSUME StoreInv, ReadLooseRef, UNCHANGED stackVars
    PROVE  OpenPart'
<1>1. opc = "walk" /\ todo # {} /\ UNCHANGED diskVars
  BY DEF ReadLooseRef
<1>2. DiskTypeOK /\ OpenTypeOK /\ PhaseInv /\ WalkInv /\ PeelsKept
  BY DEF StoreInv
<1>3. backend = "files" /\ todo \subseteq Names
  BY <1>1, <1>2 DEF PhaseInv, OpenTypeOK
<1>4. PICK f : f = First(todo) /\ f \in todo /\ f \in Names
  BY <1>1, <1>3, RankTypes, FirstIn
<1>5. CASE OpenFails
  BY <1>1, <1>3, <1>5, FilesFail
<1>6. CASE ~OpenFails
  <2>1. /\ loose[f] \in Oids \cup Names
        /\ refs' = IF loose[f] \in Oids THEN Override(f) ELSE refs
        /\ todo' = todo \ {f}
        /\ UNCHANGED <<opc, traits, todoDirs, hop, seen, head>>
    BY <1>4, <1>6 DEF ReadLooseRef
  <2>2. \A n \in Names : n # f => refs'[n] = refs[n]
    BY <1>2, <2>1 DEF Override, OpenTypeOK
  <2>3. IF loose[f] \in Oids THEN refs'[f] = LooseEntry(loose[f]) ELSE refs'[f] = refs[f]
    BY <1>2, <1>4, <2>1 DEF Override, OpenTypeOK
  <2>4. refs' \in [Names -> RefEntries \cup {None}]
    BY <1>2, <2>1, EntryTypes DEF Override, OpenTypeOK
  <2>5. OpenTypeOK' /\ PhaseInv'
    BY <1>1, <1>2, <2>1, <2>4 DEF OpenTypeOK, PhaseInv, diskVars, stackVars
  <2>6. ASSUME NEW n \in Names, refs'[n] # None, PeelKnown(n)'
        PROVE  refs'[n].peeled = TruePeel[refs'[n].oid]
    <3>1. CASE refs'[n] = refs[n]
      BY <1>2, <2>1, <2>6, <3>1 DEF PeelsKept, PeelKnown
    <3>2. CASE refs'[n] # refs[n]
      <4>1. n = f /\ loose[f] \in Oids /\ refs'[n] = LooseEntry(loose[f])
        BY <2>2, <2>3, <3>2
      <4>2. ~refs'[n].peelKnown /\ ~refs'[n].fromPacked
        BY <4>1 DEF LooseEntry
      <4> QED
        BY <2>6, <4>2 DEF PeelKnown
    <3> QED
      BY <3>1, <3>2
  <2>7. PeelsKept'
    BY <2>6 DEF PeelsKept
  <2>8. WalkInv'
    <3> SUFFICES ASSUME removed = {} PROVE WalkInv'
      BY <1>1 DEF WalkInv, diskVars
    <3>1. dirs' = Dirs
      BY <1>1, <1>2, <1>3 DEF WalkInv, diskVars
    <3>2. loose' = loose /\ packed' = packed /\ touched' = touched
      BY <1>1 DEF diskVars
    <3>3. ASSUME NEW n \in Names \ touched
          PROVE  /\ (loose[n] \notin Oids => MirrorsPacked(n))'
                 /\ (~Pending(n) => loose[n] # Bad /\ (loose[n] \in Oids => MirrorsLoose(n)))'
      <4>1. loose[n] \notin Oids => MirrorsPacked(n)
        BY <1>1, <1>2, <1>3 DEF WalkInv
      <4>2. ~Pending(n) => loose[n] # Bad /\ (loose[n] \in Oids => MirrorsLoose(n))
        BY <1>1, <1>2, <1>3 DEF WalkInv
      <4>3. CASE n = f
        <5>1. loose[n] # Bad
          BY <2>1, <4>3, DistinctAssumption DEF Names
        <5>2. loose[n] \in Oids => MirrorsLoose(n)'
          BY <1>2, <2>3, <3>2, <4>3, EntryTypes DEF MirrorsLoose, LooseEntry
        <5>3. loose[n] \notin Oids => MirrorsPacked(n)'
          BY <2>3, <3>2, <4>1, <4>3 DEF MirrorsPacked
        <5> QED
          BY <3>2, <5>1, <5>2, <5>3
      <4>4. CASE n # f
        <5>1. Pending(n)' <=> Pending(n)
          BY <2>1, <4>4 DEF Pending
        <5>2. MirrorsPacked(n)' <=> MirrorsPacked(n)
          BY <2>2, <3>2, <4>4 DEF MirrorsPacked
        <5>3. MirrorsLoose(n)' <=> MirrorsLoose(n)
          BY <2>2, <3>2, <4>4 DEF MirrorsLoose
        <5> QED
          BY <3>2, <4>1, <4>2, <5>1, <5>2, <5>3
      <4> QED
        BY <4>3, <4>4
    <3> QED
      BY <3>1, <3>2, <3>3 DEF WalkInv
  <2>9. StackIsSnapshot' /\ HeadMatchesList'
    BY <1>1, <2>1 DEF StackIsSnapshot, HeadMatchesList
  <2> QED
    BY <2>5, <2>7, <2>8, <2>9 DEF OpenPart
<1> QED
  BY <1>5, <1>6

\* The walk is over, and the list stays as it is while HEAD is followed.
LEMMA HeadStepInv ==
    ASSUME StoreInv, UNCHANGED diskVars, UNCHANGED stackVars,
           UNCHANGED <<traits, refs, todoDirs, todo>>, opc \in {"head", "hop"},
           opc' \in {"hop", "open"}, opc' = "hop" => hop' \in Names, HeadMatchesList'
    PROVE  OpenPart'
<1>1. OpenTypeOK /\ PhaseInv /\ PeelsKept /\ WalkInv
  BY DEF StoreInv
<1>b. backend = "files"
  BY <1>1 DEF PhaseInv
<1>2. OpenTypeOK' /\ PhaseInv'
  BY <1>1, <1>b DEF OpenTypeOK, PhaseInv, diskVars, stackVars
<1>3. PeelsKept'
  BY <1>1 DEF PeelsKept, PeelKnown
<1>4. WalkInv'
  <2>1. \A n \in Names : ~Pending(n) /\ ~Pending(n)'
    BY DEF Pending
  <2>2. \A n \in Names : (MirrorsPacked(n)' <=> MirrorsPacked(n)) /\ (MirrorsLoose(n)' <=> MirrorsLoose(n))
    BY DEF MirrorsPacked, MirrorsLoose, diskVars
  <2>3. loose' = loose /\ touched' = touched /\ removed' = removed /\ dirs' = dirs /\ backend' = backend
    BY DEF diskVars
  <2>4. opc \notin {"packed", "failed"} /\ opc' \notin {"packed", "failed"}
    OBVIOUS
  <2> QED
    BY <1>1, <2>1, <2>2, <2>3, <2>4 DEF WalkInv
<1>5. StackIsSnapshot'
  BY <1>b DEF StackIsSnapshot, diskVars
<1> QED
  BY <1>2, <1>3, <1>4, <1>5 DEF OpenPart

\* resolveHead.
LEMMA ReadHeadInv ==
    ASSUME StoreInv, ReadHead, UNCHANGED stackVars
    PROVE  OpenPart'
<1>1. opc = "head" /\ UNCHANGED diskVars
  BY DEF ReadHead
<1>2. backend = "files"
  BY <1>1 DEF StoreInv, PhaseInv
<1>3. CASE OpenFails
  BY <1>1, <1>2, <1>3, FilesFail
<1>4. CASE HeadIs(None, headFile, FALSE)
  <2>1. HeadMatchesList'
    BY <1>4 DEF HeadIs, HeadMatchesList
  <2> QED
    BY <1>1, <1>4, <2>1, HeadStepInv DEF HeadIs
<1>5. CASE headFile \in Names /\ opc' = "hop" /\ hop' = headFile
           /\ UNCHANGED <<traits, refs, todoDirs, todo, seen, head>>
  <2>1. HeadMatchesList'
    BY <1>5 DEF HeadMatchesList
  <2> QED
    BY <1>1, <1>5, <2>1, HeadStepInv
<1> QED
  BY <1>3, <1>4, <1>5 DEF ReadHead

\* followSymrefChain.
LEMMA FollowSymrefInv ==
    ASSUME StoreInv, FollowSymref, UNCHANGED stackVars
    PROVE  OpenPart'
<1>1. opc = "hop" /\ UNCHANGED diskVars
  BY DEF FollowSymref
<1>2. backend = "files"
  BY <1>1 DEF StoreInv, PhaseInv
<1>3. CASE OpenFails
  BY <1>1, <1>2, <1>3, FilesFail
<1>4. CASE refs[hop] # None /\ HeadIs(hop, HeadOid, FALSE)
  <2>1. head' = [symref |-> hop, oid |-> refs[hop].oid, unborn |-> FALSE] /\ refs' = refs
    BY <1>4 DEF HeadIs, HeadOid
  <2>2. HeadMatchesList'
    BY <1>4, <2>1 DEF HeadMatchesList
  <2> QED
    BY <1>1, <1>4, <2>2, HeadStepInv DEF HeadIs
<1>5. CASE refs[hop] = None /\ HeadIs(hop, None, TRUE)
  <2>1. head' = [symref |-> hop, oid |-> None, unborn |-> TRUE] /\ refs' = refs
    BY <1>5 DEF HeadIs
  <2>2. HeadMatchesList'
    BY <1>5, <2>1 DEF HeadMatchesList
  <2> QED
    BY <1>1, <1>5, <2>2, HeadStepInv DEF HeadIs
<1>6. CASE loose[hop] \in Names /\ hop' = loose[hop]
           /\ UNCHANGED <<opc, traits, refs, todoDirs, todo, head>>
  <2>1. HeadMatchesList'
    BY <1>1, <1>6 DEF HeadMatchesList
  <2> QED
    BY <1>1, <1>6, <2>1, HeadStepInv
<1> QED
  BY <1>3, <1>4, <1>5, <1>6 DEF FollowSymref

\* A step of the files backend.
LEMMA FilesStepInv ==
    ASSUME StoreInv, OpenFilesStep, UNCHANGED stackVars
    PROVE  StoreInv'
<1>1. UNCHANGED diskVars
  BY DEF OpenFilesStep, ReadPackedRefs, ReadRefsDir, EnterDir, ReadLooseRef, WalkEnds, ReadHead,
         FollowSymref
<1>2. OpenPart'
  BY ReadPackedRefsInv, ReadRefsDirInv, EnterDirInv, ReadLooseRefInv, WalkEndsInv, ReadHeadInv,
     FollowSymrefInv DEF OpenFilesStep
<1> QED
  BY <1>1, <1>2, DiskUnchanged DEF DiskPart, OpenPart, StoreInv

(***************************************************************************)
(* The reftable backend.                                                   *)
(***************************************************************************)
\* A step that leaves the opening's own state alone.
LEMMA OpenUnchanged ==
    ASSUME StoreInv, UNCHANGED openVars, backend' = backend, opc = "packed", backend = "reftable",
           spc' \in {"idle", "failed", "closed"} => readers' = <<>>
    PROVE  OpenPart'
<1> USE DEF StoreInv, openVars
<1>1. OpenTypeOK' /\ PhaseInv'
  BY DEF OpenTypeOK, PhaseInv
<1>2. PeelsKept'
  BY DEF PeelsKept, PeelKnown
<1>3. WalkInv'
  BY DEF WalkInv
<1>4. StackIsSnapshot' /\ HeadMatchesList'
  BY DEF StackIsSnapshot, HeadMatchesList
<1> QED
  BY <1>1, <1>2, <1>3, <1>4 DEF OpenPart

\* The stack lets go of its tables, with or without an error.
LEMMA StackGone ==
    ASSUME StackInv, backend = "reftable", names' = names, readers' = <<>>, gitSteps' = gitSteps,
           spc' \in {"failed", "closed"}
    PROVE  StackInv'
<1>1. <<>> \in Seq(Tables) /\ Len(<<>>) = 0 /\ names \in Seq(1..gitSteps + 1)
  BY DEF StackInv
<1>2. Len(names) \in Nat
  BY <1>1
<1>3. 0 <= Len(names)
  BY <1>2
<1> QED
  BY <1>1, <1>3 DEF StackInv

\* tables.list is read: the tables it lists are the run.
LEMMA ListReadInv ==
    ASSUME StoreInv, backend = "reftable", spc = "idle",
           spc' = "tables", names' = tablesList, UNCHANGED <<readers, merged>>, UNCHANGED tableVars,
           snapshot' = Records, gitSteps' = gitSteps
    PROVE  StackInv'
<1>1. DiskTypeOK /\ TablesInv /\ StackInv /\ PhaseInv
  BY DEF StoreInv
<1>2. files' = files /\ tablesList' = tablesList /\ readers' = <<>>
  BY <1>1 DEF tableVars, PhaseInv
<1>3. /\ DOMAIN files \subseteq 1..gitSteps + 1 /\ files \in [DOMAIN files -> Tables]
      /\ tablesList \in Seq(DOMAIN files)
  BY <1>1 DEF TablesInv
<1>4. names' \in Seq(1..gitSteps' + 1)
  <2>1. tablesList \in Seq(1..gitSteps + 1)
    BY <1>3, WiderSeq
  <2> QED
    BY <2>1
<1>5. Len(names') \in Nat
  BY <1>3
<1>6. readers' \in Seq(Tables) /\ Len(readers') = 0 /\ Len(readers') <= Len(names')
  <2>1. <<>> \in Seq(Tables) /\ Len(<<>>) = 0
    OBVIOUS
  <2> QED
    BY <1>2, <1>5, <2>1
<1>7. snapshot' \in Tables /\ snapshot'[0] \in Oids \cup Names \cup {Bad}
  BY <1>1, RecordsType DEF DiskTypeOK
<1>8. ASSUME names' # <<>> PROVE IsRun(Listed)' /\ Listed' \in Seq(Tables)
  <2>1. Listed' = Listed
    BY <1>2 DEF Listed
  <2>2. /\ Len(Listed) = Len(tablesList) /\ Listed \in Seq(Tables)
        /\ \A j \in 1..Len(tablesList) : Listed[j] = files[tablesList[j]]
    BY <1>3, ListedType
  <2>3. \A k \in Keys : Merge(Listed)[k] = Records[k]
    BY <1>1, <1>8 DEF TablesInv
  <2>4. \A j \in 1..Len(readers') : readers'[j] = Listed[j]
    BY <1>6
  <2> QED
    BY <1>2, <2>1, <2>2, <2>3, <2>4 DEF IsRun
<1>9. names' = <<>> \/ \E run \in Seq(Tables) : IsRun(run)'
  BY <1>8
<1> QED
  BY <1>4, <1>6, <1>7, <1>9 DEF StackInv

\* A table is opened: it is the next of the run, for it is still there.
LEMMA TableOpenedInv ==
    ASSUME StoreInv, backend = "reftable", spc = "tables", Len(readers) < Len(names),
           names[Len(readers) + 1] \in DOMAIN files,
           readers' = Append(readers, files[names[Len(readers) + 1]]),
           UNCHANGED <<spc, names, merged>>, UNCHANGED tableVars,
           snapshot' = snapshot, gitSteps' = gitSteps
    PROVE  StackInv'
<1>1. TablesInv /\ StackInv
  BY DEF StoreInv
<1>2. files' = files
  BY DEF tableVars
<1>3. files \in [DOMAIN files -> Tables]
  BY <1>1 DEF TablesInv
<1>4. names \in Seq(1..gitSteps + 1) /\ readers \in Seq(Tables)
  BY <1>1 DEF StackInv
<1>5. PICK r \in Nat : r = Len(readers)
  BY <1>4
<1>6. PICK m \in Nat : m = Len(names)
  BY <1>4
<1>7. PICK t \in Tables : t = files[names[r + 1]]
  BY <1>3, <1>5
<1>8. /\ readers' \in Seq(Tables) /\ Len(readers') = r + 1 /\ readers'[r + 1] = t
      /\ \A j \in 1..r : readers'[j] = readers[j]
  BY <1>4, <1>5, <1>7
<1>9. r + 1 \in 1..m /\ Len(readers') <= Len(names')
  BY <1>5, <1>6, <1>8
<1>10. names # <<>>
  <2>1. m # 0
    BY <1>9
  <2> QED
    BY <1>6, <2>1
<1>11. PICK run \in Seq(Tables) : IsRun(run)
  BY <1>1, <1>10 DEF StackInv
<1>12. ASSUME NEW j \in 1..r + 1 PROVE readers'[j] = run[j]
  <2>1. CASE j = r + 1
    BY <1>5, <1>6, <1>7, <1>8, <1>9, <1>11, <2>1 DEF IsRun
  <2>2. CASE j # r + 1
    <3>1. j \in 1..r
      BY <2>2
    <3> QED
      BY <1>5, <1>8, <1>11, <3>1 DEF IsRun
  <2> QED
    BY <2>1, <2>2
<1>13. IsRun(run)'
  BY <1>2, <1>8, <1>11, <1>12 DEF IsRun
<1> QED
  BY <1>1, <1>4, <1>8, <1>9, <1>13 DEF StackInv

\* The tables are merged: all of the run is open, so the merged view is the
\* snapshot.
LEMMA MergedInv ==
    ASSUME StoreInv, backend = "reftable", spc = "tables", Len(readers) = Len(names),
           ~(\E i \in DOMAIN readers, k \in Keys : readers[i][k] = Bad),
           merged' = Merge(readers), spc' = "open", UNCHANGED <<names, readers>>,
           snapshot' = snapshot, gitSteps' = gitSteps
    PROVE  StackInv'
<1>1. StackInv
  BY DEF StoreInv
<1>2. names \in Seq(1..gitSteps + 1) /\ readers \in Seq(Tables)
  BY <1>1 DEF StackInv
<1>3. PICK r \in Nat : r = Len(readers) /\ DOMAIN readers = 1..r
  BY <1>2
<1>4. CASE names = <<>>
  <2>1. Len(readers) = 0 /\ 0 \in Keys
    BY <1>4, NumRefsAssumption DEF Keys
  <2>2. merged'[0] = None
    BY <2>1, NoTables
  <2> QED
    BY <1>1, <1>2, <2>2 DEF StackInv
<1>5. CASE names # <<>>
  <2>1. PICK run \in Seq(Tables) : IsRun(run)
    BY <1>1, <1>5 DEF StackInv
  <2>2. Len(run) = r /\ \A i \in 1..r : readers[i] = run[i]
    BY <1>3, <2>1 DEF IsRun
  <2>3. ASSUME NEW k \in Keys PROVE merged'[k] = snapshot[k] /\ merged'[k] # Bad
    <3>1. Latest(readers)[k] = Latest(run)[k]
      BY <1>3, <2>2, SameRun
    <3>2. merged'[k] = Merge(run)[k]
      BY <3>1, MergeRecord
    <3>3. Merge(run)[k] = snapshot[k]
      BY <2>1 DEF IsRun
    <3>4. LastRecord(readers, r, k, Latest(readers)[k])
      BY <1>3, LatestRecord
    <3>5. \A i \in 1..r : readers[i][k] # Bad
      BY <1>3
    <3>6. Latest(readers)[k] # Bad
      BY <3>4, <3>5, MarksAssumption DEF LastRecord
    <3>7. merged'[k] # Bad
      BY <3>6, MergeRecord, MarksAssumption
    <3> QED
      BY <3>2, <3>3, <3>7
  <2> QED
    BY <1>1, <1>2, <2>3 DEF StackInv
<1> QED
  BY <1>4, <1>5

\* OpenStack, step by step.
LEMMA OpenReftableStackInv ==
    ASSUME StoreInv, OpenReftableStack
    PROVE  StoreInv'
<1>1. /\ opc = "packed" /\ backend = "reftable" /\ OpenStackStep
      /\ snapshot' = IF spc = "idle" THEN Records ELSE snapshot
      /\ UNCHANGED <<openVars, backend, packed, hint, trait, loose, dirs, headFile, touched, removed, gitSteps>>
  BY DEF OpenReftableStack
<1>2. UNCHANGED tableVars
  BY <1>1 DEF OpenStackStep, ReadTablesList, TablesListInvalid, OpenTable, MergeTables
<1>3. DiskTypeOK /\ HintsKept /\ TablesInv /\ StackInv /\ PhaseInv
  BY DEF StoreInv
<1>4. DiskTypeOK' /\ HintsKept'
  BY <1>1, <1>3 DEF DiskTypeOK, HintsKept
<1>5. TablesInv'
  <2>1. Listed' = Listed /\ Records' = Records
    BY <1>1, <1>2 DEF Listed, Records, tableVars
  <2> QED
    BY <1>1, <1>2, <1>3, <2>1 DEF TablesInv, tableVars
<1>6. StackInv' /\ (spc' \in {"idle", "failed", "closed"} => readers' = <<>>)
  <2>1. CASE StackFails
    BY <1>1, <1>3, <2>1, StackGone DEF StackFails
  <2>2. CASE spc = "idle" /\ spc' = "tables" /\ names' = tablesList /\ UNCHANGED <<readers, merged>>
    BY <1>1, <1>2, <2>2, ListReadInv
  <2>3. CASE /\ spc = "tables" /\ Len(readers) < Len(names)
             /\ names[Len(readers) + 1] \in DOMAIN files
             /\ readers' = Append(readers, files[names[Len(readers) + 1]])
             /\ UNCHANGED <<spc, names, merged>>
    <3>1. StackInv'
      BY <1>1, <1>2, <2>3, TableOpenedInv
    <3> QED
      BY <2>3, <3>1
  <2>4. CASE /\ spc = "tables" /\ Len(readers) = Len(names)
             /\ ~(\E i \in DOMAIN readers, k \in Keys : readers[i][k] = Bad)
             /\ merged' = Merge(readers) /\ spc' = "open" /\ UNCHANGED <<names, readers>>
    <3>1. StackInv'
      BY <1>1, <2>4, MergedInv
    <3> QED
      BY <2>4, <3>1
  <2> QED
    BY <1>1, <2>1, <2>2, <2>3, <2>4, Zenon
    DEF OpenStackStep, ReadTablesList, TablesListInvalid, OpenTable, MergeTables
<1>7. OpenPart'
  BY <1>1, <1>6, OpenUnchanged
<1> QED
  BY <1>4, <1>5, <1>6, <1>7 DEF OpenPart, StoreInv

\* The stack could not be opened, or has no HEAD.
LEMMA OpenReftableFailsInv ==
    ASSUME StoreInv, OpenReftableFails
    PROVE  StoreInv'
<1>1. opc = "packed" /\ backend = "reftable" /\ OpenFails /\ UNCHANGED diskVars
  BY DEF OpenReftableFails
<1>2. DiskTypeOK /\ HintsKept /\ TablesInv /\ StackInv /\ PhaseInv
  BY DEF StoreInv
<1>3. CASE spc = "failed" /\ UNCHANGED stackVars
  <2>1. OpenPart'
    BY <1>1, <1>2, <1>3, OpenFailsInv DEF PhaseInv, diskVars, stackVars
  <2> QED
    BY <1>1, <1>3, <2>1, DiskUnchanged DEF DiskPart, OpenPart, StoreInv
<1>4. CASE CloseStack
  <2>1. OpenPart'
    BY <1>1, <1>4, OpenFailsInv DEF CloseStack, diskVars
  <2>2. StackInv'
    BY <1>1, <1>2, <1>4, StackGone DEF CloseStack, diskVars
  <2>3. DiskTypeOK' /\ HintsKept'
    BY <1>1, <1>2 DEF DiskTypeOK, HintsKept, diskVars
  <2>4. Listed' = Listed /\ Records' = Records
    BY <1>1 DEF Listed, Records, diskVars, tableVars
  <2>5. TablesInv'
    BY <1>1, <1>2, <2>4 DEF TablesInv, diskVars, tableVars
  <2> QED
    BY <2>1, <2>2, <2>3, <2>5 DEF OpenPart, StoreInv
<1> QED
  BY <1>3, <1>4 DEF OpenReftableFails

\* The refs and HEAD are taken from the merged view.
LEMMA OpenReftableInv ==
    ASSUME StoreInv, OpenReftable
    PROVE  StoreInv'
<1>1. /\ opc = "packed" /\ backend = "reftable" /\ spc = "open" /\ merged[0] # None /\ opc' = "open"
      /\ refs' = [n \in Names |-> IF merged[n] \in Oids THEN ReftableEntry(merged[n]) ELSE None]
      /\ head' = ReftableHead
      /\ UNCHANGED <<traits, todoDirs, todo, hop, seen>>
      /\ UNCHANGED diskVars /\ UNCHANGED stackVars
  BY DEF OpenReftable
<1>2. DiskTypeOK /\ OpenTypeOK /\ PhaseInv /\ StackInv
  BY DEF StoreInv
<1>k. Keys = {0} \cup Names
  BY NumRefsAssumption DEF Keys, Names
<1>3. \A k \in Keys : merged[k] = snapshot[k] /\ merged[k] # Bad
  BY <1>1, <1>2 DEF StackInv
<1>4. snapshot[0] \in Oids \cup Names /\ merged[0] = snapshot[0]
  BY <1>1, <1>2, <1>3, <1>k DEF StackInv
<1>5. Oids \cap Names = {} /\ None \notin Oids /\ None \notin Names
  BY DistinctAssumption DEF Names
<1>6. OpenTypeOK' /\ PhaseInv'
  BY <1>1, <1>2, EntryTypes DEF OpenTypeOK, PhaseInv, diskVars, stackVars
<1>7. PeelsKept'
  BY <1>1, PeelOfType DEF PeelsKept, ReftableEntry
<1>8. WalkInv'
  BY <1>1 DEF WalkInv, diskVars
<1>9. \A n \in Names :
        IF merged[n] \in Oids THEN refs'[n] # None /\ refs'[n].oid = merged[n] ELSE refs'[n] = None
  BY <1>1, <1>2, EntryTypes DEF ReftableEntry
<1>10. snapshot' = snapshot
  BY <1>1 DEF diskVars
<1>11. CASE snapshot[0] \in Oids
  <2>1. head' = [symref |-> None, oid |-> merged[0], unborn |-> FALSE]
    BY <1>1, <1>4, <1>11 DEF ReftableHead
  <2>2. StackIsSnapshot'
    BY <1>3, <1>k, <1>5, <1>9, <1>10, <1>11, <2>1 DEF StackIsSnapshot
  <2>3. HeadMatchesList'
    BY <2>1 DEF HeadMatchesList
  <2> QED
    BY <1>1, <1>6, <1>7, <1>8, <2>2, <2>3, DiskUnchanged DEF DiskPart, StoreInv
<1>12. CASE snapshot[0] \in Names
  <2>0. PICK b \in Names : b = snapshot[0]
    BY <1>12
  <2>1. head' = [symref |-> b, oid |-> IF merged[b] \in Oids THEN merged[b] ELSE None,
                 unborn |-> merged[b] = None]
    BY <1>1, <1>4, <1>5, <2>0 DEF ReftableHead
  <2>2. /\ head'.symref = b /\ head'.unborn = (merged[b] = None)
        /\ head'.oid = IF merged[b] \in Oids THEN merged[b] ELSE None
    BY <2>1
  <2>3. StackIsSnapshot'
    BY <1>3, <1>k, <1>5, <1>9, <1>10, <2>0, <2>2 DEF StackIsSnapshot
  <2>4. HeadMatchesList'
    BY <1>5, <1>9, <2>0, <2>2 DEF HeadMatchesList
  <2> QED
    BY <1>1, <1>6, <1>7, <1>8, <2>3, <2>4, DiskUnchanged DEF DiskPart, StoreInv
<1> QED
  BY <1>4, <1>11, <1>12

(***************************************************************************)
(* Git on loose and packed refs.                                           *)
(***************************************************************************)
\* What Git does to files disturbs nothing but what is on the disk.
LEMMA GitActsInv ==
    ASSUME StoreInv, GitActs
    PROVE  /\ OpenTypeOK' /\ PhaseInv' /\ PeelsKept' /\ StackIsSnapshot' /\ HeadMatchesList'
           /\ TablesInv' /\ StackInv'
<1>1. /\ backend = "files" /\ backend' = backend /\ snapshot' = snapshot
      /\ UNCHANGED openVars /\ UNCHANGED stackVars
  BY DEF GitActs, GitRuns
<1> USE DEF StoreInv, openVars, stackVars
<1>2. OpenTypeOK' /\ PhaseInv'
  BY <1>1 DEF OpenTypeOK, PhaseInv
<1>3. PeelsKept'
  BY <1>1 DEF PeelsKept, PeelKnown
<1>4. StackIsSnapshot' /\ HeadMatchesList'
  BY <1>1 DEF StackIsSnapshot, HeadMatchesList
<1>5. TablesInv' /\ StackInv'
  BY <1>1 DEF TablesInv, StackInv
<1> QED
  BY <1>2, <1>3, <1>4, <1>5

\* Of a ref that stays untouched Git may only pack the loose id.
LEMMA UntouchedStays ==
    ASSUME StoreInv, GitActs, touched \subseteq touched', removed \subseteq removed',
           removed' = {} => dirs' = Dirs,
           \A n \in Names \ touched' :
               loose'[n] = loose[n] /\ (packed'[n] = packed[n] \/ loose[n] \in Oids)
    PROVE  WalkInv'
<1>1. backend = "files" /\ UNCHANGED openVars
  BY DEF GitActs, GitRuns
<1> SUFFICES ASSUME removed' = {}, opc \notin {"packed", "failed"}, NEW n \in Names \ touched'
             PROVE  /\ (loose[n] \notin Oids => MirrorsPacked(n))'
                    /\ (~Pending(n) => loose[n] # Bad /\ (loose[n] \in Oids => MirrorsLoose(n)))'
  BY <1>1 DEF WalkInv, openVars
<1>2. removed = {} /\ n \in Names \ touched
  OBVIOUS
<1>3. WalkInv
  BY DEF StoreInv
<1>4. /\ loose[n] \notin Oids => MirrorsPacked(n)
      /\ ~Pending(n) => loose[n] # Bad /\ (loose[n] \in Oids => MirrorsLoose(n))
  BY <1>1, <1>2, <1>3 DEF WalkInv
<1>5. Pending(n)' <=> Pending(n)
  BY <1>1 DEF Pending, openVars
<1>6. MirrorsLoose(n)' <=> MirrorsLoose(n)
  BY <1>1 DEF MirrorsLoose, openVars
<1>7. loose[n] \notin Oids => (MirrorsPacked(n)' <=> MirrorsPacked(n))
  BY <1>1 DEF MirrorsPacked, openVars
<1> QED
  BY <1>4, <1>5, <1>6, <1>7

\* git update-ref.
LEMMA GitUpdatesInv ==
    ASSUME StoreInv, GitUpdates
    PROVE  StoreInv'
<1>1. GitActs /\ UNCHANGED <<packed, hint, trait, removed>>
  BY DEF GitUpdates
<1>2. PICK n \in Names, o \in Oids :
        /\ loose' = [loose EXCEPT ![n] = o]
        /\ dirs' = dirs \cup {DirOf[n]}
        /\ touched' = touched \cup {n}
  BY DEF GitUpdates
<1>3. DiskTypeOK /\ HintsKept /\ WalkInv
  BY DEF StoreInv
<1>4. backend = "files" /\ backend' = backend /\ headFile' = headFile /\ gitSteps' = gitSteps + 1
  BY <1>1 DEF GitActs, GitRuns
<1>5. DirOf[n] \in Dirs
  BY DEF Dirs
<1>6. DiskTypeOK' /\ HintsKept'
  BY <1>1, <1>2, <1>3, <1>4, <1>5 DEF DiskTypeOK, HintsKept
<1>7. WalkInv'
  <2>1. removed' = {} => dirs' = Dirs
    BY <1>1, <1>2, <1>3, <1>4, <1>5 DEF WalkInv
  <2>2. \A m \in Names \ touched' : loose'[m] = loose[m] /\ packed'[m] = packed[m]
    BY <1>1, <1>2, <1>3 DEF DiskTypeOK
  <2> QED
    BY <1>1, <1>2, <2>1, <2>2, UntouchedStays
<1> QED
  BY <1>1, <1>6, <1>7, GitActsInv DEF StoreInv

\* git update-ref -d.
LEMMA GitDeletesInv ==
    ASSUME StoreInv, GitDeletes
    PROVE  StoreInv'
<1>1. GitActs /\ UNCHANGED <<trait, dirs, removed>>
  BY DEF GitDeletes
<1>2. PICK n \in Names :
        /\ loose' = [loose EXCEPT ![n] = None]
        /\ packed' = [packed EXCEPT ![n] = None]
        /\ hint' = [hint EXCEPT ![n] = None]
        /\ touched' = touched \cup {n}
  BY DEF GitDeletes
<1>3. DiskTypeOK /\ HintsKept /\ WalkInv
  BY DEF StoreInv
<1>4. backend = "files" /\ backend' = backend /\ headFile' = headFile /\ gitSteps' = gitSteps + 1
  BY <1>1 DEF GitActs, GitRuns
<1>5. DiskTypeOK'
  BY <1>1, <1>2, <1>3, <1>4 DEF DiskTypeOK
<1>6. HintsKept'
  <2> SUFFICES ASSUME NEW m \in Names
               PROVE  /\ hint'[m] \in {None, PeelOf(packed'[m])}
                      /\ HintPromised(trait, m) => hint'[m] = PeelOf(packed'[m])
    BY <1>1 DEF HintsKept
  <2>1. CASE m = n
    BY <1>2, <1>3, <2>1, PeelOfType DEF DiskTypeOK
  <2>2. CASE m # n
    BY <1>2, <1>3, <2>2 DEF DiskTypeOK, HintsKept
  <2> QED
    BY <2>1, <2>2
<1>7. WalkInv'
  <2>1. removed' = {} => dirs' = Dirs
    BY <1>1, <1>3, <1>4 DEF WalkInv
  <2>2. \A m \in Names \ touched' : loose'[m] = loose[m] /\ packed'[m] = packed[m]
    BY <1>2, <1>3 DEF DiskTypeOK
  <2> QED
    BY <1>1, <1>2, <2>1, <2>2, UntouchedStays
<1> QED
  BY <1>1, <1>5, <1>6, <1>7, GitActsInv DEF StoreInv

\* git pack-refs, the file.
LEMMA GitPacksInv ==
    ASSUME StoreInv, GitPacks
    PROVE  StoreInv'
<1>1. /\ GitActs /\ UNCHANGED <<loose, dirs, touched, removed>>
      /\ packed' = [n \in Names |-> IF loose[n] \in Oids THEN loose[n] ELSE packed[n]]
      /\ hint' = [n \in Names |-> PeelOf(packed'[n])]
  BY DEF GitPacks
<1>2. DiskTypeOK /\ WalkInv
  BY DEF StoreInv
<1>3. backend = "files" /\ backend' = backend /\ headFile' = headFile /\ gitSteps' = gitSteps + 1
  BY <1>1 DEF GitActs, GitRuns
<1>4. packed' \in [Names -> Oids \cup {None}]
  BY <1>1, <1>2 DEF DiskTypeOK
<1>5. hint' \in [Names -> Oids \cup {None}]
  BY <1>1, <1>4, PeelOfType
<1>6. DiskTypeOK' /\ HintsKept'
  BY <1>1, <1>2, <1>3, <1>4, <1>5 DEF DiskTypeOK, HintsKept
<1>7. WalkInv'
  <2>1. removed' = {} => dirs' = Dirs
    BY <1>1, <1>2, <1>3 DEF WalkInv
  <2>2. \A m \in Names \ touched' :
            loose'[m] = loose[m] /\ (packed'[m] = packed[m] \/ loose[m] \in Oids)
    BY <1>1
  <2> QED
    BY <1>1, <2>1, <2>2, UntouchedStays
<1> QED
  BY <1>1, <1>6, <1>7, GitActsInv DEF StoreInv

\* git pack-refs, the loose files it has packed.
LEMMA GitPrunesInv ==
    ASSUME StoreInv, GitPrunes
    PROVE  StoreInv'
<1>1. GitActs /\ UNCHANGED <<packed, hint, trait, dirs, removed>>
  BY DEF GitPrunes
<1>2. PICK n \in Names : loose' = [loose EXCEPT ![n] = None] /\ touched' = touched \cup {n}
  BY DEF GitPrunes
<1>3. DiskTypeOK /\ HintsKept /\ WalkInv
  BY DEF StoreInv
<1>4. backend = "files" /\ backend' = backend /\ headFile' = headFile /\ gitSteps' = gitSteps + 1
  BY <1>1 DEF GitActs, GitRuns
<1>5. DiskTypeOK' /\ HintsKept'
  BY <1>1, <1>2, <1>3, <1>4 DEF DiskTypeOK, HintsKept
<1>6. WalkInv'
  <2>1. removed' = {} => dirs' = Dirs
    BY <1>1, <1>3, <1>4 DEF WalkInv
  <2>2. \A m \in Names \ touched' : loose'[m] = loose[m] /\ packed'[m] = packed[m]
    BY <1>1, <1>2, <1>3 DEF DiskTypeOK
  <2> QED
    BY <1>1, <1>2, <2>1, <2>2, UntouchedStays
<1> QED
  BY <1>1, <1>5, <1>6, GitActsInv DEF StoreInv

\* The directories that leaves empty.
LEMMA GitRemovesDirInv ==
    ASSUME StoreInv, GitRemovesDir
    PROVE  StoreInv'
<1>1. GitActs /\ UNCHANGED <<packed, hint, trait, loose, touched>>
  BY DEF GitRemovesDir
<1>2. PICK d \in dirs : dirs' = dirs \ {d} /\ removed' = removed \cup {d}
  BY DEF GitRemovesDir
<1>3. DiskTypeOK /\ HintsKept
  BY DEF StoreInv
<1>4. backend' = backend /\ headFile' = headFile /\ gitSteps' = gitSteps + 1
  BY <1>1 DEF GitActs, GitRuns
<1>5. DiskTypeOK' /\ HintsKept'
  BY <1>1, <1>2, <1>3, <1>4 DEF DiskTypeOK, HintsKept
<1>6. WalkInv'
  BY <1>2 DEF WalkInv
<1> QED
  BY <1>1, <1>5, <1>6, GitActsInv DEF StoreInv

(***************************************************************************)
(* Git on tables.                                                          *)
(***************************************************************************)
\* What Git does to tables disturbs nothing of the opening.
LEMMA GitTablesInv ==
    ASSUME StoreInv, backend = "reftable", UNCHANGED <<backend, snapshot, packed, hint, trait>>,
           UNCHANGED openVars, UNCHANGED stackVars
    PROVE  OpenPart' /\ HintsKept'
<1> USE DEF StoreInv, openVars, stackVars
<1>1. OpenTypeOK' /\ PhaseInv'
  BY DEF OpenTypeOK, PhaseInv
<1>2. PeelsKept' /\ HintsKept'
  BY DEF PeelsKept, PeelKnown, HintsKept
<1>3. WalkInv'
  BY DEF WalkInv
<1>4. StackIsSnapshot' /\ HeadMatchesList'
  BY DEF StackIsSnapshot, HeadMatchesList
<1> QED
  BY <1>1, <1>2, <1>3, <1>4 DEF OpenPart

\* A run stays one as long as no file of its names changes or comes back.
LEMMA RunStays ==
    ASSUME StackInv, UNCHANGED stackVars, UNCHANGED <<backend, snapshot>>,
           gitSteps \in Nat, gitSteps' \in Nat, gitSteps <= gitSteps',
           \A f \in 1..gitSteps + 1 : f \in DOMAIN files' => f \in DOMAIN files /\ files'[f] = files[f]
    PROVE  StackInv'
<1> SUFFICES ASSUME backend = "reftable" PROVE StackInv'
  BY DEF StackInv
<1>1. names \in Seq(1..gitSteps + 1)
  BY DEF StackInv
<1>2. names' \in Seq(1..gitSteps' + 1)
  <2>1. 1..gitSteps + 1 \subseteq 1..gitSteps' + 1
    OBVIOUS
  <2>2. names \in Seq(1..gitSteps' + 1)
    BY <1>1, <2>1, WiderSeq
  <2> QED
    BY <2>2 DEF stackVars
<1>3. ASSUME NEW run, IsRun(run) PROVE IsRun(run)'
  <2>1. \A j \in 1..Len(names) : names[j] \in 1..gitSteps + 1
    BY <1>1
  <2>2. \A j \in 1..Len(names) : names[j] \in DOMAIN files' => files'[names[j]] = run[j]
    BY <1>3, <2>1 DEF IsRun
  <2> QED
    BY <1>3, <2>2 DEF IsRun, stackVars
<1> QED
  BY <1>2, <1>3 DEF StackInv, stackVars

\* A new table on top of some of the listed ones.
LEMMA NewTable ==
    ASSUME TablesInv, backend = "reftable", gitSteps \in Nat, gitSteps' = gitSteps + 1,
           NEW table \in Tables, NEW m \in Nat, m <= Len(tablesList),
           NEW base \in Seq(DOMAIN files), Len(base) = m, \A j \in 1..m : base[j] = tablesList[j],
           tablesList' = Append(base, gitSteps + 2),
           files' = [f \in DOMAIN files \cup {gitSteps + 2} |->
                        IF f = gitSteps + 2 THEN table ELSE files[f]]
    PROVE  /\ DOMAIN files' \subseteq 1..gitSteps' + 1
           /\ files' \in [DOMAIN files' -> Tables]
           /\ tablesList' \in Seq(DOMAIN files')
           /\ tablesList' # <<>>
           /\ Len(Listed') = m + 1 /\ Listed'[m + 1] = table
           /\ \A j \in 1..m : Listed'[j] = Listed[j]
           /\ \A f \in 1..gitSteps + 1 : f \in DOMAIN files' => f \in DOMAIN files /\ files'[f] = files[f]
<1>1. PICK id \in Nat : id = gitSteps + 2 /\ id \notin 1..gitSteps + 1
  OBVIOUS
<1>2. /\ DOMAIN files \subseteq 1..gitSteps + 1 /\ files \in [DOMAIN files -> Tables]
      /\ tablesList \in Seq(DOMAIN files)
  BY DEF TablesInv
<1>3. id \notin DOMAIN files
  BY <1>1, <1>2
<1>4. /\ DOMAIN files' = DOMAIN files \cup {id} /\ files'[id] = table
      /\ \A f \in DOMAIN files : files'[f] = files[f]
  BY <1>1, <1>3
<1>5. DOMAIN files' \subseteq 1..gitSteps' + 1
  <2>1. id \in 1..(gitSteps + 1) + 1 /\ 1..gitSteps + 1 \subseteq 1..(gitSteps + 1) + 1
    BY <1>1
  <2> QED
    BY <1>2, <1>4, <2>1
<1>6. files' \in [DOMAIN files' -> Tables]
  BY <1>1, <1>2
<1>7. base \in Seq(DOMAIN files')
  <2>1. DOMAIN files \subseteq DOMAIN files'
    BY <1>4
  <2> QED
    BY <2>1, WiderSeq
<1>8. id \in DOMAIN files' /\ tablesList' = Append(base, id)
  BY <1>1, <1>4
<1>9. tablesList' \in Seq(DOMAIN files') /\ Len(tablesList') = m + 1
  BY <1>7, <1>8
<1>10. tablesList' # <<>>
  <2>1. m + 1 # 0
    OBVIOUS
  <2> QED
    BY <1>9, <2>1
<1>11. tablesList'[m + 1] = id /\ \A j \in 1..m : tablesList'[j] = base[j]
  BY <1>7, <1>8
<1>12. Listed' = [j \in 1..m + 1 |-> files'[tablesList'[j]]]
  BY <1>9 DEF Listed
<1>13. Len(Listed') = m + 1
  BY <1>12
<1>14. m + 1 \in 1..m + 1 /\ \A j \in 1..m : j \in 1..m + 1
  OBVIOUS
<1>15. Listed'[m + 1] = table
  BY <1>4, <1>11, <1>12, <1>14
<1>16. ASSUME NEW j \in 1..m PROVE Listed'[j] = Listed[j]
  <2>1. j \in 1..Len(tablesList)
    BY <1>2
  <2>2. Listed[j] = files[tablesList[j]] /\ tablesList[j] \in DOMAIN files
    BY <1>2, <2>1, ListedType
  <2> QED
    BY <1>4, <1>11, <1>12, <1>14, <2>2
<1>17. \A f \in 1..gitSteps + 1 : f \in DOMAIN files' => f \in DOMAIN files /\ files'[f] = files[f]
  BY <1>1, <1>4
<1> QED
  BY <1>5, <1>6, <1>9, <1>10, <1>13, <1>15, <1>16, <1>17

\* A transaction: the new table holds the new value of one key.
LEMMA GitWritesTableInv ==
    ASSUME StoreInv, GitWritesTable
    PROVE  StoreInv'
<1>1. /\ backend = "reftable" /\ gitSteps' = gitSteps + 1 /\ tablesList # <<>>
      /\ UNCHANGED <<backend, snapshot, openVars, stackVars>>
      /\ UNCHANGED <<packed, hint, trait, dirs, removed>>
  BY DEF GitWritesTable, GitRuns
<1>2. PICK k \in Keys : \E v \in Oids \cup (IF k = 0 THEN Names ELSE {None}) :
          /\ GitAddsTable(gitSteps + 2, [Empty EXCEPT ![k] = IF v = None THEN Deleted ELSE v])
          /\ loose' = IF k = 0 THEN loose ELSE [loose EXCEPT ![k] = v]
          /\ headFile' = IF k = 0 THEN v ELSE headFile
  BY DEF GitWritesTable
<1>3. PICK v \in Oids \cup (IF k = 0 THEN Names ELSE {None}) :
          /\ GitAddsTable(gitSteps + 2, [Empty EXCEPT ![k] = IF v = None THEN Deleted ELSE v])
          /\ loose' = IF k = 0 THEN loose ELSE [loose EXCEPT ![k] = v]
          /\ headFile' = IF k = 0 THEN v ELSE headFile
  BY <1>2
<1>4. DiskTypeOK /\ TablesInv /\ StackInv
  BY DEF StoreInv
<1>5. gitSteps \in Nat /\ gitSteps' \in Nat /\ gitSteps <= gitSteps'
  BY <1>1, <1>4 DEF DiskTypeOK
<1>6. Keys = {0} \cup Names /\ 0 \notin Names
  BY NumRefsAssumption DEF Keys, Names
<1>7. DiskTypeOK'
  BY <1>1, <1>3, <1>4, <1>5, <1>6 DEF DiskTypeOK
<1>8. PICK w \in Values : w = (IF v = None THEN Deleted ELSE v) /\ w # None
  BY MarksAssumption DEF Values
<1>9. PICK table \in Tables :
        /\ table = [Empty EXCEPT ![k] = IF v = None THEN Deleted ELSE v]
        /\ table[k] = w /\ \A k2 \in Keys : k2 # k => table[k2] = None
  <2>1. [Empty EXCEPT ![k] = w] \in Tables
    BY DEF Empty, Tables, Values
  <2>2. PICK t \in Tables : t = [Empty EXCEPT ![k] = w]
    BY <2>1
  <2>3. t[k] = w /\ \A k2 \in Keys : k2 # k => t[k2] = None
    BY <2>2 DEF Empty
  <2> QED
    BY <1>8, <2>2, <2>3
<1>10. /\ tablesList' = Append(tablesList, gitSteps + 2)
       /\ files' = [f \in DOMAIN files \cup {gitSteps + 2} |->
                        IF f = gitSteps + 2 THEN table ELSE files[f]]
  BY <1>3, <1>9 DEF GitAddsTable
<1>11. files \in [DOMAIN files -> Tables] /\ tablesList \in Seq(DOMAIN files)
  BY <1>1, <1>4 DEF TablesInv
<1>12. PICK L \in Nat : L = Len(tablesList) /\ L <= Len(tablesList)
  BY <1>11
<1>13. /\ DOMAIN files' \subseteq 1..gitSteps' + 1
       /\ files' \in [DOMAIN files' -> Tables]
       /\ tablesList' \in Seq(DOMAIN files')
       /\ Len(Listed') = L + 1 /\ Listed'[L + 1] = table
       /\ \A j \in 1..L : Listed'[j] = Listed[j]
       /\ \A f \in 1..gitSteps + 1 : f \in DOMAIN files' => f \in DOMAIN files /\ files'[f] = files[f]
  BY <1>1, <1>4, <1>5, <1>10, <1>11, <1>12, NewTable
<1>14. Len(Listed) = L
  BY <1>11, <1>12, ListedType
<1>15. ASSUME NEW k2 \in Keys PROVE Merge(Listed')[k2] = Records'[k2]
  <2>1. Latest(Listed')[k2] = IF table[k2] = None THEN Latest(Listed)[k2] ELSE table[k2]
    <3>1. PICK us : us = Listed'
      OBVIOUS
    <3>2. PICK ts : ts = Listed
      OBVIOUS
    <3>3. Latest(us)[k2] = IF us[L + 1][k2] = None THEN Latest(ts)[k2] ELSE us[L + 1][k2]
      <4>1. Len(ts) = L /\ Len(us) = L + 1 /\ \A j \in 1..L : us[j] = ts[j]
        BY <1>13, <1>14, <3>1, <3>2
      <4> QED
        BY <4>1, TableOnTop
    <3> QED
      BY <1>13, <3>1, <3>2, <3>3
  <2>2. CASE k2 = k
    <3>1. Latest(Listed')[k2] = w
      BY <1>8, <1>9, <2>1, <2>2
    <3>2. v # Deleted
      BY DistinctAssumption, MarksAssumption DEF Names
    <3>3. Merge(Listed')[k2] = v
      BY <1>8, <3>1, <3>2, MergeRecord
    <3>4. Records'[k2] = v
      BY <1>3, <1>4, <1>6, <2>2 DEF Records, DiskTypeOK
    <3> QED
      BY <3>3, <3>4
  <2>3. CASE k2 # k
    <3>1. Latest(Listed')[k2] = Latest(Listed)[k2]
      BY <1>9, <2>1, <2>3
    <3>2. Merge(Listed')[k2] = Merge(Listed)[k2]
      BY <3>1, MergeRecord
    <3>3. Merge(Listed)[k2] = Records[k2]
      BY <1>1, <1>4 DEF TablesInv
    <3>4. Records'[k2] = Records[k2]
      BY <1>3, <1>4, <1>6, <2>3 DEF Records, DiskTypeOK
    <3> QED
      BY <3>2, <3>3, <3>4
  <2> QED
    BY <2>2, <2>3
<1>16. TablesInv'
  BY <1>13, <1>15 DEF TablesInv
<1>17. StackInv'
  BY <1>1, <1>4, <1>5, <1>13, RunStays
<1> QED
  BY <1>1, <1>7, <1>16, <1>17, GitTablesInv DEF OpenPart, StoreInv

\* A compaction: the new table holds the latest records of those it replaces;
\* where none is below them it may forget deletions.
LEMMA GitCompactsInv ==
    ASSUME StoreInv, GitCompacts
    PROVE  StoreInv'
<1>1. /\ backend = "reftable" /\ gitSteps' = gitSteps + 1
      /\ UNCHANGED <<backend, snapshot, openVars, stackVars>>
      /\ UNCHANGED <<packed, hint, trait, loose, dirs, headFile, touched, removed>>
      /\ GitCompactsTables(gitSteps + 2)
  BY DEF GitCompacts, GitRuns
<1>2. DiskTypeOK /\ TablesInv /\ StackInv
  BY DEF StoreInv
<1>3. gitSteps \in Nat /\ gitSteps' \in Nat /\ gitSteps <= gitSteps'
  BY <1>1, <1>2 DEF DiskTypeOK
<1>4. DiskTypeOK'
  BY <1>1, <1>2, <1>3 DEF DiskTypeOK
<1>5. files \in [DOMAIN files -> Tables] /\ tablesList \in Seq(DOMAIN files)
  BY <1>1, <1>2 DEF TablesInv
<1>6. PICK L \in Nat : L = Len(tablesList)
  BY <1>5
<1>7. PICK i \in 1..L - 1 :
        LET top == Latest([j \in 1..L - i + 1 |-> files[tablesList[i + j - 1]]])
            table == IF i = 1 THEN WithoutDeletions(top) ELSE top
        IN /\ tablesList' = Append(SubSeq(tablesList, 1, i - 1), gitSteps + 2)
           /\ files' = [f \in DOMAIN files \cup {gitSteps + 2} |->
                            IF f = gitSteps + 2 THEN table ELSE files[f]]
  BY <1>1, <1>6 DEF GitCompactsTables
<1>8. i \in Nat /\ 1 <= i /\ i <= L /\ i - 1 \in Nat /\ (i - 1) + 1 = i /\ i \in 1..L /\ L - i + 1 \in Nat
  BY <1>7
<1>9. PICK part : part = [j \in 1..L - i + 1 |-> files[tablesList[i + j - 1]]]
  OBVIOUS
<1>10. Len(part) = L - i + 1 /\ \A j \in 1..L - i + 1 : part[j] = files[tablesList[i + j - 1]]
  BY <1>8, <1>9
<1>11. /\ Len(Listed) = L
       /\ \A j \in 1..L : Listed[j] = files[tablesList[j]] /\ tablesList[j] \in DOMAIN files
  BY <1>5, <1>6, ListedType
<1>12. \A j \in 1..L - i + 1 : i + j - 1 \in 1..L
  BY <1>8
<1>13. \A j \in 1..L - i + 1 : part[j] = Listed[i + j - 1] /\ part[j] \in Tables
  BY <1>5, <1>10, <1>11, <1>12
<1>14. Latest(part) \in Tables
  BY <1>8, <1>10, <1>13, LatestType
<1>15. PICK table \in Tables : table = IF i = 1 THEN WithoutDeletions(Latest(part)) ELSE Latest(part)
  BY <1>14, WithoutDeletionsType
<1>16. PICK base : base = SubSeq(tablesList, 1, i - 1)
  OBVIOUS
<1>17. /\ base \in Seq(DOMAIN files) /\ Len(base) = i - 1
       /\ \A j \in 1..i - 1 : base[j] = tablesList[j]
  BY SMTT(30), <1>5, <1>6, <1>8, <1>16
<1>18. /\ tablesList' = Append(base, gitSteps + 2)
       /\ files' = [f \in DOMAIN files \cup {gitSteps + 2} |->
                        IF f = gitSteps + 2 THEN table ELSE files[f]]
  BY <1>7, <1>9, <1>15, <1>16
<1>19. PICK m \in Nat : m = i - 1 /\ m + 1 = i /\ m <= Len(tablesList)
  BY <1>6, <1>8
<1>20. Len(base) = m /\ \A j \in 1..m : base[j] = tablesList[j]
  BY <1>17, <1>19
<1>21. /\ DOMAIN files' \subseteq 1..gitSteps' + 1
       /\ files' \in [DOMAIN files' -> Tables]
       /\ tablesList' \in Seq(DOMAIN files')
       /\ Len(Listed') = m + 1 /\ Listed'[m + 1] = table
       /\ \A j \in 1..m : Listed'[j] = Listed[j]
       /\ \A f \in 1..gitSteps + 1 : f \in DOMAIN files' => f \in DOMAIN files /\ files'[f] = files[f]
  BY <1>1, <1>2, <1>3, <1>17, <1>18, <1>19, <1>20, NewTable
<1>22. ASSUME NEW k \in Keys PROVE Merge(Listed')[k] = Records'[k]
  <2>1. PICK us : us = Listed'
    OBVIOUS
  <2>2. PICK ts : ts = Listed
    OBVIOUS
  <2>3. Len(us) = i /\ us[i] = table /\ \A j \in 1..i - 1 : us[j] = ts[j]
    BY <1>19, <1>21, <2>1, <2>2
  <2>p. PICK P \in Nat : P = L - i + 1
    BY <1>8
  <2>4. Len(ts) = L /\ Len(part) = P /\ i \in 1..L
    BY <1>8, <1>10, <1>11, <2>2, <2>p
  <2>5. \A j \in 1..P : part[j] = ts[i + j - 1]
    BY <1>13, <2>2, <2>p
  <2>6. Merge(us)[k] = Merge(ts)[k]
    <3>1. CASE i # 1
      <4>1. us[i][k] = Latest(part)[k]
        BY <1>15, <2>3, <3>1
      <4>2. Latest(us)[k] = Latest(ts)[k]
        <5>1. Compacted(ts, us, part, L, i, P, k)
          BY <2>3, <2>4, <2>5, <2>p, <4>1 DEF Compacted
        <5> QED
          BY <5>1, CompactedRun
      <4> QED
        BY <4>2, MergeRecord
    <3>2. CASE i = 1
      <4>1. Len(part) = Len(ts) /\ \A j \in 1..Len(ts) : part[j] = ts[j]
        <5>1. L - 1 + 1 = L /\ \A j \in 1..L : 1 + j - 1 = j
          OBVIOUS
        <5> QED
          BY <2>4, <2>5, <2>p, <3>2, <5>1
      <4>2. Latest(part)[k] = Latest(ts)[k]
        BY <2>4, <4>1, SameRun
      <4>3. us[1][k] = Merge(part)[k]
        BY <1>15, <2>3, <3>2 DEF Merge
      <4>4. us[1][k] = Merge(ts)[k] /\ us[1][k] # Deleted
        BY <4>2, <4>3, MergeRecord, MarksAssumption
      <4>5. Len(us) = 1
        BY <2>3, <3>2
      <4>6. Merge(us)[k] = us[1][k]
        BY <4>4, <4>5, OneTable
      <4> QED
        BY <4>4, <4>6
    <3> QED
      BY <3>1, <3>2
  <2>7. tablesList # <<>>
    <3>1. L # 0
      BY <1>8
    <3> QED
      BY <1>6, <3>1
  <2>8. Merge(Listed)[k] = Records[k]
    BY <1>1, <1>2, <2>7 DEF TablesInv
  <2>9. Records' = Records
    BY <1>1 DEF Records
  <2> QED
    BY <2>1, <2>2, <2>6, <2>8, <2>9
<1>23. TablesInv'
  BY <1>21, <1>22 DEF TablesInv
<1>24. StackInv'
  BY <1>1, <1>2, <1>3, <1>21, RunStays
<1> QED
  BY <1>1, <1>4, <1>23, <1>24, GitTablesInv DEF OpenPart, StoreInv

\* Tables no longer listed are unlinked.
LEMMA GitUnlinksInv ==
    ASSUME StoreInv, GitUnlinks
    PROVE  StoreInv'
<1>1. /\ backend = "reftable" /\ tablesList' = tablesList
      /\ files' = [f \in {tablesList[i] : i \in DOMAIN tablesList} |-> files[f]]
      /\ UNCHANGED <<backend, packed, hint, trait, loose, dirs, headFile, snapshot, touched, removed, gitSteps>>
      /\ UNCHANGED openVars /\ UNCHANGED stackVars
  BY DEF GitUnlinks, GitUnlinksTables
<1>2. DiskTypeOK /\ TablesInv /\ StackInv
  BY DEF StoreInv
<1>3. DiskTypeOK' /\ gitSteps \in Nat
  BY <1>1, <1>2 DEF DiskTypeOK
<1>4. /\ DOMAIN files \subseteq 1..gitSteps + 1 /\ files \in [DOMAIN files -> Tables]
      /\ tablesList \in Seq(DOMAIN files)
  BY <1>1, <1>2 DEF TablesInv
<1>5. DOMAIN tablesList = 1..Len(tablesList) /\ Len(tablesList) \in Nat
  BY <1>4
<1>6. \A i \in 1..Len(tablesList) : tablesList[i] \in DOMAIN files
  BY <1>4
<1>7. /\ DOMAIN files' \subseteq DOMAIN files
      /\ \A f \in DOMAIN files' : files'[f] = files[f]
      /\ \A i \in 1..Len(tablesList) : tablesList[i] \in DOMAIN files'
  BY <1>1, <1>5, <1>6
<1>8. files' \in [DOMAIN files' -> Tables]
  BY <1>1, <1>4, <1>7
<1>9. tablesList' \in Seq(DOMAIN files')
  <2>1. tablesList \in [1..Len(tablesList) -> DOMAIN files']
    BY <1>4, <1>7
  <2>2. tablesList \in Seq(DOMAIN files')
    BY <1>5, <2>1
  <2> QED
    BY <1>1, <2>2
<1>10. Listed' = Listed /\ Records' = Records
  BY <1>1, <1>7 DEF Listed, Records
<1>11. TablesInv'
  BY <1>1, <1>2, <1>4, <1>7, <1>8, <1>9, <1>10 DEF TablesInv
<1>12. StackInv'
  BY <1>1, <1>2, <1>3, <1>7, RunStays
<1> QED
  BY <1>1, <1>3, <1>11, <1>12, GitTablesInv DEF OpenPart, StoreInv

(***************************************************************************)
(* The theorems.                                                           *)
(***************************************************************************)
\* Every step keeps the invariant.
LEMMA StoreStepInv ==
    ASSUME StoreInv, [StoreNext]_storeVars
    PROVE  StoreInv'
<1>1. CASE OpenStep
  BY <1>1, FilesStepInv, OpenReftableStackInv, OpenReftableFailsInv, OpenReftableInv DEF OpenStep
<1>2. CASE GitStep
  BY <1>2, GitUpdatesInv, GitDeletesInv, GitPacksInv, GitPrunesInv, GitRemovesDirInv,
     GitWritesTableInv, GitCompactsInv, GitUnlinksInv DEF GitStep
<1>3. CASE UNCHANGED storeVars
  <2>1. UNCHANGED diskVars /\ UNCHANGED openVars /\ UNCHANGED stackVars
    BY <1>3 DEF storeVars
  <2>2. DiskPart'
    BY <2>1, DiskUnchanged
  <2>3. OpenTypeOK' /\ PhaseInv' /\ PeelsKept'
    BY <2>1 DEF StoreInv, OpenTypeOK, PhaseInv, PeelsKept, PeelKnown, diskVars, openVars, stackVars
  <2>4. StackIsSnapshot' /\ HeadMatchesList'
    BY <2>1 DEF StoreInv, StackIsSnapshot, HeadMatchesList, diskVars, openVars
  <2>5. WalkInv'
    BY <2>1 DEF StoreInv, WalkInv, Pending, MirrorsPacked, MirrorsLoose, diskVars, openVars
  <2> QED
    BY <2>2, <2>3, <2>4, <2>5 DEF DiskPart, StoreInv
<1> QED
  BY <1>1, <1>2, <1>3 DEF StoreNext, Opened

\* The invariant holds of every repository and every opening of it.
THEOREM StoreInvariant == StoreSpec => []StoreInv
<1>1. StoreInit => StoreInv
  BY StoreInitInv
<1>2. StoreInv /\ [StoreNext]_storeVars => StoreInv'
  BY StoreStepInv
<1> QED
  BY <1>1, <1>2, PTL DEF StoreSpec

\* Either backend lists what the repository held while it was read: the files
\* backend (openLooseRefs) every ref Git left alone meanwhile, the reftable
\* backend (OpenStack) the refs and HEAD of one moment.
THEOREM ListsRepositoryHolds == StoreSpec => []ListsRepository
<1>1. StoreInv => ListsRepository
  <2> SUFFICES ASSUME StoreInv PROVE UntouchedListed
    BY DEF StoreInv, ListsRepository
  <2> SUFFICES ASSUME opc = "open", backend = "files", removed = {}, NEW n \in Names \ touched
               PROVE  \/ ShadowsPacked(n)
                      \/ refs[n] = None /\ ListedOid(n) = None
                      \/ refs[n] # None /\ refs[n].oid = ListedOid(n)
    BY DEF UntouchedListed
  <2>1. ~Pending(n)
    BY DEF Pending
  <2>2. loose[n] # Bad /\ (loose[n] \in Oids => MirrorsLoose(n)) /\ (loose[n] \notin Oids => MirrorsPacked(n))
    BY <2>1 DEF StoreInv, WalkInv
  <2>3. loose[n] \in Oids \cup Names \cup {None}
    BY <2>2 DEF StoreInv, DiskTypeOK
  <2>4. None \notin Oids \cup Names /\ Oids \cap Names = {}
    BY DistinctAssumption DEF Names
  <2>5. CASE loose[n] \in Oids
    BY <2>2, <2>4, <2>5 DEF MirrorsLoose, ListedOid
  <2>6. CASE loose[n] = None
    BY <2>2, <2>4, <2>6 DEF MirrorsPacked, ListedOid
  <2>7. CASE loose[n] \in Names
    BY <2>2, <2>4, <2>7 DEF MirrorsPacked, ListedOid, ShadowsPacked
  <2> QED
    BY <2>3, <2>5, <2>6, <2>7
<1> QED
  BY <1>1, StoreInvariant, PTL

\* An opening that fails, wherever it does, holds no table open (OpenStack's
\* closeAll, openReftableBackend).
THEOREM NoTableLeftHolds == StoreSpec => []NoTableLeft
<1>1. StoreInv => NoTableLeft
  BY DEF StoreInv, PhaseInv, NoTableLeft
<1> QED
  BY <1>1, StoreInvariant, PTL

\* What the store claims to know of a ref's peel is what its object peels to,
\* down any chain of tags (toRefEntry, walkLooseRefs).
THEOREM PeelHintsTrueHolds == StoreSpec => []PeelHintsTrue
<1>1. StoreInv => PeelHintsTrue
  BY DEF StoreInv, PeelsKept, PeelHintsTrue
<1> QED
  BY <1>1, StoreInvariant, PTL

\* HEAD agrees with the list (followSymrefChain, resolveReftableHead).
THEOREM HeadMatchesListHolds == StoreSpec => []HeadMatchesList
<1>1. StoreInv => HeadMatchesList
  BY DEF StoreInv
<1> QED
  BY <1>1, StoreInvariant, PTL

-----------------------------------------------------------------------------
(***************************************************************************)
(* What Peel finds is what a tag really leads to, whatever objects it can  *)
(* read and however deep it goes.                                          *)
(***************************************************************************)
\* One link of a chain of tags after the other.
Linked(f, objs, m) ==
    /\ \A o \in Oids : f[0][o] = None
    /\ \A d \in Nat : d + 1 <= m =>
          \A o \in Oids :
             f[d + 1][o] = IF o \notin objs \/ Target[o] = None THEN None
                           ELSE IF Target[Target[o]] = None THEN Target[o]
                           ELSE f[d][Target[o]]

\* The recursive function is such a chain.
LEMMA ChainStep ==
    ASSUME NEW f, NEW objs, NEW m \in Nat, IsChain(f, objs, m)
    PROVE  Linked(f, objs, m)
<1>1. f = [d \in 0..m |->
            [o \in Oids |->
                IF d = 0 \/ o \notin objs \/ Target[o] = None THEN None
                ELSE IF Target[Target[o]] = None THEN Target[o]
                ELSE f[d - 1][Target[o]]]]
  BY Zenon DEF IsChain
<1>2. ASSUME NEW d \in 0..m
      PROVE  f[d] = [o \in Oids |->
                        IF d = 0 \/ o \notin objs \/ Target[o] = None THEN None
                        ELSE IF Target[Target[o]] = None THEN Target[o]
                        ELSE f[d - 1][Target[o]]]
  BY <1>1
<1>3. \A o \in Oids : f[0][o] = None
  <2>1. 0 \in 0..m
    OBVIOUS
  <2> QED
    BY <1>2, <2>1
<1>4. ASSUME NEW d \in Nat, d + 1 <= m, NEW o \in Oids
      PROVE  f[d + 1][o] = IF o \notin objs \/ Target[o] = None THEN None
                           ELSE IF Target[Target[o]] = None THEN Target[o]
                           ELSE f[d][Target[o]]
  <2>1. d + 1 \in 0..m /\ d + 1 # 0 /\ (d + 1) - 1 = d
    BY <1>4
  <2>2. PICK e \in 0..m : e = d + 1
    BY <2>1
  <2>3. f[e] = [x \in Oids |->
                        IF x \notin objs \/ Target[x] = None THEN None
                        ELSE IF Target[Target[x]] = None THEN Target[x]
                        ELSE f[d][Target[x]]]
    BY <1>2, <2>1, <2>2
  <2> QED
    BY <2>2, <2>3
<1> QED
  BY <1>3, <1>4 DEF Linked

\* Who can read more objects finds no other answer.
LEMMA ChainsAgree ==
    ASSUME NEW f, NEW g, NEW A, NEW B, A \subseteq B, NEW m \in Nat, NEW n \in Nat,
           IsChain(f, A, m), IsChain(g, B, n)
    PROVE  \A d \in Nat : d <= m /\ d <= n =>
              \A o \in Oids : f[d][o] = None \/ g[d][o] = f[d][o]
<1> DEFINE S == {d \in Nat : d <= m /\ d <= n => \A o \in Oids : f[d][o] = None \/ g[d][o] = f[d][o]}
<1>f. \A d \in Nat : d + 1 <= m =>
        \A o \in Oids :
            f[d + 1][o] = IF o \notin A \/ Target[o] = None THEN None
                          ELSE IF Target[Target[o]] = None THEN Target[o]
                          ELSE f[d][Target[o]]
  <2>1. Linked(f, A, m)
    BY ChainStep
  <2> QED
    BY <2>1, Zenon DEF Linked
<1>g. \A d \in Nat : d + 1 <= n =>
        \A o \in Oids :
            g[d + 1][o] = IF o \notin B \/ Target[o] = None THEN None
                          ELSE IF Target[Target[o]] = None THEN Target[o]
                          ELSE g[d][Target[o]]
  <2>1. Linked(g, B, n)
    BY ChainStep
  <2> QED
    BY <2>1, Zenon DEF Linked
<1>1. 0 \in S
  <2>1. Linked(f, A, m)
    BY ChainStep
  <2> QED
    BY <2>1 DEF Linked
<1>2. ASSUME NEW d \in Nat, d \in S PROVE d + 1 \in S
  <2> SUFFICES ASSUME d + 1 <= m, d + 1 <= n, NEW o \in Oids, f[d + 1][o] # None
               PROVE  g[d + 1][o] = f[d + 1][o]
    OBVIOUS
  <2>1. f[d + 1][o] = IF o \notin A \/ Target[o] = None THEN None
                      ELSE IF Target[Target[o]] = None THEN Target[o] ELSE f[d][Target[o]]
    BY <1>f
  <2>2. g[d + 1][o] = IF o \notin B \/ Target[o] = None THEN None
                      ELSE IF Target[Target[o]] = None THEN Target[o] ELSE g[d][Target[o]]
    BY <1>g
  <2>3. o \in A /\ o \in B /\ Target[o] # None /\ Target[o] \in Oids
    BY <2>1, TargetAssumption
  <2>4. \A p \in Oids : f[d][p] = None \/ g[d][p] = f[d][p]
    BY <1>2
  <2> QED
    BY <2>1, <2>2, <2>3, <2>4
<1>3. Nat \subseteq S
  <2> HIDE DEF S
  <2> QED
    BY <1>1, <1>2, SetInduction
<1> QED
  BY <1>3

\* Nor does who goes deeper.
LEMMA ChainGrows ==
    ASSUME NEW f, NEW A, NEW m \in Nat, IsChain(f, A, m)
    PROVE  \A d \in Nat : d + 1 <= m => \A o \in Oids : f[d][o] = None \/ f[d + 1][o] = f[d][o]
<1> DEFINE S == {d \in Nat : d + 1 <= m => \A o \in Oids : f[d][o] = None \/ f[d + 1][o] = f[d][o]}
<1>f. \A d \in Nat : d + 1 <= m =>
        \A o \in Oids :
            f[d + 1][o] = IF o \notin A \/ Target[o] = None THEN None
                          ELSE IF Target[Target[o]] = None THEN Target[o]
                          ELSE f[d][Target[o]]
  <2>1. Linked(f, A, m)
    BY ChainStep
  <2> QED
    BY <2>1, Zenon DEF Linked
<1>1. 0 \in S
  <2>1. Linked(f, A, m)
    BY ChainStep
  <2> QED
    BY <2>1 DEF Linked
<1>2. ASSUME NEW d \in Nat, d \in S PROVE d + 1 \in S
  <2> SUFFICES ASSUME (d + 1) + 1 <= m, NEW o \in Oids, f[d + 1][o] # None
               PROVE  f[(d + 1) + 1][o] = f[d + 1][o]
    OBVIOUS
  <2>0. PICK e \in Nat : e = d + 1
    OBVIOUS
  <2>1. f[d + 1][o] = IF o \notin A \/ Target[o] = None THEN None
                      ELSE IF Target[Target[o]] = None THEN Target[o] ELSE f[d][Target[o]]
    <3>1. d + 1 <= m
      OBVIOUS
    <3> QED
      BY <3>1, <1>f
  <2>2. f[e + 1][o] = IF o \notin A \/ Target[o] = None THEN None
                      ELSE IF Target[Target[o]] = None THEN Target[o] ELSE f[e][Target[o]]
    <3>1. e + 1 <= m
      BY <2>0
    <3> QED
      BY <3>1, <1>f
  <2>3. Target[o] # None /\ Target[o] \in Oids
    BY <2>1, TargetAssumption
  <2>4. \A p \in Oids : f[d][p] = None \/ f[e][p] = f[d][p]
    BY <1>2, <2>0
  <2>5. f[e + 1][o] = f[e][o]
    BY <2>0, <2>1, <2>2, <2>3, <2>4
  <2> QED
    BY <2>0, <2>5
<1>3. Nat \subseteq S
  <2> HIDE DEF S
  <2> QED
    BY <1>1, <1>2, SetInduction
<1> QED
  BY <1>3

\* After as many rounds as there are objects no further one finds anything:
\* until then each has found the answer for one object more.
LEMMA ChainStops ==
    ASSUME NEW f, NEW m \in Nat, IsChain(f, Oids, m), NEW N, N = Cardinality(Oids)
    PROVE  \A d \in Nat : N <= d /\ d <= m => \A o \in Oids : f[d][o] = f[N][o]
<1>f. \A d \in Nat : d + 1 <= m =>
        \A o \in Oids :
            f[d + 1][o] = IF Target[o] = None THEN None
                          ELSE IF Target[Target[o]] = None THEN Target[o]
                          ELSE f[d][Target[o]]
  <2>1. Linked(f, Oids, m)
    BY ChainStep
  <2> QED
    BY <2>1 DEF Linked
<1>n. N \in Nat
  BY OidsAssumption, FS_CardinalityType
<1> DEFINE Found(d) == {o \in Oids : f[d][o] # None}
           Same(d) == \A o \in Oids : f[d + 1][o] = f[d][o]
<1>0. ASSUME NEW d \in Nat PROVE IsFiniteSet(Found(d)) /\ Cardinality(Found(d)) \in Nat /\ Cardinality(Found(d)) <= N
  BY OidsAssumption, FS_Subset, FS_CardinalityType
<1>1. ASSUME NEW d \in Nat, (d + 1) + 1 <= m, Same(d) PROVE Same(d + 1)
  <2>0. PICK e \in Nat : e = d + 1
    OBVIOUS
  <2> SUFFICES ASSUME NEW o \in Oids PROVE f[e + 1][o] = f[e][o]
    BY <2>0
  <2>1. e + 1 <= m /\ d + 1 <= m
    BY <1>1, <2>0
  <2>2. f[e][o] = IF Target[o] = None THEN None
                  ELSE IF Target[Target[o]] = None THEN Target[o] ELSE f[d][Target[o]]
    BY <1>f, <2>0, <2>1
  <2>3. f[e + 1][o] = IF Target[o] = None THEN None
                      ELSE IF Target[Target[o]] = None THEN Target[o] ELSE f[e][Target[o]]
    BY <1>f, <2>1
  <2>4. Target[o] = None \/ f[e][Target[o]] = f[d][Target[o]]
    BY <1>1, <2>0, TargetAssumption
  <2> QED
    BY <2>2, <2>3, <2>4
<1>2. ASSUME NEW d \in Nat, d + 1 <= m, ~Same(d)
      PROVE  Cardinality(Found(d)) + 1 <= Cardinality(Found(d + 1))
  <2>1. PICK o \in Oids : f[d + 1][o] # f[d][o]
    BY <1>2
  <2>2. \A p \in Oids : f[d][p] = None \/ f[d + 1][p] = f[d][p]
    BY <1>2, ChainGrows
  <2>3. o \notin Found(d) /\ o \in Found(d + 1) /\ Found(d) \subseteq Found(d + 1)
    BY <2>1, <2>2
  <2>4. d + 1 \in Nat
    OBVIOUS
  <2>5. /\ IsFiniteSet(Found(d)) /\ Cardinality(Found(d)) \in Nat
        /\ IsFiniteSet(Found(d + 1)) /\ Cardinality(Found(d + 1)) \in Nat
    BY <1>0, <2>4
  <2>6. Cardinality(Found(d) \cup {o}) = Cardinality(Found(d)) + 1
    BY <2>3, <2>5, FS_AddElement
  <2>7. Found(d) \cup {o} \subseteq Found(d + 1)
    BY <2>3
  <2>8. Cardinality(Found(d) \cup {o}) <= Cardinality(Found(d + 1))
    BY <2>5, <2>7, FS_Subset
  <2> QED
    BY <2>6, <2>8
<1> DEFINE S == {d \in Nat : d + 1 <= m => Same(d) \/ d + 1 <= Cardinality(Found(d + 1))}
<1>3. 0 \in S
  <2>1. CASE 0 + 1 <= m /\ ~Same(0)
    <3>1. Cardinality(Found(0)) + 1 <= Cardinality(Found(0 + 1))
      BY <1>2, <2>1
    <3>2. Cardinality(Found(0)) \in Nat /\ Cardinality(Found(0 + 1)) \in Nat
      BY <1>0
    <3>3. 0 + 1 <= Cardinality(Found(0 + 1))
      <4> HIDE DEF Found
      <4> QED
        BY <3>1, <3>2
    <3> QED
      BY <3>3
  <2> QED
    BY <2>1
<1>4. ASSUME NEW d \in Nat, d \in S PROVE d + 1 \in S
  <2> SUFFICES ASSUME (d + 1) + 1 <= m, ~Same(d + 1) PROVE (d + 1) + 1 <= Cardinality(Found((d + 1) + 1))
    OBVIOUS
  <2>1. ~Same(d)
    <3> HIDE DEF Same
    <3> QED
      BY <1>1
  <2>2. d + 1 <= Cardinality(Found(d + 1))
    <3> HIDE DEF Same, Found
    <3> QED
      BY <1>4, <2>1
  <2>3. d + 1 \in Nat /\ (d + 1) + 1 \in Nat
    OBVIOUS
  <2>4. Cardinality(Found(d + 1)) + 1 <= Cardinality(Found((d + 1) + 1))
    <3> HIDE DEF Same, Found
    <3> QED
      BY <1>2, <2>3
  <2>5. Cardinality(Found(d + 1)) \in Nat /\ Cardinality(Found((d + 1) + 1)) \in Nat
    <3> HIDE DEF Same, Found
    <3> QED
      BY <1>0, <2>3
  <2> HIDE DEF Same, Found
  <2> QED
    BY <2>2, <2>4, <2>5
<1>5. Nat \subseteq S
  <2> HIDE DEF S
  <2> QED
    BY <1>3, <1>4, SetInduction
<1>6. N + 1 <= m => Same(N)
  <2> SUFFICES ASSUME N + 1 <= m, ~Same(N) PROVE FALSE
    OBVIOUS
  <2> HIDE DEF Same, Found
  <2>1. N + 1 <= Cardinality(Found(N + 1))
    BY <1>n, <1>5
  <2>2. N + 1 \in Nat
    BY <1>n
  <2>3. Cardinality(Found(N + 1)) \in Nat /\ Cardinality(Found(N + 1)) <= N
    BY <1>0, <2>2
  <2> QED
    BY <1>n, <2>1, <2>3
<1> DEFINE T == {k \in Nat : (N + k) + 1 <= m => Same(N + k) /\ \A o \in Oids : f[(N + k) + 1][o] = f[N][o]}
<1>7. 0 \in T
  <2>1. N + 0 = N
    BY <1>n
  <2> QED
    BY <1>6, <2>1
<1>8. ASSUME NEW k \in Nat, k \in T PROVE k + 1 \in T
  <2>0. PICK e \in Nat : e = N + k
    BY <1>n
  <2>1. N + (k + 1) = e + 1
    BY <1>n, <2>0
  <2> SUFFICES ASSUME (e + 1) + 1 <= m PROVE Same(e + 1) /\ \A o \in Oids : f[(e + 1) + 1][o] = f[N][o]
    BY <2>1
  <2>2. Same(e) /\ \A o \in Oids : f[e + 1][o] = f[N][o]
    BY <1>8, <2>0
  <2>3. Same(e + 1)
    BY <1>1, <2>2
  <2> QED
    BY <2>2, <2>3
<1>9. Nat \subseteq T
  <2> HIDE DEF T
  <2> QED
    BY <1>7, <1>8, SetInduction
<1>10. ASSUME NEW d \in Nat, N <= d, d <= m, NEW o \in Oids PROVE f[d][o] = f[N][o]
  <2>1. CASE d = N
    BY <2>1
  <2>2. CASE d # N
    <3>1. PICK k \in Nat : d = (N + k) + 1
      <4>1. d - N - 1 \in Nat /\ d = (N + (d - N - 1)) + 1
        BY <1>n, <1>10, <2>2
      <4> QED
        BY <4>1
    <3> HIDE DEF Same
    <3> QED
      BY <1>9, <1>10, <3>1
  <2> QED
    BY <2>1, <2>2
<1> QED
  BY <1>10

\* Whatever a Peel that can read some of the objects and follows some number
\* of tags finds is what the tag leads to.
LEMMA PeelSound ==
    ASSUME NEW A, A \subseteq Oids, NEW depth \in Nat, NEW o \in Oids,
           PeeledVia(A, depth)[o] # None
    PROVE  PeeledVia(A, depth)[o] = TruePeel[o]
<1>n. PICK N \in Nat : N = Cardinality(Oids)
  BY OidsAssumption, FS_CardinalityType
<1>1. PICK a : IsChain(a, A, depth) /\ PeeledVia(A, depth) = a[depth]
  BY PeeledViaDef
<1>2. PICK t : IsChain(t, Oids, N) /\ TruePeel = t[N]
  BY <1>n, PeeledViaDef DEF TruePeel
<1>3. PICK f : IsChain(f, Oids, depth + N)
  BY <1>n, ChainExists
<1>4. depth + N \in Nat /\ depth <= depth + N /\ N <= depth + N /\ depth <= depth /\ N <= N
  BY <1>n
<1>5. f[depth][o] = a[depth][o]
  BY <1>1, <1>3, <1>4, ChainsAgree
<1>6. t[N][o] = None \/ f[N][o] = t[N][o]
  BY <1>2, <1>3, <1>4, ChainsAgree
<1>7. f[N][o] = None \/ t[N][o] = f[N][o]
  BY <1>2, <1>3, <1>4, ChainsAgree
<1>8. f[depth + N][o] = f[N][o]
  BY <1>n, <1>3, <1>4, ChainStops
<1> DEFINE S == {k \in Nat : k <= N => f[depth + k][o] = f[depth][o]}
<1>9. 0 \in S
  BY <1>4
<1>10. ASSUME NEW k \in Nat, k \in S PROVE k + 1 \in S
  <2> SUFFICES ASSUME k + 1 <= N PROVE f[depth + (k + 1)][o] = f[depth][o]
    OBVIOUS
  <2>1. f[depth + k][o] = f[depth][o]
    BY <1>n, <1>10
  <2>2. PICK e \in Nat : e = depth + k
    OBVIOUS
  <2>3. e + 1 <= depth + N /\ depth + (k + 1) = e + 1
    BY <1>n, <2>2
  <2>4. f[e][o] # None
    BY <1>1, <1>5, <2>1, <2>2
  <2>5. f[e + 1][o] = f[e][o]
    BY <1>3, <1>4, <2>3, <2>4, ChainGrows
  <2> QED
    BY <2>1, <2>2, <2>3, <2>5
<1>11. Nat \subseteq S
  <2> HIDE DEF S
  <2> QED
    BY <1>9, <1>10, SetInduction
<1>12. f[depth + N][o] = f[depth][o]
  BY <1>4, <1>11, <1>n
<1> QED
  BY <1>1, <1>2, <1>5, <1>7, <1>8, <1>12

(***************************************************************************)
(* A stream of lines s of which the refs in list have been parsed already. *)
(* keys are the names the whole of it lists, ids their ids and peels what  *)
(* they peel to; a line of another kind says nothing of a ref.             *)
(***************************************************************************)
Parsed(list, keys, ids, peels) ==
    /\ \A i \in 1..Len(list) :
          /\ list[i].name \in keys /\ list[i].hash = ids[list[i].name] /\ list[i].symref = None
          /\ list[i].peeled \in {None, peels[list[i].name]}
    /\ \A i, j \in 1..Len(list) : i < j => list[i].name < list[j].name

Told(s, keys, ids, peels) ==
    /\ \A j \in 1..Len(s) : s[j].kind = "ref" => s[j].name \in keys /\ s[j].oid = ids[s[j].name]
    /\ \A j \in 1..Len(s) : s[j].kind = "peeled" =>
          s[j].name \in keys /\ s[j].oid = peels[s[j].name] /\ s[j].oid # None
    /\ \A j, k \in 1..Len(s) :
          j < k /\ s[k].kind = "ref" /\ s[j].kind \in {"ref", "peeled"} => s[j].name < s[k].name
    /\ \A j \in 2..Len(s) :
          s[j].kind = "peeled" => s[j - 1].kind = "ref" /\ s[j - 1].name = s[j].name

\* The two fit together: a peeled line comes right after its ref.
Joint(list, s) ==
    /\ \A i \in 1..Len(list), j \in 1..Len(s) : s[j].kind = "ref" => list[i].name < s[j].name
    /\ s # <<>> /\ s[1].kind = "peeled" =>
          list # <<>> /\ list[Len(list)].name = s[1].name /\ list[Len(list)].peeled = None

\* Nothing is missing.
Covers(list, s, keys, peels) ==
    \A n \in keys :
        /\ \/ \E i \in 1..Len(list) : list[i].name = n
           \/ \E j \in 1..Len(s) : s[j].kind = "ref" /\ s[j].name = n
        /\ \/ peels[n] = None
           \/ \E i \in 1..Len(list) : list[i].name = n /\ list[i].peeled # None
           \/ \E j \in 1..Len(s) : s[j].kind = "peeled" /\ s[j].name = n

Parsing(list, s, keys, ids, peels) ==
    Parsed(list, keys, ids, peels) /\ Told(s, keys, ids, peels) /\ Joint(list, s)
       /\ Covers(list, s, keys, peels)

\* A sequence and what is behind its first element.
LEMMA TailFacts ==
    ASSUME NEW S, NEW s \in Seq(S), s # <<>>
    PROVE  /\ Len(s) \in Nat /\ Len(s) >= 1 /\ Head(s) = s[1] /\ s[1] \in S
           /\ Tail(s) \in Seq(S) /\ Len(Tail(s)) = Len(s) - 1
           /\ \A j \in 1..Len(Tail(s)) : Tail(s)[j] = s[j + 1]
  OBVIOUS

\* The stream goes on behind its first line.
LEMMA ToldRest ==
    ASSUME NEW S, NEW s \in Seq(S), s # <<>>, NEW keys, NEW ids, NEW peels, Told(s, keys, ids, peels)
    PROVE  Told(Tail(s), keys, ids, peels)
<1>t. PICK t : t = Tail(s)
  OBVIOUS
<1>1. Len(s) \in Nat /\ Len(t) \in Nat /\ Len(t) = Len(s) - 1 /\ \A j \in 1..Len(t) : t[j] = s[j + 1]
  BY <1>t, TailFacts
<1>2. \A j \in 1..Len(t) : j + 1 \in 1..Len(s)
  BY <1>1
<1>3. \A j \in 1..Len(t) : t[j].kind = "ref" => t[j].name \in keys /\ t[j].oid = ids[t[j].name]
  BY <1>1, <1>2 DEF Told
<1>4. \A j \in 1..Len(t) : t[j].kind = "peeled" =>
          t[j].name \in keys /\ t[j].oid = peels[t[j].name] /\ t[j].oid # None
  BY <1>1, <1>2 DEF Told
<1>5. ASSUME NEW j \in 1..Len(t), NEW k \in 1..Len(t), j < k, t[k].kind = "ref", t[j].kind \in {"ref", "peeled"}
      PROVE  t[j].name < t[k].name
  <2>1. j + 1 \in 1..Len(s) /\ k + 1 \in 1..Len(s) /\ j + 1 < k + 1
    BY <1>1, <1>5
  <2> QED
    BY <1>1, <1>5, <2>1 DEF Told
<1>6. ASSUME NEW j \in 2..Len(t), t[j].kind = "peeled"
      PROVE  t[j - 1].kind = "ref" /\ t[j - 1].name = t[j].name
  <2>1. j + 1 \in 2..Len(s) /\ (j + 1) - 1 = (j - 1) + 1 /\ j - 1 \in 1..Len(t) /\ j \in 1..Len(t)
    BY <1>1
  <2>2. t[j] = s[j + 1] /\ t[j - 1] = s[(j + 1) - 1]
    BY <1>1, <2>1
  <2> QED
    BY <1>6, <2>1, <2>2 DEF Told
<1> QED
  BY <1>t, <1>3, <1>4, <1>5, <1>6 DEF Told

\* The lines of an advertisement or of info/refs, and the refs of a session.
LineKinds == {"ref", "peeled", "placeholder", "comment", "malformed"}
LineRecs ==
    [kind : LineKinds, name : 0..NumRefs, oid : Oids \cup {None}, caps : BOOLEAN,
     symref : Names \cup {None}, size : Nat]
NewLines == {l \in LineRecs : l.size = 1 /\ l.symref = None}
RefRecs ==
    [name : 0..NumRefs, hash : Oids \cup {None}, peeled : Oids \cup {None}, symref : Names \cup {None}]

\* A list with one more element.
LEMMA AppendFacts ==
    ASSUME NEW R, NEW list \in Seq(R), NEW r \in R
    PROVE  /\ Append(list, r) \in Seq(R) /\ Len(list) \in Nat /\ Len(Append(list, r)) = Len(list) + 1
           /\ \A i \in 1..Len(list) : Append(list, r)[i] = list[i]
           /\ Append(list, r)[Len(list) + 1] = r
  OBVIOUS

\* A ref line is parsed.
LEMMA TakeRef ==
    ASSUME NEW S, NEW s \in Seq(S), NEW R, NEW list \in Seq(R), NEW keys, NEW ids, NEW peels,
           Parsing(list, s, keys, ids, peels), s # <<>>, s[1].kind = "ref",
           NEW r \in R, r.name = s[1].name, r.hash = s[1].oid, r.peeled = None, r.symref = None
    PROVE  Parsing(Append(list, r), Tail(s), keys, ids, peels)
<1>0. Parsed(list, keys, ids, peels) /\ Told(s, keys, ids, peels) /\ Joint(list, s) /\ Covers(list, s, keys, peels)
  BY DEF Parsing
<1>t. PICK t : t = Tail(s)
  OBVIOUS
<1>l. PICK l : l = Append(list, r)
  OBVIOUS
<1>1. /\ Len(s) \in Nat /\ Len(s) >= 1 /\ Len(t) \in Nat /\ Len(t) = Len(s) - 1
      /\ \A j \in 1..Len(t) : t[j] = s[j + 1]
  BY <1>t, TailFacts
<1>2. /\ Len(list) \in Nat /\ Len(l) = Len(list) + 1 /\ \A i \in 1..Len(list) : l[i] = list[i]
      /\ l[Len(list) + 1] = r
  BY <1>l, AppendFacts
<1>3. \A i \in 1..Len(l) : i \in 1..Len(list) \/ i = Len(list) + 1
  BY <1>2
<1>4. 1 \in 1..Len(s) /\ \A j \in 1..Len(t) : j + 1 \in 1..Len(s) /\ 1 < j + 1
  BY <1>1
<1>5. \A i \in 1..Len(list) : list[i].name < r.name
  BY <1>0, <1>4 DEF Joint
<1>6. Parsed(l, keys, ids, peels)
  <2>1. r.name \in keys /\ r.hash = ids[r.name]
    BY <1>0, <1>4 DEF Told
  <2>2. ASSUME NEW i \in 1..Len(l)
        PROVE  /\ l[i].name \in keys /\ l[i].hash = ids[l[i].name] /\ l[i].symref = None
               /\ l[i].peeled \in {None, peels[l[i].name]}
    <3>1. CASE i \in 1..Len(list)
      BY <1>0, <1>2, <3>1 DEF Parsed
    <3>2. CASE i = Len(list) + 1
      BY <1>2, <2>1, <3>2
    <3> QED
      BY <1>3, <3>1, <3>2
  <2>3. ASSUME NEW i \in 1..Len(l), NEW j \in 1..Len(l), i < j PROVE l[i].name < l[j].name
    <3>1. i \in 1..Len(list)
      BY <1>2, <2>3
    <3>2. CASE j \in 1..Len(list)
      BY <1>0, <1>2, <2>3, <3>1, <3>2 DEF Parsed
    <3>3. CASE j = Len(list) + 1
      BY <1>2, <1>5, <3>1, <3>3
    <3> QED
      BY <1>3, <3>2, <3>3
  <2> QED
    BY <2>2, <2>3 DEF Parsed
<1>7. Told(t, keys, ids, peels)
  BY <1>0, <1>t, ToldRest
<1>8. Joint(l, t)
  <2>1. ASSUME NEW i \in 1..Len(l), NEW j \in 1..Len(t), t[j].kind = "ref" PROVE l[i].name < t[j].name
    <3>1. CASE i \in 1..Len(list)
      BY <1>0, <1>1, <1>2, <1>4, <2>1, <3>1 DEF Joint
    <3>2. CASE i = Len(list) + 1
      <4>1. s[j + 1].kind = "ref" /\ j + 1 \in 1..Len(s) /\ 1 < j + 1
        BY <1>1, <1>4, <2>1
      <4>2. s[1].name < s[j + 1].name
        BY <1>0, <1>4, <4>1 DEF Told
      <4> QED
        BY <1>1, <1>2, <3>2, <4>2
    <3> QED
      BY <1>3, <3>1, <3>2
  <2>2. ASSUME t # <<>>, t[1].kind = "peeled"
        PROVE  l # <<>> /\ l[Len(l)].name = t[1].name /\ l[Len(l)].peeled = None
    <3>1. 1 \in 1..Len(t) /\ 2 \in 2..Len(s) /\ t[1] = s[2]
      <4>1. t \in Seq(S)
        BY <1>t, TailFacts
      <4>2. Len(t) # 0
        BY <2>2, <4>1
      <4> QED
        BY <1>1, <4>2
    <3>2. s[2 - 1].name = s[2].name
      BY <1>0, <2>2, <3>1 DEF Told
    <3>3. s[1].name = t[1].name
      BY <3>1, <3>2
    <3>4. l # <<>>
      BY <1>l, AppendFacts
    <3> QED
      BY <1>2, <3>3, <3>4
  <2> QED
    BY <2>1, <2>2 DEF Joint
<1>9. Covers(l, t, keys, peels)
  <2> SUFFICES ASSUME NEW n \in keys
               PROVE  /\ \/ \E i \in 1..Len(l) : l[i].name = n
                         \/ \E j \in 1..Len(t) : t[j].kind = "ref" /\ t[j].name = n
                      /\ \/ peels[n] = None
                         \/ \E i \in 1..Len(l) : l[i].name = n /\ l[i].peeled # None
                         \/ \E j \in 1..Len(t) : t[j].kind = "peeled" /\ t[j].name = n
    BY DEF Covers
  <2>1. \A i \in 1..Len(list) : i \in 1..Len(l) /\ l[i] = list[i]
    BY <1>2
  <2>2. Len(l) \in 1..Len(l) /\ l[Len(l)] = r
    BY <1>2
  <2>3. \A j \in 1..Len(s) : j = 1 \/ (j - 1 \in 1..Len(t) /\ t[j - 1] = s[j])
    BY <1>1
  <2>4. \/ \E i \in 1..Len(l) : l[i].name = n
        \/ \E j \in 1..Len(t) : t[j].kind = "ref" /\ t[j].name = n
    <3>1. CASE \E i \in 1..Len(list) : list[i].name = n
      BY <2>1, <3>1
    <3>2. CASE \E j \in 1..Len(s) : s[j].kind = "ref" /\ s[j].name = n
      BY <2>2, <2>3, <3>2
    <3> QED
      BY <1>0, <3>1, <3>2 DEF Covers
  <2>5. \/ peels[n] = None
        \/ \E i \in 1..Len(l) : l[i].name = n /\ l[i].peeled # None
        \/ \E j \in 1..Len(t) : t[j].kind = "peeled" /\ t[j].name = n
    <3>1. CASE \E i \in 1..Len(list) : list[i].name = n /\ list[i].peeled # None
      BY <2>1, <3>1
    <3>2. CASE \E j \in 1..Len(s) : s[j].kind = "peeled" /\ s[j].name = n
      BY <2>3, <3>2
    <3> QED
      BY <1>0, <3>1, <3>2 DEF Covers
  <2> QED
    BY <2>4, <2>5
<1> QED
  BY <1>t, <1>l, <1>6, <1>7, <1>8, <1>9 DEF Parsing

\* A line that says nothing of a ref is passed over.
LEMMA TakeOther ==
    ASSUME NEW S, NEW s \in Seq(S), NEW list, NEW keys, NEW ids, NEW peels,
           Parsing(list, s, keys, ids, peels), s # <<>>, s[1].kind \notin {"ref", "peeled"}
    PROVE  Parsing(list, Tail(s), keys, ids, peels)
<1>0. Parsed(list, keys, ids, peels) /\ Told(s, keys, ids, peels) /\ Joint(list, s) /\ Covers(list, s, keys, peels)
  BY DEF Parsing
<1>t. PICK t : t = Tail(s)
  OBVIOUS
<1>1. /\ Len(s) \in Nat /\ Len(s) >= 1 /\ Len(t) \in Nat /\ Len(t) = Len(s) - 1
      /\ \A j \in 1..Len(t) : t[j] = s[j + 1]
  BY <1>t, TailFacts
<1>4. 1 \in 1..Len(s) /\ \A j \in 1..Len(t) : j + 1 \in 1..Len(s) /\ 1 < j + 1
  BY <1>1
<1>7. Told(t, keys, ids, peels)
  BY <1>0, <1>t, ToldRest
<1>8. Joint(list, t)
  <2>1. ASSUME NEW i \in 1..Len(list), NEW j \in 1..Len(t), t[j].kind = "ref" PROVE list[i].name < t[j].name
    BY <1>0, <1>1, <1>4, <2>1 DEF Joint
  <2>2. ASSUME t # <<>>, t[1].kind = "peeled" PROVE FALSE
    <3>1. 1 \in 1..Len(t) /\ 2 \in 2..Len(s) /\ t[1] = s[2]
      <4>1. t \in Seq(S)
        BY <1>t, TailFacts
      <4>2. Len(t) # 0
        BY <2>2, <4>1
      <4> QED
        BY <1>1, <4>2
    <3>2. s[2 - 1].kind = "ref"
      BY <1>0, <2>2, <3>1 DEF Told
    <3> QED
      BY <3>2
  <2> QED
    BY <2>1, <2>2 DEF Joint
<1>9. Covers(list, t, keys, peels)
  <2>3. \A j \in 1..Len(s) : j = 1 \/ (j - 1 \in 1..Len(t) /\ t[j - 1] = s[j])
    BY <1>1
  <2> QED
    BY <1>0, <2>3 DEF Covers
<1> QED
  BY <1>t, <1>0, <1>7, <1>8, <1>9 DEF Parsing

\* A peeled line is parsed: it belongs to the last ref, which has none yet.
LEMMA TakePeeled ==
    ASSUME NEW S, NEW s \in Seq(S), NEW list \in Seq(RefRecs), NEW keys, NEW ids, NEW peels,
           Parsing(list, s, keys, ids, peels), s # <<>>, s[1].kind = "peeled", s[1].oid \in Oids \cup {None}
    PROVE  /\ list # <<>> /\ list[Len(list)].name = s[1].name /\ list[Len(list)].peeled = None
           /\ [list EXCEPT ![Len(list)].peeled = s[1].oid] \in Seq(RefRecs)
           /\ Parsing([list EXCEPT ![Len(list)].peeled = s[1].oid], Tail(s), keys, ids, peels)
<1>0. Parsed(list, keys, ids, peels) /\ Told(s, keys, ids, peels) /\ Joint(list, s) /\ Covers(list, s, keys, peels)
  BY DEF Parsing
<1>t. PICK t : t = Tail(s)
  OBVIOUS
<1>1. /\ Len(s) \in Nat /\ Len(s) >= 1 /\ Len(t) \in Nat /\ Len(t) = Len(s) - 1
      /\ \A j \in 1..Len(t) : t[j] = s[j + 1]
  BY <1>t, TailFacts
<1>2. list # <<>> /\ list[Len(list)].name = s[1].name /\ list[Len(list)].peeled = None
  BY <1>0 DEF Joint
<1>m. PICK m \in Nat : m = Len(list) /\ m \in 1..m /\ list[m] \in RefRecs
  BY <1>2
<1>r. PICK r : r = [list[m] EXCEPT !.peeled = s[1].oid]
  OBVIOUS
<1>r1. r \in RefRecs /\ r.name = list[m].name /\ r.hash = list[m].hash /\ r.symref = list[m].symref /\ r.peeled = s[1].oid
  BY <1>m, <1>r DEF RefRecs
<1>l. PICK l : l = [list EXCEPT ![m] = r]
  OBVIOUS
<1>l0. l = [list EXCEPT ![Len(list)].peeled = s[1].oid]
  BY <1>l, <1>m, <1>r
<1>l1. l \in Seq(RefRecs) /\ Len(l) = m /\ l[m] = r /\ \A i \in 1..m : i # m => l[i] = list[i]
  BY <1>l, <1>m, <1>r1
<1>4. 1 \in 1..Len(s) /\ \A j \in 1..Len(t) : j + 1 \in 1..Len(s) /\ 1 < j + 1
  BY <1>1
<1>5. \A i \in 1..m : l[i].name = list[i].name /\ l[i].hash = list[i].hash /\ l[i].symref = list[i].symref
  BY <1>l1, <1>r1, <1>m
<1>p. s[1].oid = peels[s[1].name] /\ s[1].oid # None
  BY <1>0, <1>4 DEF Told
<1>6. Parsed(l, keys, ids, peels)
  <2>1. ASSUME NEW i \in 1..m PROVE l[i].peeled \in {None, peels[l[i].name]}
    <3>1. CASE i = m
      BY <1>2, <1>l1, <1>m, <1>p, <1>r1, <3>1
    <3>2. CASE i # m
      BY <1>0, <1>l1, <1>m, <3>2 DEF Parsed
    <3> QED
      BY <3>1, <3>2
  <2>2. \A i \in 1..m : l[i].name \in keys /\ l[i].hash = ids[l[i].name] /\ l[i].symref = None
    BY <1>0, <1>5, <1>m DEF Parsed
  <2>3. \A i, j \in 1..m : i < j => l[i].name < l[j].name
    BY <1>0, <1>5, <1>m DEF Parsed
  <2> QED
    BY <1>l1, <2>1, <2>2, <2>3 DEF Parsed
<1>7. Told(t, keys, ids, peels)
  BY <1>0, <1>t, ToldRest
<1>8. Joint(l, t)
  <2>1. ASSUME NEW i \in 1..Len(l), NEW j \in 1..Len(t), t[j].kind = "ref" PROVE l[i].name < t[j].name
    BY <1>0, <1>1, <1>4, <1>5, <1>l1, <1>m, <2>1 DEF Joint
  <2>2. ASSUME t # <<>>, t[1].kind = "peeled" PROVE FALSE
    <3>1. 1 \in 1..Len(t) /\ 2 \in 2..Len(s) /\ t[1] = s[2]
      <4>1. t \in Seq(S)
        BY <1>t, TailFacts
      <4>2. Len(t) # 0
        BY <2>2, <4>1
      <4> QED
        BY <1>1, <4>2
    <3>2. s[2 - 1].kind = "ref"
      BY <1>0, <2>2, <3>1 DEF Told
    <3> QED
      BY <3>2
  <2> QED
    BY <2>1, <2>2 DEF Joint
<1>9. Covers(l, t, keys, peels)
  <2> SUFFICES ASSUME NEW n \in keys
               PROVE  /\ \/ \E i \in 1..Len(l) : l[i].name = n
                         \/ \E j \in 1..Len(t) : t[j].kind = "ref" /\ t[j].name = n
                      /\ \/ peels[n] = None
                         \/ \E i \in 1..Len(l) : l[i].name = n /\ l[i].peeled # None
                         \/ \E j \in 1..Len(t) : t[j].kind = "peeled" /\ t[j].name = n
    BY DEF Covers
  <2>3. \A j \in 1..Len(s) : j = 1 \/ (j - 1 \in 1..Len(t) /\ t[j - 1] = s[j])
    BY <1>1
  <2>4. \/ \E i \in 1..Len(l) : l[i].name = n
        \/ \E j \in 1..Len(t) : t[j].kind = "ref" /\ t[j].name = n
    <3>1. CASE \E i \in 1..Len(list) : list[i].name = n
      BY <1>5, <1>l1, <1>m, <3>1
    <3>2. CASE \E j \in 1..Len(s) : s[j].kind = "ref" /\ s[j].name = n
      BY <2>3, <3>2
    <3> QED
      BY <1>0, <3>1, <3>2 DEF Covers
  <2>5. \/ peels[n] = None
        \/ \E i \in 1..Len(l) : l[i].name = n /\ l[i].peeled # None
        \/ \E j \in 1..Len(t) : t[j].kind = "peeled" /\ t[j].name = n
    <3>1. CASE \E i \in 1..Len(list) : list[i].name = n /\ list[i].peeled # None
      <4>1. PICK i \in 1..m : list[i].name = n /\ list[i].peeled # None
        BY <1>m, <3>1
      <4>2. i # m
        BY <1>2, <1>m, <4>1
      <4> QED
        BY <1>l1, <4>1, <4>2
    <3>2. CASE \E j \in 1..Len(s) : s[j].kind = "peeled" /\ s[j].name = n
      <4>1. PICK j \in 1..Len(s) : s[j].kind = "peeled" /\ s[j].name = n
        BY <3>2
      <4>2. CASE j = 1
        <5>1. l[m].name = n /\ l[m].peeled # None
          BY <1>2, <1>l1, <1>m, <1>p, <1>r1, <4>1, <4>2
        <5> QED
          BY <1>l1, <1>m, <5>1
      <4>3. CASE j # 1
        BY <2>3, <4>1, <4>3
      <4> QED
        BY <4>2, <4>3
    <3> QED
      BY <1>0, <3>1, <3>2 DEF Covers
  <2> QED
    BY <2>4, <2>5
<1>10. Parsing(l, t, keys, ids, peels)
  BY <1>6, <1>7, <1>8, <1>9 DEF Parsing
<1> QED
  BY <1>t, <1>l0, <1>l1, <1>2, <1>10

(***************************************************************************)
(* How streams are made.                                                   *)
(***************************************************************************)
\* u is s, and x behind it.
Behind(u, s, x, S) ==
    /\ u \in Seq(S) /\ Len(s) \in Nat /\ Len(x) \in Nat /\ Len(u) = Len(s) + Len(x)
    /\ \A i \in 1..Len(s) : u[i] = s[i]
    /\ \A i \in 1..Len(x) : u[Len(s) + i] = x[i]

\* Two sequences, one behind the other.
LEMMA ConcatFacts ==
    ASSUME NEW S, NEW s \in Seq(S), NEW x \in Seq(S)
    PROVE  Behind(s \o x, s, x, S)
  BY DEF Behind

\* What counts of a line is its kind, its name and its id.
LEMMA SameStream ==
    ASSUME NEW S, NEW s \in Seq(S), NEW T, NEW t \in Seq(T), Len(t) = Len(s),
           \A j \in 1..Len(s) : t[j].kind = s[j].kind /\ t[j].name = s[j].name /\ t[j].oid = s[j].oid,
           NEW list, NEW keys, NEW ids, NEW peels, Parsing(list, s, keys, ids, peels)
    PROVE  Parsing(list, t, keys, ids, peels)
<1>0. Parsed(list, keys, ids, peels) /\ Told(s, keys, ids, peels) /\ Joint(list, s) /\ Covers(list, s, keys, peels)
  BY DEF Parsing
<1>n. PICK n \in Nat : n = Len(s) /\ n = Len(t)
  OBVIOUS
<1>1. Told(t, keys, ids, peels)
  <2>1. \A j \in 2..n : j \in 1..n /\ j - 1 \in 1..n
    OBVIOUS
  <2>2. \A j \in 1..n : t[j].kind = s[j].kind /\ t[j].name = s[j].name /\ t[j].oid = s[j].oid
    BY <1>n
  <2>3. \A j \in 1..Len(t) : t[j].kind = "ref" => t[j].name \in keys /\ t[j].oid = ids[t[j].name]
    BY <1>0, <1>n, <2>2 DEF Told
  <2>4. \A j \in 1..Len(t) : t[j].kind = "peeled" =>
          t[j].name \in keys /\ t[j].oid = peels[t[j].name] /\ t[j].oid # None
    BY <1>0, <1>n, <2>2 DEF Told
  <2>5. \A j, k \in 1..Len(t) :
          j < k /\ t[k].kind = "ref" /\ t[j].kind \in {"ref", "peeled"} => t[j].name < t[k].name
    BY <1>0, <1>n, <2>2 DEF Told
  <2>6. \A j \in 2..Len(t) :
          t[j].kind = "peeled" => t[j - 1].kind = "ref" /\ t[j - 1].name = t[j].name
    BY <1>0, <1>n, <2>1, <2>2 DEF Told
  <2> QED
    BY <2>3, <2>4, <2>5, <2>6 DEF Told
<1>2. Joint(list, t)
  <2>1. t # <<>> => s # <<>> /\ 1 \in 1..Len(s)
    BY <1>n
  <2> QED
    BY <1>0, <1>n, <2>1 DEF Joint
<1>3. Covers(list, t, keys, peels)
  BY <1>0, <1>n DEF Covers
<1> QED
  BY <1>0, <1>1, <1>2, <1>3 DEF Parsing

\* A line that says nothing of a ref, at the end.
LEMMA OtherBehind ==
    ASSUME NEW S, NEW s \in Seq(S), NEW l \in S, l.kind \notin {"ref", "peeled"},
           NEW keys, NEW ids, NEW peels, Parsing(<<>>, s, keys, ids, peels)
    PROVE  Parsing(<<>>, Append(s, l), keys, ids, peels)
<1>0. Parsed(<<>>, keys, ids, peels) /\ Told(s, keys, ids, peels) /\ Joint(<<>>, s) /\ Covers(<<>>, s, keys, peels)
  BY DEF Parsing
<1>t. PICK t : t = Append(s, l)
  OBVIOUS
<1>1. /\ Len(s) \in Nat /\ Len(t) = Len(s) + 1 /\ \A i \in 1..Len(s) : t[i] = s[i] /\ i \in 1..Len(t)
      /\ t[Len(s) + 1] = l
  BY <1>t, AppendFacts
<1>2. \A i \in 1..Len(t) : t[i].kind \in {"ref", "peeled"} => i \in 1..Len(s) /\ t[i] = s[i]
  BY <1>1
<1>3. Told(t, keys, ids, peels)
  <2>1. ASSUME NEW j \in 2..Len(t), t[j].kind = "peeled"
        PROVE  t[j - 1].kind = "ref" /\ t[j - 1].name = t[j].name
    <3>1. j \in 2..Len(s) /\ t[j] = s[j] /\ j - 1 \in 1..Len(s)
      BY <1>1, <1>2, <2>1
    <3>2. t[j - 1] = s[j - 1]
      BY <1>1, <3>1
    <3> QED
      BY <1>0, <2>1, <3>1, <3>2 DEF Told
  <2>2. \A j \in 1..Len(t) : t[j].kind = "ref" => t[j].name \in keys /\ t[j].oid = ids[t[j].name]
    BY <1>0, <1>2 DEF Told
  <2>3. \A j \in 1..Len(t) : t[j].kind = "peeled" =>
          t[j].name \in keys /\ t[j].oid = peels[t[j].name] /\ t[j].oid # None
    BY <1>0, <1>2 DEF Told
  <2>4. \A j, k \in 1..Len(t) :
          j < k /\ t[k].kind = "ref" /\ t[j].kind \in {"ref", "peeled"} => t[j].name < t[k].name
    BY <1>0, <1>2 DEF Told
  <2> QED
    BY <2>1, <2>2, <2>3, <2>4 DEF Told
<1>4. Joint(<<>>, t)
  <2>1. t # <<>> => 1 \in 1..Len(t)
    BY <1>1
  <2>2. 1 \in 1..Len(s) => s # <<>>
    OBVIOUS
  <2> QED
    BY <1>0, <1>2, <2>1, <2>2 DEF Joint
<1>5. Covers(<<>>, t, keys, peels)
  BY <1>0, <1>1 DEF Covers
<1> QED
  BY <1>0, <1>t, <1>3, <1>4, <1>5 DEF Parsing

\* Such a line, at the beginning.
LEMMA OtherAhead ==
    ASSUME NEW S, NEW s \in Seq(S), NEW l \in S, l.kind \notin {"ref", "peeled"},
           NEW keys, NEW ids, NEW peels, Parsing(<<>>, s, keys, ids, peels)
    PROVE  Parsing(<<>>, << l >> \o s, keys, ids, peels)
<1>0. Parsed(<<>>, keys, ids, peels) /\ Told(s, keys, ids, peels) /\ Joint(<<>>, s) /\ Covers(<<>>, s, keys, peels)
  BY DEF Parsing
<1>l. PICK h : h = << l >>
  OBVIOUS
<1>h. h \in Seq(S) /\ Len(h) = 1 /\ h[1] = l
  BY <1>l
<1>t. PICK t : t = h \o s
  OBVIOUS
<1>1. /\ Len(s) \in Nat /\ Len(t) = 1 + Len(s) /\ t[1] = l
      /\ \A i \in 1..Len(s) : t[1 + i] = s[i]
  <2>1. 1 \in 1..Len(h)
    BY <1>h
  <2>2. Behind(t, h, s, S)
    BY <1>h, <1>t, ConcatFacts
  <2> QED
    BY <1>h, <2>1, <2>2 DEF Behind
<1>2. \A i \in 1..Len(t) : t[i].kind \in {"ref", "peeled"} => i - 1 \in 1..Len(s) /\ t[i] = s[i - 1]
  <2> SUFFICES ASSUME NEW i \in 1..Len(t), i # 1 PROVE i - 1 \in 1..Len(s) /\ t[i] = s[i - 1]
    BY <1>1
  <2>1. i - 1 \in 1..Len(s) /\ 1 + (i - 1) = i
    BY <1>1
  <2> QED
    BY <1>1, <2>1
<1>e. s # <<>> <=> 1 \in 1..Len(s)
  BY <1>1
<1>3. Told(t, keys, ids, peels)
  <2>1. ASSUME NEW j \in 2..Len(t), t[j].kind = "peeled"
        PROVE  t[j - 1].kind = "ref" /\ t[j - 1].name = t[j].name
    <3>0. j \in 1..Len(t)
      BY <1>1
    <3>1. j - 1 \in 1..Len(s) /\ t[j] = s[j - 1]
      BY <1>2, <2>1, <3>0
    <3>2. j - 1 # 1
      <4> SUFFICES ASSUME j - 1 = 1 PROVE FALSE
        OBVIOUS
      <4>1. s # <<>> /\ s[1].kind = "peeled"
        BY <1>e, <2>1, <3>1
      <4> QED
        BY <1>0, <4>1 DEF Joint
    <3>3. j - 1 \in 2..Len(s) /\ (j - 1) - 1 \in 1..Len(s) /\ 1 + ((j - 1) - 1) = j - 1
      BY <1>1, <3>1, <3>2
    <3>4. t[j - 1] = s[(j - 1) - 1]
      BY <1>1, <3>3
    <3> QED
      BY <1>0, <2>1, <3>1, <3>3, <3>4 DEF Told
  <2>2. \A j \in 1..Len(t) : t[j].kind = "ref" => t[j].name \in keys /\ t[j].oid = ids[t[j].name]
    BY <1>0, <1>2 DEF Told
  <2>3. \A j \in 1..Len(t) : t[j].kind = "peeled" =>
          t[j].name \in keys /\ t[j].oid = peels[t[j].name] /\ t[j].oid # None
    BY <1>0, <1>2 DEF Told
  <2>4. \A j, k \in 1..Len(t) :
          j < k /\ t[k].kind = "ref" /\ t[j].kind \in {"ref", "peeled"} => t[j].name < t[k].name
    <3> SUFFICES ASSUME NEW j \in 1..Len(t), NEW k \in 1..Len(t), j < k, t[k].kind = "ref",
                        t[j].kind \in {"ref", "peeled"}
                 PROVE  t[j].name < t[k].name
      OBVIOUS
    <3>1. j - 1 \in 1..Len(s) /\ k - 1 \in 1..Len(s) /\ t[j] = s[j - 1] /\ t[k] = s[k - 1]
      BY <1>2
    <3>2. j - 1 < k - 1
      BY <1>1
    <3> QED
      BY <1>0, <3>1, <3>2 DEF Told
  <2> QED
    BY <2>1, <2>2, <2>3, <2>4 DEF Told
<1>4. Joint(<<>>, t)
  <2>1. t[1].kind # "peeled"
    BY <1>1
  <2>2. \A i \in 1..Len(<<>>) : FALSE
    OBVIOUS
  <2> QED
    BY <2>1, <2>2 DEF Joint
<1>5. Covers(<<>>, t, keys, peels)
  <2>1. \A i \in 1..Len(s) : 1 + i \in 1..Len(t)
    BY <1>1
  <2> QED
    BY <1>0, <1>1, <2>1 DEF Covers
<1> QED
  BY <1>0, <1>l, <1>t, <1>3, <1>4, <1>5 DEF Parsing

\* x is what is written of the ref n.
OneRef(x, n, ids, peels) ==
    /\ x \in Seq(NewLines) /\ x[1].kind = "ref" /\ x[1].name = n /\ x[1].oid = ids[n]
    /\ peels[n] = None => Len(x) = 1
    /\ peels[n] # None => Len(x) = 2 /\ x[2].kind = "peeled" /\ x[2].name = n /\ x[2].oid = peels[n]

\* One more ref, of a greater name.
LEMMA AddRef ==
    ASSUME NEW s \in Seq(NewLines), NEW keys, NEW ids, NEW peels, Parsing(<<>>, s, keys, ids, peels),
           NEW n, \A k \in keys : k < n, NEW x, OneRef(x, n, ids, peels)
    PROVE  s \o x \in Seq(NewLines) /\ Parsing(<<>>, s \o x, keys \cup {n}, ids, peels)
<1>0. Parsed(<<>>, keys, ids, peels) /\ Told(s, keys, ids, peels) /\ Joint(<<>>, s) /\ Covers(<<>>, s, keys, peels)
  BY DEF Parsing
<1>x. /\ x \in Seq(NewLines) /\ Len(x) \in 1..2 /\ x[1].kind = "ref" /\ x[1].name = n /\ x[1].oid = ids[n]
      /\ Len(x) = 2 => x[2].kind = "peeled" /\ x[2].name = n /\ x[2].oid = peels[n] /\ peels[n] # None
      /\ peels[n] # None => Len(x) = 2
  <2>1. CASE peels[n] = None
    BY <2>1 DEF OneRef
  <2>2. CASE peels[n] # None
    <3>1. Len(x) = 2 /\ x[2].kind = "peeled" /\ x[2].name = n /\ x[2].oid = peels[n]
      BY <2>2 DEF OneRef
    <3>2. x \in Seq(NewLines) /\ x[1].kind = "ref" /\ x[1].name = n /\ x[1].oid = ids[n]
      BY DEF OneRef
    <3> QED
      BY <2>2, <3>1, <3>2
  <2> QED
    BY <2>1, <2>2
<1>t. PICK t : t = s \o x
  OBVIOUS
<1>m. PICK m \in Nat : m = Len(s)
  OBVIOUS
<1>1. /\ t \in Seq(NewLines) /\ Len(t) = m + Len(x)
      /\ \A i \in 1..m : t[i] = s[i]
      /\ \A i \in 1..Len(x) : t[m + i] = x[i]
  <2>1. Behind(t, s, x, NewLines)
    BY <1>t, <1>x, ConcatFacts
  <2> QED
    BY <1>m, <2>1 DEF Behind
<1>2. ASSUME NEW i \in 1..Len(t)
      PROVE  \/ i \in 1..m /\ t[i] = s[i]
             \/ i = m + 1 /\ t[i] = x[1]
             \/ i = m + 2 /\ Len(x) = 2 /\ t[i] = x[2]
  <2>1. i \in 1..m \/ i = m + 1 \/ (i = m + 2 /\ Len(x) = 2)
    BY <1>1, <1>x
  <2>2. 1 \in 1..Len(x) /\ (Len(x) = 2 => 2 \in 1..Len(x))
    BY <1>x
  <2> QED
    BY <1>1, <2>1, <2>2
<1>3. Told(t, keys \cup {n}, ids, peels)
  <2>1. ASSUME NEW j \in 1..Len(t), t[j].kind = "ref"
        PROVE  t[j].name \in keys \cup {n} /\ t[j].oid = ids[t[j].name]
    <3>1. CASE j \in 1..m /\ t[j] = s[j]
      BY <1>0, <1>m, <2>1, <3>1 DEF Told
    <3> QED
      BY <1>2, <1>x, <2>1, <3>1
  <2>2. ASSUME NEW j \in 1..Len(t), t[j].kind = "peeled"
        PROVE  t[j].name \in keys \cup {n} /\ t[j].oid = peels[t[j].name] /\ t[j].oid # None
    <3>1. CASE j \in 1..m /\ t[j] = s[j]
      BY <1>0, <1>m, <2>2, <3>1 DEF Told
    <3> QED
      BY <1>2, <1>x, <2>2, <3>1
  <2>3. ASSUME NEW j \in 1..Len(t), NEW k \in 1..Len(t), j < k, t[k].kind = "ref", t[j].kind \in {"ref", "peeled"}
        PROVE  t[j].name < t[k].name
    <3>1. CASE k \in 1..m /\ t[k] = s[k]
      <4>1. j \in 1..m /\ t[j] = s[j]
        BY <1>1, <2>3, <3>1
      <4> QED
        BY <1>0, <1>m, <2>3, <3>1, <4>1 DEF Told
    <3>2. CASE k = m + 1 /\ t[k] = x[1]
      <4>1. j \in 1..m /\ t[j] = s[j]
        BY <1>1, <2>3, <3>2
      <4>2. s[j].name \in keys
        BY <1>0, <1>m, <2>3, <4>1 DEF Told
      <4> QED
        BY <1>x, <3>2, <4>1, <4>2
    <3> QED
      BY <1>2, <1>x, <2>3, <3>1, <3>2
  <2>4. ASSUME NEW j \in 2..Len(t), t[j].kind = "peeled"
        PROVE  t[j - 1].kind = "ref" /\ t[j - 1].name = t[j].name
    <3>0. j \in 1..Len(t) /\ j - 1 \in 1..Len(t)
      BY <1>1, <1>x
    <3>1. CASE j \in 1..m /\ t[j] = s[j]
      <4>1. j \in 2..m /\ j - 1 \in 1..m
        BY <3>1
      <4>2. t[j - 1] = s[j - 1]
        BY <1>1, <4>1
      <4> QED
        BY <1>0, <1>m, <2>4, <3>1, <4>1, <4>2 DEF Told
    <3>2. CASE j = m + 2 /\ Len(x) = 2 /\ t[j] = x[2]
      <4>1. j - 1 = m + 1 /\ 1 \in 1..Len(x)
        BY <3>2
      <4>2. t[j - 1] = x[1]
        BY <1>1, <4>1
      <4> QED
        BY <1>x, <3>2, <4>2
    <3> QED
      BY <1>2, <1>x, <2>4, <3>0, <3>1, <3>2
  <2> QED
    BY <2>1, <2>2, <2>3, <2>4 DEF Told
<1>4. Joint(<<>>, t)
  <2>1. 1 \in 1..Len(t)
    BY <1>1, <1>x
  <2>2. t[1].kind # "peeled"
    <3>1. CASE 1 \in 1..m /\ t[1] = s[1]
      <4>1. s # <<>>
        BY <1>m, <3>1
      <4> QED
        BY <1>0, <3>1, <4>1 DEF Joint
    <3> QED
      BY <1>2, <1>x, <2>1, <3>1
  <2>3. \A i \in 1..Len(<<>>) : FALSE
    OBVIOUS
  <2> QED
    BY <2>2, <2>3 DEF Joint
<1>5. Covers(<<>>, t, keys \cup {n}, peels)
  <2>1. \A j \in 1..m : j \in 1..Len(t) /\ t[j] = s[j]
    BY <1>1, <1>x
  <2>2. m + 1 \in 1..Len(t) /\ t[m + 1] = x[1] /\ (Len(x) = 2 => m + 2 \in 1..Len(t) /\ t[m + 2] = x[2])
    BY <1>1, <1>x
  <2>3. ASSUME NEW k \in keys
        PROVE  /\ \/ \E i \in 1..Len(<<>>) : <<>>[i].name = k
                  \/ \E j \in 1..Len(t) : t[j].kind = "ref" /\ t[j].name = k
               /\ \/ peels[k] = None
                  \/ \E i \in 1..Len(<<>>) : <<>>[i].name = k /\ <<>>[i].peeled # None
                  \/ \E j \in 1..Len(t) : t[j].kind = "peeled" /\ t[j].name = k
    BY <1>0, <1>m, <2>1 DEF Covers
  <2>4. /\ \E j \in 1..Len(t) : t[j].kind = "ref" /\ t[j].name = n
        /\ peels[n] = None \/ \E j \in 1..Len(t) : t[j].kind = "peeled" /\ t[j].name = n
    BY <1>x, <2>2
  <2> QED
    BY <2>3, <2>4 DEF Covers
<1>6. Parsed(<<>>, keys \cup {n}, ids, peels)
  <2>1. \A i \in 1..Len(<<>>) : FALSE
    OBVIOUS
  <2> QED
    BY <2>1 DEF Parsed
<1> QED
  BY <1>1, <1>t, <1>3, <1>4, <1>5, <1>6 DEF Parsing

\* Nothing listed, nothing to parse.
LEMMA NoStream ==
    ASSUME NEW ids, NEW peels
    PROVE  Parsing(<<>>, <<>>, {}, ids, peels)
<1>1. \A i \in 1..Len(<<>>) : FALSE
  OBVIOUS
<1>2. \A i \in 2..Len(<<>>) : FALSE
  OBVIOUS
<1> QED
  BY <1>1, <1>2 DEF Parsing, Parsed, Told, Joint, Covers

(***************************************************************************)
(* What InOrder makes of the lines of the refs.                            *)
(***************************************************************************)
\* f satisfies the recursive definition in InOrder.
IsInOrder(f, ahead, lines) ==
    f = [n \in 0..NumRefs |-> IF n = 0 THEN ahead ELSE f[n - 1] \o lines[n]]

\* The recursive function that InOrder defines exists.
LEMMA InOrderExists ==
    ASSUME NEW ahead, NEW lines
    PROVE  \E f : IsInOrder(f, ahead, lines)
<1> DEFINE St(f, n) == IF n = 0 THEN ahead ELSE f[n - 1] \o lines[n]
<1> DEFINE S == {l \in Nat : \E f : f = [n \in 0..l |-> St(f, n)]}
<1>0. ASSUME NEW f, NEW g, NEW d, d = 0 \/ f[d - 1] = g[d - 1] PROVE St(f, d) = St(g, d)
  <2>1. CASE d = 0
    BY <2>1
  <2>2. CASE f[d - 1] = g[d - 1]
    BY <2>2
  <2> QED
    BY <1>0, <2>1, <2>2
<1>1. 0 \in S
  <2>1. PICK f : f = [d \in 0..0 |-> ahead]
    OBVIOUS
  <2>2. f = [d \in 0..0 |-> St(f, d)]
    BY <2>1
  <2> QED
    BY <2>2
<1>2. ASSUME NEW n \in Nat, n \in S PROVE n + 1 \in S
  <2>1. PICK f : f = [d \in 0..n |-> St(f, d)]
    BY <1>2
  <2> HIDE DEF St
  <2>2. PICK g : g = [d \in 0..(n + 1) |-> IF d = n + 1 THEN St(f, d) ELSE f[d]]
    OBVIOUS
  <2>3. ASSUME NEW d \in 0..(n + 1) PROVE g[d] = St(g, d)
    <3>1. CASE d = n + 1
      <4>1. d - 1 = n /\ n # n + 1 /\ n \in 0..(n + 1)
        BY <3>1
      <4>2. g[d - 1] = f[d - 1] /\ g[d] = St(f, d)
        BY <2>2, <3>1, <4>1
      <4> QED
        BY <1>0, <4>2
    <3>2. CASE d # n + 1
      <4>1. d \in 0..n
        BY <3>2
      <4>2. g[d] = f[d] /\ f[d] = St(f, d)
        BY <2>1, <2>2, <3>2, <4>1
      <4>3. d = 0 \/ (d - 1 \in 0..(n + 1) /\ d - 1 # n + 1)
        BY <4>1
      <4>4. d = 0 \/ f[d - 1] = g[d - 1]
        BY <2>2, <4>3
      <4> QED
        BY <1>0, <4>2, <4>4
    <3> QED
      BY <3>1, <3>2
  <2>4. g = [d \in 0..(n + 1) |-> St(g, d)]
    BY <2>2, <2>3
  <2> QED
    BY <2>4
<1>3. Nat \subseteq S
  <2> HIDE DEF S
  <2> QED
    BY <1>1, <1>2, SetInduction
<1>4. PICK f : f = [d \in 0..NumRefs |-> St(f, d)]
  BY <1>3, NumRefsAssumption
<1> QED
  BY <1>4, Zenon DEF IsInOrder

\* One ref's lines come behind those of the refs before it.
Stepwise(f, ahead, lines) ==
    /\ f[0] = ahead
    /\ \A n \in Nat : n + 1 <= NumRefs => f[n + 1] = f[n] \o lines[n + 1]

\* So InOrder is its value for the last ref.
LEMMA InOrderDef ==
    ASSUME NEW ahead, NEW lines
    PROVE  \E f : Stepwise(f, ahead, lines) /\ InOrder(ahead, lines) = f[NumRefs]
<1> DEFINE upTo[n \in 0..NumRefs] == IF n = 0 THEN ahead ELSE upTo[n - 1] \o lines[n]
<1>1. \E f : IsInOrder(f, ahead, lines)
  BY InOrderExists
<1>2. IsInOrder(upTo, ahead, lines)
  BY <1>1, Zenon DEF upTo, IsInOrder
<1>3. InOrder(ahead, lines) = upTo[NumRefs]
  BY Zenon DEF InOrder, upTo
<1>4. ASSUME NEW f, IsInOrder(f, ahead, lines) PROVE Stepwise(f, ahead, lines)
  <2>1. f = [n \in 0..NumRefs |-> IF n = 0 THEN ahead ELSE f[n - 1] \o lines[n]]
    BY <1>4, Zenon DEF IsInOrder
  <2>2. f[0] = ahead
    <3>1. 0 \in 0..NumRefs
      BY NumRefsAssumption
    <3> QED
      BY <2>1, <3>1
  <2>3. ASSUME NEW n \in Nat, n + 1 <= NumRefs PROVE f[n + 1] = f[n] \o lines[n + 1]
    <3>1. n + 1 \in 0..NumRefs /\ n + 1 # 0 /\ (n + 1) - 1 = n
      BY <2>3, NumRefsAssumption
    <3>2. PICK e \in 0..NumRefs : e = n + 1
      BY <3>1
    <3>3. f[e] = f[n] \o lines[e]
      BY <2>1, <3>1, <3>2
    <3> QED
      BY <3>2, <3>3
  <2> QED
    BY <2>2, <2>3 DEF Stepwise
<1>5. Stepwise(upTo, ahead, lines)
  BY <1>2, <1>4
<1> QED
  BY <1>3, <1>5, Zenon

\* The names up to the nth.
UpTo(keys, n) == {k \in keys : k <= n}

\* One name after the other.
LEMMA UpToFacts ==
    ASSUME NEW keys, keys \subseteq 0..NumRefs
    PROVE  /\ UpTo(keys, NumRefs) = keys
           /\ 0 \in keys => UpTo(keys, 0) = {0}
           /\ 0 \notin keys => UpTo(keys, 0) = {}
           /\ \A n \in Nat :
                 /\ n + 1 \in keys => UpTo(keys, n + 1) = UpTo(keys, n) \cup {n + 1}
                 /\ n + 1 \notin keys => UpTo(keys, n + 1) = UpTo(keys, n)
                 /\ \A k \in UpTo(keys, n) : k < n + 1
<1>0. \A k \in keys : k \in Nat /\ k <= NumRefs
  BY NumRefsAssumption
<1>1. UpTo(keys, NumRefs) = keys
  BY <1>0 DEF UpTo
<1>2. \A k \in keys : k <= 0 <=> k = 0
  BY <1>0
<1>3. 0 \in keys => UpTo(keys, 0) = {0}
  BY <1>2 DEF UpTo
<1>4. 0 \notin keys => UpTo(keys, 0) = {}
  BY <1>2 DEF UpTo
<1>5. ASSUME NEW n \in Nat
      PROVE  /\ n + 1 \in keys => UpTo(keys, n + 1) = UpTo(keys, n) \cup {n + 1}
             /\ n + 1 \notin keys => UpTo(keys, n + 1) = UpTo(keys, n)
             /\ \A k \in UpTo(keys, n) : k < n + 1
  <2>1. \A k \in keys : k <= n + 1 <=> (k <= n \/ k = n + 1)
    BY <1>0
  <2>2. n + 1 \in keys => UpTo(keys, n + 1) = UpTo(keys, n) \cup {n + 1}
    BY <2>1 DEF UpTo
  <2>3. n + 1 \notin keys => UpTo(keys, n + 1) = UpTo(keys, n)
    BY <2>1 DEF UpTo
  <2>4. \A k \in UpTo(keys, n) : k < n + 1
    BY <1>0 DEF UpTo
  <2> QED
    BY <2>2, <2>3, <2>4
<1> QED
  BY <1>1, <1>3, <1>4, <1>5

\* A listing with the lines of every ref in order can be parsed.
LEMMA StreamBuilt ==
    ASSUME NEW keys \in SUBSET (0..NumRefs), NEW ids, NEW peels, NEW ahead, NEW lines,
           IF 0 \in keys THEN OneRef(ahead, 0, ids, peels) ELSE ahead = <<>>,
           \A n \in Names : IF n \in keys THEN OneRef(lines[n], n, ids, peels) ELSE lines[n] = <<>>
    PROVE  /\ InOrder(ahead, lines) \in Seq(NewLines)
           /\ Parsing(<<>>, InOrder(ahead, lines), keys, ids, peels)
<1>1. PICK f : Stepwise(f, ahead, lines) /\ InOrder(ahead, lines) = f[NumRefs]
  BY InOrderDef
<1>k. keys \subseteq 0..NumRefs
  OBVIOUS
<1> DEFINE S == {n \in Nat : n <= NumRefs =>
                    f[n] \in Seq(NewLines) /\ Parsing(<<>>, f[n], UpTo(keys, n), ids, peels)}
<1>2. 0 \in S
  <2>1. f[0] = ahead
    BY <1>1 DEF Stepwise
  <2>2. <<>> \in Seq(NewLines) /\ Parsing(<<>>, <<>>, {}, ids, peels)
    BY NoStream
  <2>3. CASE 0 \in keys
    <3>1. UpTo(keys, 0) = {} \cup {0}
      BY <1>k, <2>3, UpToFacts
    <3>2. PICK e : e = <<>>
      OBVIOUS
    <3>3. e \o ahead \in Seq(NewLines) /\ Parsing(<<>>, e \o ahead, {} \cup {0}, ids, peels)
      <4>1. e \in Seq(NewLines) /\ Parsing(<<>>, e, {}, ids, peels)
        BY <2>2, <3>2
      <4>2. OneRef(ahead, 0, ids, peels)
        BY <2>3
      <4>3. \A k \in {} : k < 0
        OBVIOUS
      <4> QED
        BY <4>1, <4>2, <4>3, AddRef
    <3>4. e \o ahead = ahead
      <4>1. ahead \in Seq(NewLines)
        BY <2>3 DEF OneRef
      <4> QED
        BY <3>2, <4>1
    <3>5. f[0] \in Seq(NewLines) /\ Parsing(<<>>, f[0], UpTo(keys, 0), ids, peels)
      <4> QED
        BY <2>1, <3>1, <3>3, <3>4
    <3> QED
      BY <3>5
  <2>4. CASE 0 \notin keys
    <3>1. UpTo(keys, 0) = {}
      BY <1>k, <2>4, UpToFacts
    <3>2. f[0] = <<>>
      BY <2>1, <2>4
    <3>3. f[0] \in Seq(NewLines) /\ Parsing(<<>>, f[0], UpTo(keys, 0), ids, peels)
      <4> QED
        BY <2>2, <3>1, <3>2
    <3> QED
      BY <3>3
  <2> QED
    BY <2>3, <2>4
<1>3. ASSUME NEW n \in Nat, n \in S PROVE n + 1 \in S
  <2> SUFFICES ASSUME n + 1 <= NumRefs
               PROVE  f[n + 1] \in Seq(NewLines) /\ Parsing(<<>>, f[n + 1], UpTo(keys, n + 1), ids, peels)
    OBVIOUS
  <2>0. PICK m \in Names : m = n + 1
    BY NumRefsAssumption DEF Names
  <2>1. f[m] = f[n] \o lines[m]
    BY <1>1, <2>0 DEF Stepwise
  <2>2. n <= NumRefs
    BY NumRefsAssumption
  <2>3. f[n] \in Seq(NewLines) /\ Parsing(<<>>, f[n], UpTo(keys, n), ids, peels)
    BY <1>3, <2>2
  <2>4. CASE m \in keys
    <3>1. UpTo(keys, m) = UpTo(keys, n) \cup {m}
      BY <1>k, <2>0, <2>4, UpToFacts
    <3>2. \A k \in UpTo(keys, n) : k < m
      BY <1>k, <2>0, UpToFacts
    <3>3. OneRef(lines[m], m, ids, peels)
      BY <2>4
    <3>4. f[n] \o lines[m] \in Seq(NewLines) /\ Parsing(<<>>, f[n] \o lines[m], UpTo(keys, n) \cup {m}, ids, peels)
      <4> QED
        BY <2>3, <3>2, <3>3, AddRef
    <3>5. f[m] \in Seq(NewLines) /\ Parsing(<<>>, f[m], UpTo(keys, m), ids, peels)
      <4> QED
        BY <2>1, <3>1, <3>4
    <3> QED
      BY <2>0, <3>5
  <2>5. CASE m \notin keys
    <3>1. UpTo(keys, m) = UpTo(keys, n)
      BY <1>k, <2>0, <2>5, UpToFacts
    <3>2. f[m] = f[n]
      <4>1. lines[m] = <<>>
        BY <2>5
      <4>2. f[n] \o <<>> = f[n]
        BY <2>3
      <4> QED
        BY <2>1, <4>1, <4>2
    <3>5. f[m] \in Seq(NewLines) /\ Parsing(<<>>, f[m], UpTo(keys, m), ids, peels)
      <4> QED
        BY <2>3, <3>1, <3>2
    <3> QED
      BY <2>0, <3>5
  <2> QED
    BY <2>4, <2>5
<1>4. Nat \subseteq S
  <2> HIDE DEF S
  <2> QED
    BY <1>2, <1>3, SetInduction
<1>5. UpTo(keys, NumRefs) = keys
  BY <1>k, UpToFacts
<1>6. f[NumRefs] \in Seq(NewLines) /\ Parsing(<<>>, f[NumRefs], UpTo(keys, NumRefs), ids, peels)
  BY <1>4, NumRefsAssumption
<1> QED
  <2> QED
    BY <1>1, <1>5, <1>6

(***************************************************************************)
(* The store, as Discovery finds it: nobody changes the repository.        *)
(***************************************************************************)
\* Git has not changed anything, and a reftable repository has no packed-refs.
AtRest ==
    /\ touched = {} /\ removed = {}
    /\ backend = "reftable" => \A n \in Names : packed[n] = None
    /\ spc # "idle" => snapshot = Records
    /\ opc = "open" /\ backend = "reftable" => spc = "open"

Heads == [symref : Names \cup {None}, oid : Oids \cup {None}, unborn : BOOLEAN]

\* An unborn HEAD is symbolic and has no id.
HeadOK == opc = "open" => head \in Heads /\ (head.unborn => head.symref # None /\ head.oid = None)

StoreAtRest == StoreInv /\ AtRest /\ HeadOK

\* At first.
LEMMA StoreAtRestInit == StoreInit => StoreAtRest
<1> SUFFICES ASSUME StoreInit PROVE StoreAtRest
  OBVIOUS
<1>1. StoreInv
  BY StoreInitInv
<1>2. touched = {} /\ removed = {} /\ spc = "idle" /\ opc = "packed"
  BY DEF StoreInit, StackIdle
<1>3. backend = "reftable" => \A n \in Names : packed[n] = None
  BY DEF StoreInit
<1> QED
  BY <1>1, <1>2, <1>3 DEF StoreAtRest, AtRest, HeadOK

\* The opening changes nothing on the disk.
LEMMA AtRestStep ==
    ASSUME StoreAtRest, OpenStep
    PROVE  AtRest'
<1>0. AtRest /\ PhaseInv
  BY DEF StoreAtRest, StoreInv
<1>1. CASE OpenFilesStep /\ UNCHANGED stackVars
  <2>1. UNCHANGED diskVars
    BY <1>1 DEF OpenFilesStep, ReadPackedRefs, ReadRefsDir, EnterDir, ReadLooseRef, WalkEnds, ReadHead, FollowSymref
  <2>2. opc # "packed" \/ backend = "files"
    BY <1>1 DEF OpenFilesStep, ReadPackedRefs, ReadRefsDir, EnterDir, ReadLooseRef, WalkEnds, ReadHead, FollowSymref
  <2>3. opc # "open" /\ opc # "failed"
    BY <1>1 DEF OpenFilesStep, ReadPackedRefs, ReadRefsDir, EnterDir, ReadLooseRef, WalkEnds, ReadHead, FollowSymref
  <2>4. backend = "files"
    BY <1>0, <2>2, <2>3 DEF PhaseInv
  <2> QED
    BY <1>0, <1>1, <2>1, <2>4 DEF AtRest, diskVars, stackVars, Records
<1>2. CASE OpenReftableStack
  <2>1. /\ UNCHANGED <<backend, packed, loose, headFile, touched, removed>>
        /\ snapshot' = IF spc = "idle" THEN Records ELSE snapshot
    BY <1>2 DEF OpenReftableStack
  <2>2. Records' = Records
    BY <2>1 DEF Records
  <2>3. opc' = "packed"
    BY <1>2 DEF OpenReftableStack, openVars
  <2> QED
    BY <1>0, <2>1, <2>2, <2>3 DEF AtRest
<1>3. CASE OpenReftableFails
  <2>1. UNCHANGED diskVars /\ (spc' # "idle" => spc # "idle") /\ opc' = "failed"
    BY <1>3 DEF OpenReftableFails, OpenFails, stackVars, CloseStack
  <2> QED
    BY <1>0, <2>1 DEF AtRest, diskVars, Records
<1>4. CASE OpenReftable
  BY <1>0, <1>4 DEF OpenReftable, AtRest, diskVars, stackVars, Records
<1> QED
  BY <1>1, <1>2, <1>3, <1>4 DEF OpenStep

\* HEAD, once the opening has resolved it.
LEMMA HeadStep ==
    ASSUME StoreAtRest, OpenStep
    PROVE  HeadOK'
<1>0. /\ opc \in {"packed", "root", "walk", "head", "hop", "open", "failed"}
      /\ refs \in [Names -> RefEntries \cup {None}] /\ (opc = "hop" => hop \in Names) /\ StackInv
  BY DEF StoreAtRest, StoreInv, OpenTypeOK
<1>n. None \notin Oids \cup Names /\ Oids \cap Names = {}
  BY DistinctAssumption DEF Names
<1>a. ASSUME NEW a \in Names \cup {None}, NEW b \in Oids \cup {None}, NEW u \in BOOLEAN,
             HeadIs(a, b, u), u => a # None /\ b = None
      PROVE  HeadOK'
  BY <1>a DEF HeadIs, HeadOK, Heads
<1>1. CASE opc' # "open"
  BY <1>1 DEF HeadOK
<1>2. CASE ReadHead
  <2>1. CASE headFile \in Oids /\ HeadIs(None, headFile, FALSE)
    BY <1>a, <2>1
  <2> QED
    BY <1>1, <1>2, <2>1 DEF ReadHead, OpenFails
<1>3. CASE FollowSymref
  <2>1. opc = "hop" /\ hop \in Names
    BY <1>0, <1>3 DEF FollowSymref
  <2>2. CASE refs[hop] # None /\ HeadIs(hop, HeadOid, FALSE)
    <3>1. HeadOid \in Oids
      BY <1>0, <2>1, <2>2 DEF HeadOid, RefEntries
    <3> QED
      BY <1>a, <2>1, <2>2, <3>1
  <2>3. CASE HeadIs(hop, None, TRUE)
    BY <1>a, <1>n, <2>1, <2>3
  <2>4. CASE OpenFails
    BY <1>1, <2>4 DEF OpenFails
  <2>5. CASE UNCHANGED opc
    BY <1>1, <2>1, <2>5
  <2> QED
    BY <1>3, <2>2, <2>3, <2>4, <2>5 DEF FollowSymref
<1>4. CASE OpenReftable
  <2>1. spc = "open" /\ backend = "reftable" /\ merged[0] # None /\ head' = ReftableHead
    BY <1>4 DEF OpenReftable
  <2>2. /\ snapshot \in Tables /\ snapshot[0] \in Oids \cup Names \cup {Bad}
        /\ \A k \in Keys : merged[k] = snapshot[k] /\ merged[k] # Bad
    BY <1>0, <2>1 DEF StackInv
  <2>3. 0 \in Keys
    BY NumRefsAssumption DEF Keys
  <2>4. merged[0] \in Oids \cup Names
    BY <2>2, <2>3
  <2>5. CASE merged[0] \in Oids
    <3>1. head' = [symref |-> None, oid |-> merged[0], unborn |-> FALSE]
      BY <2>1, <2>5 DEF ReftableHead
    <3> QED
      BY <2>5, <3>1 DEF HeadOK, Heads
  <2>6. CASE merged[0] \notin Oids
    <3>1. PICK b : b = IF merged[merged[0]] \in Oids THEN merged[merged[0]] ELSE None
      OBVIOUS
    <3>2. PICK u \in BOOLEAN : u = (merged[merged[0]] = None)
      OBVIOUS
    <3>3. head' = [symref |-> merged[0], oid |-> b, unborn |-> u]
      BY <2>1, <2>6, <3>1, <3>2 DEF ReftableHead
    <3>4. b \in Oids \cup {None} /\ (u => b = None) /\ merged[0] \in Names
      BY <1>n, <2>4, <2>6, <3>1, <3>2
    <3> QED
      BY <1>n, <3>3, <3>4 DEF HeadOK, Heads
  <2> QED
    BY <2>5, <2>6
<1>5. CASE OpenReftableStack \/ OpenReftableFails
  <2>1. opc' # "open"
    BY <1>5 DEF OpenReftableStack, OpenReftableFails, OpenFails, openVars
  <2> QED
    BY <1>1, <2>1
<1>6. CASE ReadPackedRefs \/ ReadRefsDir \/ EnterDir \/ ReadLooseRef \/ WalkEnds
  <2>1. opc' # "open"
    BY <1>6 DEF ReadPackedRefs, ReadRefsDir, EnterDir, ReadLooseRef, WalkEnds, OpenFails
  <2> QED
    BY <1>1, <2>1
<1> QED
  BY <1>2, <1>3, <1>4, <1>5, <1>6 DEF OpenStep, OpenFilesStep

\* So the store is opened.
LEMMA StoreAtRestStep ==
    ASSUME StoreAtRest, OpenStep
    PROVE  StoreAtRest'
<1>1. StoreInv'
  BY StoreStepInv DEF StoreAtRest, StoreNext
<1> QED
  BY <1>1, AtRestStep, HeadStep DEF StoreAtRest

\* Once it is open nothing changes it.
LEMMA StoreAtRestSame ==
    ASSUME StoreAtRest, UNCHANGED storeVars
    PROVE  StoreAtRest'
<1>1. StoreInv'
  BY StoreStepInv DEF StoreAtRest
<1>2. UNCHANGED diskVars /\ UNCHANGED openVars /\ UNCHANGED stackVars
  BY DEF storeVars
<1>3. AtRest'
  BY <1>2 DEF StoreAtRest, AtRest, diskVars, openVars, stackVars, Records
<1>4. HeadOK'
  BY <1>2 DEF StoreAtRest, HeadOK, openVars
<1> QED
  BY <1>1, <1>3, <1>4 DEF StoreAtRest

\* An open store takes no step of the opening.
LEMMA NoOpenStep ==
    ASSUME opc = "open"
    PROVE  ~OpenStep
BY DEF OpenStep, OpenFilesStep, ReadPackedRefs, ReadRefsDir, EnterDir, ReadLooseRef, WalkEnds, ReadHead,
       FollowSymref, OpenReftableStack, OpenReftableFails, OpenReftable

\* What it holds of every ref is what the repository has.
LEMMA RefsListed ==
    ASSUME StoreAtRest, opc = "open", NEW n \in Names
    PROVE  \/ ShadowsPacked(n)
           \/ refs[n] = None /\ ListedOid(n) = None
           \/ refs[n] # None /\ refs[n].oid = ListedOid(n)
<1>0. StoreInv /\ AtRest
  BY DEF StoreAtRest
<1>1. loose[n] \in Oids \cup Names \cup {None, Bad} /\ packed[n] \in Oids \cup {None}
  BY <1>0 DEF StoreInv, DiskTypeOK
<1>2. None \notin Oids \cup Names /\ Oids \cap Names = {} /\ Bad \notin Oids \cup Names /\ Bad # None
  BY DistinctAssumption, MarksAssumption DEF Names
<1>3. CASE backend = "files"
  <2>1. ~Pending(n)
    BY DEF Pending
  <2>2. loose[n] # Bad /\ (loose[n] \in Oids => MirrorsLoose(n)) /\ (loose[n] \notin Oids => MirrorsPacked(n))
    BY <1>0, <1>3, <2>1 DEF StoreInv, WalkInv, AtRest
  <2>5. CASE loose[n] \in Oids
    BY <2>2, <1>2, <2>5 DEF MirrorsLoose, ListedOid
  <2>6. CASE loose[n] = None
    BY <2>2, <1>2, <2>6 DEF MirrorsPacked, ListedOid
  <2>7. CASE loose[n] \in Names
    BY <2>2, <1>2, <2>7 DEF MirrorsPacked, ListedOid, ShadowsPacked
  <2> QED
    BY <1>1, <2>2, <2>5, <2>6, <2>7
<1>4. CASE backend = "reftable"
  <2>1. IF snapshot[n] \in Oids THEN refs[n] # None /\ refs[n].oid = snapshot[n] ELSE refs[n] = None
    BY <1>0, <1>4 DEF StoreInv, StackIsSnapshot
  <2>2. spc # "idle" /\ packed[n] = None
    BY <1>0, <1>4 DEF AtRest, StoreInv
  <2>3. snapshot[n] = loose[n]
    BY <1>0, <2>2, NumRefsAssumption DEF AtRest, Records, Keys, Names
  <2> QED
    BY <1>1, <1>2, <2>1, <2>2, <2>3 DEF ListedOid
<1> QED
  BY <1>0, <1>3, <1>4 DEF StoreInv, DiskTypeOK

(***************************************************************************)
(* The inductive invariant of Discovery.                                   *)
(***************************************************************************)
\* s has one entry for each name, in order.
Listing(s, keys, entry) ==
    /\ \A i \in 1..Len(s) : s[i].name \in keys /\ s[i] = entry[s[i].name]
    /\ \A i, j \in 1..Len(s) : i < j => s[i].name < s[j].name
    /\ \A n \in keys : \E i \in 1..Len(s) : s[i].name = n

\* The session is with a dumb HTTP server.
Dumb == synth # "none"

\* What a v0 session is to list, with what id and what peeled id.
ListedKeys == {n \in Names : refs[n] # None} \cup (IF ~Dumb /\ HeadValid THEN {0} ELSE {})
IdOf == [n \in 0..NumRefs |-> IF n = 0 THEN head.oid ELSE IF refs[n] = None THEN None ELSE refs[n].oid]
PeelFor ==
    [n \in 0..NumRefs |->
        IF n = 0 THEN None
        ELSE IF refs[n] = None THEN None
        ELSE IF Dumb THEN TruePeel[refs[n].oid] ELSE RefPeel(n)]
HeadCap == IF Dumb THEN None ELSE head.symref
V0Entry == [n \in 0..NumRefs |-> Ref(n, IdOf[n], PeelFor[n], IF n = 0 THEN HeadCap ELSE None)]

\* What a v2 session is to list.
V2Keys(args) ==
    {n \in Names : refs[n] # None /\ RefMatch(args.prefixes, n)} \cup (IF EmitHead(args) = <<>> THEN {} ELSE {0})
HeadEntry(args) ==
    IF head.unborn \/ head.oid = None THEN Ref(HEAD, None, None, head.symref)
    ELSE Ref(HEAD, head.oid, IF args.peel THEN Peel(head.oid) ELSE None,
             IF args.symrefs THEN head.symref ELSE None)
V2Entry(args) ==
    [n \in 0..NumRefs |->
        IF n = 0 THEN HeadEntry(args)
        ELSE Ref(n, IdOf[n], IF args.peel THEN PeelFor[n] ELSE None, None)]

\* How far the sessions are, and what they have not come to yet.
PhasesInv ==
    /\ looseObjs \subseteq Oids
    /\ dpc \in {"store", "first", "v0", "ask", "v2", "done", "failed"}
    /\ dpc # "store" => opc = "open"
    /\ dpc = "store" => ~Dumb /\ v0refs = <<>> /\ wire = <<>>
    /\ dpc \notin {"v2", "done"} \/ Dumb => v2refs = <<>> /\ request = NoRequest
    /\ Dumb => dpc \in {"first", "v0", "done", "failed"}
    /\ Dumb /\ dpc = "done" => synth = "done"
    /\ ~Dumb => info = <<>> /\ dpc # "failed"
    /\ synth \in {"none", "start", "streaming", "flush", "done"}
    /\ synth \in {"flush", "done"} => info = <<>>

\* What the parser has taken, what is on the wire and what the adapter has still
\* to read make one listing.
ParseInv ==
    dpc \in {"first", "v0"} =>
        /\ wire \in Seq(LineRecs) /\ info \in Seq(LineRecs) /\ v0refs \in Seq(RefRecs)
        /\ Parsing(v0refs, wire \o info, ListedKeys, IdOf, PeelFor)
        /\ \A i \in 1..Len(wire) : Readable(wire[i])
        /\ \A i \in 1..Len(info) : info[i].symref = None

\* The first line carries the capabilities.
FirstInv ==
    /\ dpc = "first" =>
          /\ v0refs = <<>>
          /\ IF synth = "start" THEN wire = <<>>
             ELSE wire # <<>> /\ wire[1].caps /\ wire[1].symref = HeadCap
    /\ dpc \in {"v0", "ask", "v2", "done"} => synth # "start" /\ capSymref = HeadCap

\* A session that failed met a line that no packet can carry.
FailInv ==
    dpc = "failed" =>
        Unfit /\ v0refs \in Seq(RefRecs) /\ Parsed(v0refs, ListedKeys, IdOf, PeelFor)

\* The v0 session knows every ref.
KnownInv ==
    dpc \in {"ask", "v2", "done"} => v0refs \in Seq(RefRecs) /\ Listing(v0refs, ListedKeys, V0Entry)

\* What the v2 session has yielded and what is on the wire are what was asked for.
YieldedInv ==
    dpc = "v2" \/ (dpc = "done" /\ ~Dumb) =>
        /\ request \in RefsRequests
        /\ wire \in Seq(RefRecs) /\ v2refs \in Seq(RefRecs)
        /\ Listing(v2refs \o wire, V2Keys(request), V2Entry(request))
        /\ dpc = "done" => wire = <<>>

SessionsInv == PhasesInv /\ ParseInv /\ FirstInv /\ FailInv /\ KnownInv /\ YieldedInv

\* A ref's peeled id, as the server knows it.
LEMMA RefPeelFacts ==
    ASSUME StoreAtRest, looseObjs \subseteq Oids, opc = "open", NEW n \in Names, refs[n] # None
    PROVE  /\ refs[n].oid \in Oids
           /\ RefPeel(n) \in Oids \cup {None}
           /\ RefPeel(n) # None => RefPeel(n) = TruePeel[refs[n].oid]
<1>1. refs[n] \in RefEntries
  BY DEF StoreAtRest, StoreInv, OpenTypeOK
<1>2. refs[n].oid \in Oids /\ refs[n].peeled \in Oids \cup {None}
  BY <1>1 DEF RefEntries
<1>3. CASE PeelKnown(n)
  <2>1. refs[n].peeled = TruePeel[refs[n].oid]
    BY <1>3 DEF StoreAtRest, StoreInv, PeelsKept
  <2>2. RefPeel(n) = refs[n].peeled
    BY <1>3 DEF RefPeel
  <2> QED
    BY <1>2, <2>1, <2>2
<1>4. CASE ~PeelKnown(n)
  <2>1. RefPeel(n) = PeeledVia(looseObjs, MaxPeelDepth)[refs[n].oid]
    BY <1>4 DEF RefPeel, Peel
  <2>2. PeeledVia(looseObjs, MaxPeelDepth) \in [Oids -> Oids \cup {None}]
    BY MaxPeelDepthAssumption, PeeledViaType
  <2>3. RefPeel(n) # None => RefPeel(n) = TruePeel[refs[n].oid]
    <3> SUFFICES ASSUME RefPeel(n) # None PROVE RefPeel(n) = TruePeel[refs[n].oid]
      OBVIOUS
    <3>1. PICK o \in Oids : o = refs[n].oid
      BY <1>2
    <3>2. PeeledVia(looseObjs, MaxPeelDepth)[o] # None
      BY <2>1, <3>1
    <3>3. PeeledVia(looseObjs, MaxPeelDepth)[o] = TruePeel[o]
      BY <3>2, MaxPeelDepthAssumption, PeelSound
    <3> QED
      BY <2>1, <3>1, <3>3
  <2> QED
    BY <1>2, <2>1, <2>2, <2>3
<1> QED
  BY <1>2, <1>3, <1>4

\* What is listed, as types, and that it is true.
LEMMA ListedFacts ==
    ASSUME StoreAtRest, looseObjs \subseteq Oids, opc = "open"
    PROVE  /\ ListedKeys \subseteq 0..NumRefs
           /\ \A n \in Names : n \in ListedKeys <=> refs[n] # None
           /\ \A n \in Names : n \in ListedKeys =>
                 /\ IdOf[n] = refs[n].oid /\ IdOf[n] \in Oids
                 /\ PeelFor[n] = IF Dumb THEN TruePeel[refs[n].oid] ELSE RefPeel(n)
                 /\ PeelFor[n] \in Oids \cup {None}
                 /\ PeelFor[n] # None => PeelFor[n] = TruePeel[IdOf[n]]
           /\ 0 \in ListedKeys <=> ~Dumb /\ HeadValid
           /\ IdOf[0] = head.oid /\ PeelFor[0] = None
           /\ head.oid \in Oids \cup {None} /\ head.symref \in Names \cup {None}
           /\ HeadCap \in Names \cup {None}
<1>1. Names \subseteq 0..NumRefs /\ 0 \notin Names /\ 0 \in 0..NumRefs
  BY NumRefsAssumption DEF Names
<1>2. head \in Heads
  BY DEF StoreAtRest, HeadOK
<1>3. head.oid \in Oids \cup {None} /\ head.symref \in Names \cup {None}
  BY <1>2 DEF Heads
<1>4. ListedKeys \subseteq 0..NumRefs /\ (0 \in ListedKeys <=> ~Dumb /\ HeadValid)
  BY <1>1 DEF ListedKeys
<1>5. \A n \in Names : n \in ListedKeys <=> refs[n] # None
  BY <1>1 DEF ListedKeys
<1>6. IdOf[0] = head.oid /\ PeelFor[0] = None
  BY <1>1 DEF IdOf, PeelFor
<1>7. ASSUME NEW n \in Names, n \in ListedKeys
      PROVE  /\ IdOf[n] = refs[n].oid /\ IdOf[n] \in Oids
             /\ PeelFor[n] = IF Dumb THEN TruePeel[refs[n].oid] ELSE RefPeel(n)
             /\ PeelFor[n] \in Oids \cup {None}
             /\ PeelFor[n] # None => PeelFor[n] = TruePeel[IdOf[n]]
  <2>1. refs[n] # None /\ n \in 0..NumRefs /\ n # 0
    BY <1>1, <1>5, <1>7
  <2>2. /\ refs[n].oid \in Oids /\ RefPeel(n) \in Oids \cup {None}
        /\ RefPeel(n) # None => RefPeel(n) = TruePeel[refs[n].oid]
    BY <2>1, RefPeelFacts
  <2>3. TruePeel[refs[n].oid] \in Oids \cup {None}
    BY <2>2, PeelOfType
  <2>4. IdOf[n] = refs[n].oid
    BY <2>1 DEF IdOf
  <2>5. PeelFor[n] = IF Dumb THEN TruePeel[refs[n].oid] ELSE RefPeel(n)
    BY <2>1 DEF PeelFor
  <2> QED
    BY <2>2, <2>3, <2>4, <2>5
<1>8. HeadCap \in Names \cup {None}
  BY <1>3 DEF HeadCap
<1> QED
  BY <1>3, <1>4, <1>5, <1>6, <1>7, <1>8

\* It stays what it is as long as the store and the sort of session do.
LEMMA ViewSame ==
    ASSUME UNCHANGED storeVars, UNCHANGED looseObjs, Dumb' = Dumb
    PROVE  /\ ListedKeys' = ListedKeys /\ IdOf' = IdOf /\ PeelFor' = PeelFor
           /\ HeadCap' = HeadCap /\ V0Entry' = V0Entry
           /\ opc' = opc /\ refs' = refs /\ head' = head
<1>1. opc' = opc /\ refs' = refs /\ head' = head /\ traits' = traits
  BY DEF storeVars, openVars
<1>2. ListedKeys' = ListedKeys
  BY <1>1 DEF ListedKeys, HeadValid
<1>3. IdOf' = IdOf
  BY <1>1 DEF IdOf
<1>4. \A n \in Names : RefPeel(n)' = RefPeel(n)
  BY <1>1 DEF RefPeel, PeelKnown, Peel
<1>5. PeelFor' = PeelFor
  <2>1. \A n \in 0..NumRefs : n = 0 \/ n \in Names
    BY NumRefsAssumption DEF Names
  <2> QED
    BY <1>1, <1>4, <2>1 DEF PeelFor
<1>6. HeadCap' = HeadCap
  BY <1>1 DEF HeadCap
<1>7. V0Entry' = V0Entry
  BY <1>3, <1>5, <1>6 DEF V0Entry
<1> QED
  BY <1>1, <1>2, <1>3, <1>5, <1>6, <1>7

\* The same of what a v2 session lists.
LEMMA ViewSameV2 ==
    ASSUME UNCHANGED storeVars, UNCHANGED looseObjs, Dumb' = Dumb, NEW args
    PROVE  V2Keys(args)' = V2Keys(args) /\ V2Entry(args)' = V2Entry(args)
<1>1. /\ IdOf' = IdOf /\ PeelFor' = PeelFor /\ refs' = refs /\ head' = head
  BY ViewSame
<1>2. EmitHead(args)' = EmitHead(args)
  BY <1>1 DEF EmitHead, Peel
<1>3. HeadEntry(args)' = HeadEntry(args)
  BY <1>1 DEF HeadEntry, Peel
<1> QED
  BY <1>1, <1>2, <1>3 DEF V2Keys, V2Entry

(***************************************************************************)
(* The two advertisements: the server's, and the info/refs file.           *)
(***************************************************************************)
\* A ref's line, with the line of what it peels to behind it.
LEMMA OneRefMade ==
    ASSUME NEW n \in 0..NumRefs, NEW ids, NEW peels, NEW o, NEW p, o = ids[n], p = peels[n],
           o \in Oids \cup {None}, p \in Oids \cup {None}
    PROVE  OneRef(<< Line("ref", n, o) >> \o (IF p = None THEN <<>> ELSE << Line("peeled", n, p) >>),
                  n, ids, peels)
<1>1. PICK a \in NewLines : a = Line("ref", n, o) /\ a.kind = "ref" /\ a.name = n /\ a.oid = o
  <2>1. Line("ref", n, o) \in NewLines
    BY DEF Line, NewLines, LineRecs, LineKinds
  <2> QED
    BY <2>1 DEF Line
<1>2. PICK b \in NewLines : b = Line("peeled", n, p) /\ b.kind = "peeled" /\ b.name = n /\ b.oid = p
  <2>1. Line("peeled", n, p) \in NewLines
    BY DEF Line, NewLines, LineRecs, LineKinds
  <2> QED
    BY <2>1 DEF Line
<1>3. CASE p = None
  <2>1. << a >> \o <<>> \in Seq(NewLines) /\ (<< a >> \o <<>>)[1] = a /\ Len(<< a >> \o <<>>) = 1
    OBVIOUS
  <2> QED
    BY <1>1, <1>3, <2>1 DEF OneRef
<1>4. CASE p # None
  <2>1. /\ << a >> \o << b >> \in Seq(NewLines) /\ (<< a >> \o << b >>)[1] = a
        /\ (<< a >> \o << b >>)[2] = b /\ Len(<< a >> \o << b >>) = 2
    OBVIOUS
  <2> QED
    BY <1>1, <1>2, <1>4, <2>1 DEF OneRef
<1> QED
  BY <1>3, <1>4

\* Only its line, when it peels to nothing.
LEMMA OneRefAlone ==
    ASSUME NEW n \in 0..NumRefs, NEW ids, NEW peels, NEW o, o = ids[n], peels[n] = None,
           o \in Oids \cup {None}
    PROVE  OneRef(<< Line("ref", n, o) >>, n, ids, peels)
<1>1. PICK a \in NewLines : a = Line("ref", n, o) /\ a.kind = "ref" /\ a.name = n /\ a.oid = o
  <2>1. Line("ref", n, o) \in NewLines
    BY DEF Line, NewLines, LineRecs, LineKinds
  <2> QED
    BY <2>1 DEF Line
<1>2. << a >> \in Seq(NewLines) /\ << a >>[1] = a /\ Len(<< a >>) = 1
  OBVIOUS
<1> QED
  BY <1>1, <1>2 DEF OneRef

\* t is the stream s with its first line marked.
Marked(t, s, m) == t = [s EXCEPT ![1].caps = TRUE, ![1].symref = m]

\* It can be parsed as well.
LEMMA FirstMarked ==
    ASSUME NEW s \in Seq(NewLines), s # <<>>, NEW m \in Names \cup {None},
           NEW keys, NEW ids, NEW peels, Parsing(<<>>, s, keys, ids, peels), NEW t, Marked(t, s, m)
    PROVE  /\ t \in Seq(LineRecs) /\ t # <<>> /\ t[1].caps /\ t[1].symref = m
           /\ Parsing(<<>>, t, keys, ids, peels)
           /\ \A i \in 1..Len(t) : t[i].size = 1
<1>1. Len(s) \in Nat /\ 1 \in 1..Len(s) /\ s[1] \in NewLines /\ \A i \in 1..Len(s) : s[i] \in NewLines
  OBVIOUS
<1>2. NewLines \subseteq LineRecs /\ \A l \in NewLines : l.size = 1
  BY DEF NewLines
<1>3. PICK a : a = [s[1] EXCEPT !.caps = TRUE, !.symref = m]
  OBVIOUS
<1>4. /\ a \in LineRecs /\ a.caps /\ a.symref = m /\ a.size = 1
      /\ a.kind = s[1].kind /\ a.name = s[1].name /\ a.oid = s[1].oid
  BY <1>1, <1>2, <1>3 DEF LineRecs
<1>5. t = [s EXCEPT ![1] = a]
  BY <1>3 DEF Marked
<1>7. /\ t \in Seq(LineRecs) /\ Len(t) = Len(s) /\ t # <<>> /\ t[1] = a
      /\ \A i \in 1..Len(s) : i # 1 => t[i] = s[i]
  <2>1. s \in Seq(LineRecs)
    BY <1>2
  <2> QED
    BY <1>1, <1>4, <1>5, <2>1
<1>8. \A i \in 1..Len(s) : t[i].kind = s[i].kind /\ t[i].name = s[i].name /\ t[i].oid = s[i].oid /\ t[i].size = 1
  BY <1>1, <1>2, <1>4, <1>7
<1>9. Parsing(<<>>, t, keys, ids, peels)
  BY <1>7, <1>8, SameStream
<1> QED
  BY <1>4, <1>7, <1>8, <1>9

\* What the server writes: every ref that is listed, the first line marked.
LEMMA V0Advertised ==
    ASSUME StoreAtRest, looseObjs \subseteq Oids, opc = "open", ~Dumb
    PROVE  /\ V0Advertisement \in Seq(LineRecs) /\ V0Advertisement # <<>>
           /\ V0Advertisement[1].caps /\ V0Advertisement[1].symref = HeadCap
           /\ Parsing(<<>>, V0Advertisement, ListedKeys, IdOf, PeelFor)
           /\ \A i \in 1..Len(V0Advertisement) : V0Advertisement[i].size = 1
<1>1. /\ ListedKeys \in SUBSET (0..NumRefs)
      /\ \A n \in Names : n \in ListedKeys <=> refs[n] # None
      /\ \A n \in Names : n \in ListedKeys =>
            /\ IdOf[n] = refs[n].oid /\ IdOf[n] \in Oids
            /\ PeelFor[n] = RefPeel(n) /\ PeelFor[n] \in Oids \cup {None}
      /\ 0 \in ListedKeys <=> HeadValid
      /\ IdOf[0] = head.oid /\ PeelFor[0] = None
      /\ head.oid \in Oids \cup {None} /\ head.symref \in Names \cup {None}
  BY ListedFacts
<1>2. 0 \in 0..NumRefs /\ Names \subseteq 0..NumRefs
  BY NumRefsAssumption DEF Names
<1>3. PICK lines : lines = [n \in Names |-> IF refs[n] = None THEN <<>> ELSE V0RefLines(n)]
  OBVIOUS
<1>4. PICK ahead : ahead = IF HeadValid THEN << Line("ref", HEAD, head.oid) >> ELSE <<>>
  OBVIOUS
<1>5. ASSUME NEW n \in Names
      PROVE  IF n \in ListedKeys THEN OneRef(lines[n], n, IdOf, PeelFor) ELSE lines[n] = <<>>
  <2>1. CASE n \in ListedKeys
    <3>1. PICK x : x = << Line("ref", n, IdOf[n]) >>
                         \o (IF PeelFor[n] = None THEN <<>> ELSE << Line("peeled", n, PeelFor[n]) >>)
      OBVIOUS
    <3>2. OneRef(x, n, IdOf, PeelFor)
      <4>1. n \in 0..NumRefs /\ IdOf[n] \in Oids \cup {None} /\ PeelFor[n] \in Oids \cup {None}
        BY <1>1, <1>2, <2>1
      <4> QED
        BY <3>1, <4>1, OneRefMade
    <3>3. lines[n] = x
      BY <1>1, <1>3, <2>1, <3>1 DEF V0RefLines
    <3> QED
      BY <2>1, <3>2, <3>3
  <2>2. CASE n \notin ListedKeys
    BY <1>1, <1>3, <2>2
  <2> QED
    BY <2>1, <2>2
<1>6. IF 0 \in ListedKeys THEN OneRef(ahead, 0, IdOf, PeelFor) ELSE ahead = <<>>
  <2>1. OneRef(<< Line("ref", 0, head.oid) >>, 0, IdOf, PeelFor)
    BY <1>1, <1>2, OneRefAlone
  <2> QED
    BY <1>1, <1>4, <2>1 DEF HEAD
<1>7. PICK all : all = InOrder(ahead, lines)
  OBVIOUS
<1>8. all \in Seq(NewLines) /\ Parsing(<<>>, all, ListedKeys, IdOf, PeelFor)
  BY <1>1, <1>5, <1>6, <1>7, StreamBuilt
<1>9. PICK s : s = V0Lines
  OBVIOUS
<1>10. s = IF all = <<>> THEN << Placeholder >> ELSE all
  BY <1>3, <1>4, <1>7, <1>9 DEF V0Lines
<1>11. s \in Seq(NewLines) /\ s # <<>> /\ Parsing(<<>>, s, ListedKeys, IdOf, PeelFor)
  <2>1. CASE all # <<>>
    BY <1>8, <1>10, <2>1
  <2>2. CASE all = <<>>
    <3>1. PICK p \in NewLines : p = Placeholder /\ p.kind = "placeholder"
      <4>1. Placeholder \in NewLines
        BY <1>2 DEF Placeholder, Line, NewLines, LineRecs, LineKinds, HEAD
      <4> QED
        BY <4>1 DEF Placeholder, Line
    <3>2. Parsing(<<>>, Append(all, p), ListedKeys, IdOf, PeelFor)
      BY <1>8, <3>1, OtherBehind
    <3>3. s = Append(all, p) /\ s \in Seq(NewLines) /\ s # <<>>
      BY <1>10, <2>2, <3>1
    <3> QED
      BY <3>2, <3>3
  <2> QED
    BY <2>1, <2>2
<1>12. PICK m \in Names \cup {None} : m = head.symref /\ m = HeadCap
  BY <1>1 DEF HeadCap
<1>13. PICK a : a = [s EXCEPT ![1].caps = TRUE, ![1].symref = m]
  OBVIOUS
<1>14. /\ a \in Seq(LineRecs) /\ a # <<>> /\ a[1].caps /\ a[1].symref = m
       /\ Parsing(<<>>, a, ListedKeys, IdOf, PeelFor)
       /\ \A i \in 1..Len(a) : a[i].size = 1
  <2>1. Marked(a, s, m)
    BY <1>13 DEF Marked
  <2> QED
    BY <1>11, <1>12, <2>1, FirstMarked
<1>15. V0Advertisement = a
  BY <1>9, <1>12, <1>13 DEF V0Advertisement
<1> QED
  BY <1>12, <1>14, <1>15

\* What info/refs is to list.
DumbKeys == {n \in Names : refs[n] # None}
DumbPeels ==
    [n \in 0..NumRefs |-> IF n = 0 THEN None ELSE IF refs[n] = None THEN None ELSE TruePeel[refs[n].oid]]

\* It is what a session with a dumb server is to list.
LEMMA DumbView ==
    ASSUME UNCHANGED storeVars, Dumb'
    PROVE  ListedKeys' = DumbKeys /\ IdOf' = IdOf /\ PeelFor' = DumbPeels /\ HeadCap' = None
<1>1. opc' = opc /\ refs' = refs /\ head' = head
  BY DEF storeVars, openVars
<1>2. ListedKeys' = DumbKeys
  BY <1>1 DEF ListedKeys, DumbKeys
<1>3. IdOf' = IdOf
  BY <1>1 DEF IdOf
<1>4. PeelFor' = DumbPeels
  BY <1>1 DEF PeelFor, DumbPeels
<1>5. HeadCap' = None
  BY DEF HeadCap
<1> QED
  BY <1>2, <1>3, <1>4, <1>5

\* The file lists it.
LEMMA InfoRefsListed ==
    ASSUME StoreAtRest, opc = "open"
    PROVE  InfoRefs \in Seq(NewLines) /\ Parsing(<<>>, InfoRefs, DumbKeys, IdOf, DumbPeels)
<1>1. Names \subseteq 0..NumRefs /\ 0 \notin Names
  BY NumRefsAssumption DEF Names
<1>2. DumbKeys \in SUBSET (0..NumRefs) /\ 0 \notin DumbKeys
  BY <1>1 DEF DumbKeys
<1>3. PICK lines : lines = [n \in Names |->
          IF refs[n] = None THEN <<>>
          ELSE << Line("ref", n, refs[n].oid) >>
                 \o (IF TruePeel[refs[n].oid] = None THEN <<>>
                     ELSE << Line("peeled", n, TruePeel[refs[n].oid]) >>)]
  OBVIOUS
<1>4. ASSUME NEW n \in Names
      PROVE  IF n \in DumbKeys THEN OneRef(lines[n], n, IdOf, DumbPeels) ELSE lines[n] = <<>>
  <2>1. CASE n \in DumbKeys
    <3>1. refs[n] # None /\ n \in 0..NumRefs /\ n # 0
      BY <1>1, <2>1 DEF DumbKeys
    <3>2. refs[n].oid \in Oids
      BY <3>1 DEF StoreAtRest, StoreInv, OpenTypeOK, RefEntries
    <3>3. TruePeel[refs[n].oid] \in Oids \cup {None}
      BY <3>2, PeelOfType
    <3>4. IdOf[n] = refs[n].oid /\ DumbPeels[n] = TruePeel[refs[n].oid]
      BY <3>1 DEF IdOf, DumbPeels
    <3>5. OneRef(lines[n], n, IdOf, DumbPeels)
      <4>1. PICK o, p : o = refs[n].oid /\ p = TruePeel[refs[n].oid]
        OBVIOUS
      <4>2. lines[n] = << Line("ref", n, o) >> \o (IF p = None THEN <<>> ELSE << Line("peeled", n, p) >>)
        BY <1>3, <3>1, <4>1
      <4>3. o = IdOf[n] /\ p = DumbPeels[n] /\ o \in Oids \cup {None} /\ p \in Oids \cup {None}
        BY <3>2, <3>3, <3>4, <4>1
      <4> QED
        BY <3>1, <4>2, <4>3, OneRefMade
    <3> QED
      BY <2>1, <3>5
  <2>2. CASE n \notin DumbKeys
    BY <1>3, <2>2 DEF DumbKeys
  <2> QED
    BY <2>1, <2>2
<1>5. InfoRefs = InOrder(<<>>, lines)
  BY <1>3 DEF InfoRefs
<1>6. IF 0 \in DumbKeys THEN OneRef(<<>>, 0, IdOf, DumbPeels) ELSE <<>> = <<>>
  BY <1>2
<1> QED
  BY <1>2, <1>4, <1>5, <1>6, StreamBuilt

\* So does the file with something else in it.
LEMMA InfoRefsFilesListed ==
    ASSUME StoreAtRest, opc = "open", NEW f \in InfoRefsFiles
    PROVE  /\ f \in Seq(LineRecs) /\ Parsing(<<>>, f, DumbKeys, IdOf, DumbPeels)
           /\ \A i \in 1..Len(f) : f[i].symref = None
<1>1. PICK s \in Seq(NewLines) : s = InfoRefs /\ Parsing(<<>>, s, DumbKeys, IdOf, DumbPeels)
  BY InfoRefsListed
<1>2. NewLines \subseteq LineRecs /\ \A l \in NewLines : l.symref = None
  BY DEF NewLines
<1>3. ASSUME NEW g \in Seq(NewLines) PROVE g \in Seq(LineRecs) /\ \A i \in 1..Len(g) : g[i].symref = None
  BY <1>2, <1>3
<1>4. PICK c \in NewLines : c = Line("comment", HEAD, None) /\ c.kind = "comment"
  <2>1. 0 \in 0..NumRefs
    BY NumRefsAssumption
  <2>2. Line("comment", HEAD, None) \in NewLines
    BY <2>1 DEF Line, NewLines, LineRecs, LineKinds, HEAD
  <2> QED
    BY <2>2 DEF Line
<1>5. PICK d \in NewLines : d = Line("malformed", HEAD, None) /\ d.kind = "malformed"
  <2>1. 0 \in 0..NumRefs
    BY NumRefsAssumption
  <2>2. Line("malformed", HEAD, None) \in NewLines
    BY <2>1 DEF Line, NewLines, LineRecs, LineKinds, HEAD
  <2> QED
    BY <2>2 DEF Line
<1>6. CASE f = s
  BY <1>1, <1>3, <1>6
<1>7. CASE f = << c >> \o s
  <2>1. Parsing(<<>>, << c >> \o s, DumbKeys, IdOf, DumbPeels)
    BY <1>1, <1>4, OtherAhead
  <2>2. << c >> \o s \in Seq(NewLines)
    OBVIOUS
  <2> QED
    BY <1>3, <1>7, <2>1, <2>2
<1>8. CASE f = Append(s, d)
  <2>1. Parsing(<<>>, Append(s, d), DumbKeys, IdOf, DumbPeels)
    BY <1>1, <1>5, OtherBehind
  <2>2. Append(s, d) \in Seq(NewLines)
    OBVIOUS
  <2> QED
    BY <1>3, <1>8, <2>1, <2>2
<1>9. ASSUME NEW i \in {1, Len(s)} \cap DOMAIN s, NEW n \in MaxPayload - 2 .. MaxPayload + 1,
             f = [s EXCEPT ![i].size = n]
      PROVE  /\ f \in Seq(LineRecs) /\ Parsing(<<>>, f, DumbKeys, IdOf, DumbPeels)
             /\ \A j \in 1..Len(f) : f[j].symref = None
  <2>1. i \in 1..Len(s) /\ n \in Nat
    BY MaxPayloadAssumption
  <2>2. s[i] \in LineRecs /\ s[i].symref = None
    BY <1>2, <2>1
  <2>3. PICK a : a = [s[i] EXCEPT !.size = n]
    OBVIOUS
  <2>4. /\ a \in LineRecs /\ a.symref = None
        /\ a.kind = s[i].kind /\ a.name = s[i].name /\ a.oid = s[i].oid
    BY <2>1, <2>2, <2>3 DEF LineRecs
  <2>5. s \in Seq(LineRecs) /\ \A j \in 1..Len(s) : s[j].symref = None
    BY <1>3
  <2>6. f = [s EXCEPT ![i] = a]
    BY <1>9, <2>3
  <2>7. /\ f \in Seq(LineRecs) /\ Len(f) = Len(s) /\ f[i] = a
        /\ \A j \in 1..Len(s) : j # i => f[j] = s[j]
    BY <2>1, <2>4, <2>5, <2>6
  <2>8. \A j \in 1..Len(s) : f[j].kind = s[j].kind /\ f[j].name = s[j].name /\ f[j].oid = s[j].oid
                               /\ f[j].symref = None
    BY <2>4, <2>5, <2>7
  <2>9. Parsing(<<>>, f, DumbKeys, IdOf, DumbPeels)
    BY <1>1, <2>7, <2>8, SameStream
  <2> QED
    BY <2>7, <2>8, <2>9
<1> QED
  BY <1>1, <1>4, <1>5, <1>6, <1>7, <1>8, <1>9 DEF InfoRefsFiles

(***************************************************************************)
(* Every step keeps the invariant.                                         *)
(***************************************************************************)
\* Taking the first line of the wire takes it from the whole stream.
LEMMA RestTail ==
    ASSUME NEW S, NEW w \in Seq(S), NEW i \in Seq(S), w # <<>>
    PROVE  /\ w \o i \in Seq(S) /\ w \o i # <<>> /\ (w \o i)[1] = w[1]
           /\ Tail(w \o i) = Tail(w) \o i
<1>1. Len(w) \in Nat /\ Len(w) >= 1 /\ Len(i) \in Nat
  OBVIOUS
<1>2. w \o i \in Seq(S) /\ w \o i # <<>> /\ (w \o i)[1] = w[1] /\ Len(w \o i) = Len(w) + Len(i)
  BY <1>1
<1>3. /\ Tail(w) \in Seq(S) /\ Len(Tail(w)) = Len(w) - 1
      /\ Tail(w \o i) \in Seq(S) /\ Len(Tail(w \o i)) = Len(w) + Len(i) - 1
  BY <1>1, <1>2, TailFacts
<1>4. Len(Tail(w) \o i) = Len(w) + Len(i) - 1 /\ Tail(w) \o i \in Seq(S)
  BY <1>1, <1>3
<1>5. ASSUME NEW j \in 1..(Len(w) + Len(i) - 1) PROVE Tail(w \o i)[j] = (Tail(w) \o i)[j]
  <2>1. Tail(w \o i)[j] = (w \o i)[j + 1]
    BY <1>2, <1>3, TailFacts
  <2>2. CASE j + 1 <= Len(w)
    <3>1. (w \o i)[j + 1] = w[j + 1] /\ j \in 1..Len(Tail(w))
      BY <1>1, <1>3, <2>2
    <3>2. Tail(w)[j] = w[j + 1]
      BY <3>1, TailFacts
    <3>3. (Tail(w) \o i)[j] = Tail(w)[j]
      BY <1>3, <3>1
    <3> QED
      BY <2>1, <3>1, <3>2, <3>3
  <2>3. CASE ~(j + 1 <= Len(w))
    <3>1. (w \o i)[j + 1] = i[j + 1 - Len(w)]
      BY <1>1, <2>3
    <3>2. (Tail(w) \o i)[j] = i[j - (Len(w) - 1)]
      BY <1>1, <1>3, <2>3
    <3>3. j + 1 - Len(w) = j - (Len(w) - 1)
      BY <1>1
    <3> QED
      BY <2>1, <3>1, <3>2, <3>3
  <2> QED
    BY <2>2, <2>3
<1>6. Tail(w \o i) = Tail(w) \o i
  <2>1. PICK a \in Seq(S) : a = Tail(w \o i)
    BY <1>3
  <2>2. PICK b \in Seq(S) : b = Tail(w) \o i
    BY <1>4
  <2>3. Len(a) = Len(b) /\ \A j \in 1..Len(a) : a[j] = b[j]
    BY <1>3, <1>4, <1>5, <2>1, <2>2
  <2>4. a = b
    BY <2>3
  <2> QED
    BY <2>1, <2>2, <2>4
<1> QED
  BY <1>2, <1>6

\* The server's advertisement is on the wire.
LEMMA AdvertiseV0Inv ==
    ASSUME StoreAtRest, SessionsInv, AdvertiseV0
    PROVE  SessionsInv'
<1>0. PhasesInv
  BY DEF SessionsInv
<1>1. /\ dpc = "store" /\ opc = "open" /\ dpc' = "first" /\ wire' = V0Advertisement
      /\ UNCHANGED storeVars /\ UNCHANGED <<looseObjs, info, synth, capSymref, v0refs, request, v2refs>>
  BY DEF AdvertiseV0, dumbVars
<1>2. ~Dumb /\ Dumb' = Dumb /\ v0refs = <<>> /\ info = <<>> /\ looseObjs \subseteq Oids
  BY <1>0, <1>1 DEF PhasesInv, Dumb
<1>3. /\ ListedKeys' = ListedKeys /\ IdOf' = IdOf /\ PeelFor' = PeelFor /\ HeadCap' = HeadCap /\ opc' = opc
  BY <1>1, <1>2, ViewSame
<1>4. PICK w : /\ w = V0Advertisement /\ w \in Seq(LineRecs) /\ w # <<>>
               /\ w[1].caps /\ w[1].symref = HeadCap
               /\ Parsing(<<>>, w, ListedKeys, IdOf, PeelFor)
               /\ \A i \in 1..Len(w) : w[i].size = 1
  BY <1>1, <1>2, V0Advertised
<1>5. PhasesInv'
  BY <1>0, <1>1, <1>2, <1>3 DEF PhasesInv, Dumb
<1>6. ParseInv'
  <2>1. w \o <<>> = w
    BY <1>4
  <2>2. \A i \in 1..Len(w) : Readable(w[i])
    BY <1>4, MaxPayloadAssumption DEF Readable
  <2>3. \A i \in 1..Len(<<>>) : FALSE
    OBVIOUS
  <2>4. <<>> \in Seq(LineRecs) /\ <<>> \in Seq(RefRecs)
    OBVIOUS
  <2>5. wire' \o info' = w
    BY <1>1, <1>2, <1>4, <2>1
  <2>6. Parsing(v0refs, wire \o info, ListedKeys, IdOf, PeelFor)'
    BY <1>1, <1>2, <1>3, <1>4, <2>5
  <2>7. (\A i \in 1..Len(wire) : Readable(wire[i]))'
    BY <1>1, <1>4, <2>2 DEF Readable
  <2>8. (\A i \in 1..Len(info) : info[i].symref = None)'
    BY <1>1, <1>2, <2>3
  <2> QED
    BY <1>1, <1>2, <1>4, <2>4, <2>6, <2>7, <2>8 DEF ParseInv
<1>7. FirstInv'
  BY <1>1, <1>2, <1>3, <1>4 DEF FirstInv, Dumb
<1>8. FailInv' /\ KnownInv' /\ YieldedInv'
  BY <1>1 DEF FailInv, KnownInv, YieldedInv
<1> QED
  BY <1>5, <1>6, <1>7, <1>8 DEF SessionsInv

\* A line is taken from the wire.
LEMMA WireFacts ==
    ASSUME SessionsInv, dpc \in {"first", "v0"}, wire # <<>>
    PROVE  /\ wire[1] \in LineRecs /\ Head(wire) = wire[1] /\ Readable(wire[1])
           /\ wire[1].name \in 0..NumRefs /\ wire[1].oid \in Oids \cup {None}
           /\ wire[1].symref \in Names \cup {None}
           /\ Tail(wire) \in Seq(LineRecs) /\ \A i \in 1..Len(Tail(wire)) : Readable(Tail(wire)[i])
           /\ wire \o info \in Seq(LineRecs) /\ wire \o info # <<>> /\ (wire \o info)[1] = wire[1]
           /\ Tail(wire \o info) = Tail(wire) \o info
<1>1. ParseInv
  BY DEF SessionsInv
<1>2. wire \in Seq(LineRecs) /\ info \in Seq(LineRecs) /\ \A i \in 1..Len(wire) : Readable(wire[i])
  BY <1>1 DEF ParseInv
<1>3. /\ Len(wire) \in Nat /\ Len(wire) >= 1 /\ Head(wire) = wire[1] /\ wire[1] \in LineRecs
      /\ Tail(wire) \in Seq(LineRecs) /\ Len(Tail(wire)) = Len(wire) - 1
      /\ \A j \in 1..Len(Tail(wire)) : Tail(wire)[j] = wire[j + 1]
  BY <1>2, TailFacts
<1>4. \A j \in 1..Len(Tail(wire)) : j + 1 \in 1..Len(wire)
  BY <1>3
<1>5. \A i \in 1..Len(Tail(wire)) : Readable(Tail(wire)[i])
  BY <1>2, <1>3, <1>4
<1>6. 1 \in 1..Len(wire)
  BY <1>3
<1>7. /\ wire \o info \in Seq(LineRecs) /\ wire \o info # <<>> /\ (wire \o info)[1] = wire[1]
      /\ Tail(wire \o info) = Tail(wire) \o info
  BY <1>2, RestTail
<1>8. wire[1].name \in 0..NumRefs /\ wire[1].oid \in Oids \cup {None} /\ wire[1].symref \in Names \cup {None}
  BY <1>3 DEF LineRecs
<1> QED
  BY <1>2, <1>3, <1>5, <1>6, <1>7, <1>8

\* The first line is parsed: it is not refused.
LEMMA ParseFirstInv ==
    ASSUME StoreAtRest, SessionsInv, ParseFirstRefLine
    PROVE  SessionsInv'
<1>0. PhasesInv /\ ParseInv /\ FirstInv
  BY DEF SessionsInv
<1>1. /\ dpc = "first" /\ wire # <<>> /\ wire' = Tail(wire)
      /\ UNCHANGED storeVars /\ UNCHANGED <<looseObjs, info, synth, request, v2refs>>
  BY DEF ParseFirstRefLine, dumbVars
<1>2. v0refs = <<>> /\ synth # "start" /\ wire[1].caps /\ wire[1].symref = HeadCap
  BY <1>0, <1>1 DEF FirstInv
<1>3. /\ ListedKeys' = ListedKeys /\ IdOf' = IdOf /\ PeelFor' = PeelFor /\ HeadCap' = HeadCap /\ opc' = opc
      /\ Dumb' = Dumb
  <2>1. Dumb' = Dumb
    BY <1>1 DEF Dumb
  <2> QED
    BY <1>1, <2>1, ViewSame
<1>4. PICK s \in Seq(LineRecs) : s = wire \o info /\ s # <<>> /\ s[1] = wire[1] /\ Tail(s) = Tail(wire) \o info
  BY <1>1, WireFacts
<1>5. Head(wire) = wire[1] /\ Readable(wire[1]) /\ wire[1].name \in 0..NumRefs /\ wire[1].oid \in Oids \cup {None}
  BY <1>1, WireFacts
<1>6. Parsing(<<>>, s, ListedKeys, IdOf, PeelFor)
  BY <1>0, <1>1, <1>2, <1>4 DEF ParseInv
<1>7. s[1].kind # "peeled"
  BY <1>4, <1>6 DEF Parsing, Joint
<1>8. dpc' = "v0" /\ capSymref' = HeadCap
  BY <1>2, <1>4, <1>5, <1>7 DEF ParseFirstRefLine
<1>9. PICK r : r = Ref(wire[1].name, wire[1].oid, None, None)
  OBVIOUS
<1>10. r \in RefRecs /\ r.name = s[1].name /\ r.hash = s[1].oid /\ r.peeled = None /\ r.symref = None
  BY <1>4, <1>5, <1>9 DEF Ref, RefRecs
<1>11. v0refs' \in Seq(RefRecs) /\ Parsing(v0refs', Tail(s), ListedKeys, IdOf, PeelFor)
  <2>1. CASE s[1].kind = "ref"
    <3>1. PICK e \in Seq(RefRecs) : e = <<>>
      <4>1. <<>> \in Seq(RefRecs)
        OBVIOUS
      <4> QED
        BY <4>1
    <3>2. v0refs' = Append(e, r)
      <4>1. v0refs' = << r >>
        BY <1>4, <1>5, <1>9, <2>1 DEF ParseFirstRefLine
      <4> QED
        BY <3>1, <4>1
    <3>3. Parsing(Append(e, r), Tail(s), ListedKeys, IdOf, PeelFor)
      BY <1>4, <1>6, <1>10, <2>1, <3>1, TakeRef
    <3> QED
      BY <1>10, <3>1, <3>2, <3>3
  <2>2. CASE s[1].kind # "ref"
    <3>1. v0refs' = <<>>
      BY <1>4, <1>5, <2>2 DEF ParseFirstRefLine
    <3>2. Parsing(<<>>, Tail(s), ListedKeys, IdOf, PeelFor)
      BY <1>4, <1>6, <1>7, <2>2, TakeOther
    <3> QED
      BY <3>1, <3>2
  <2> QED
    BY <2>1, <2>2
<1>12. PhasesInv'
  BY <1>0, <1>1, <1>3, <1>8 DEF PhasesInv, Dumb
<1>13. ParseInv'
  <2>1. Tail(wire) \in Seq(LineRecs) /\ \A i \in 1..Len(Tail(wire)) : Readable(Tail(wire)[i])
    BY <1>1, WireFacts
  <2>2. info \in Seq(LineRecs) /\ \A i \in 1..Len(info) : info[i].symref = None
    BY <1>0, <1>1 DEF ParseInv
  <2>3. Parsing(v0refs, wire \o info, ListedKeys, IdOf, PeelFor)'
    BY <1>1, <1>3, <1>4, <1>11
  <2>4. (\A i \in 1..Len(wire) : Readable(wire[i]))'
    BY <1>1, <2>1 DEF Readable
  <2>5. (\A i \in 1..Len(info) : info[i].symref = None)'
    BY <1>1, <2>2
  <2> QED
    BY <1>1, <1>11, <2>1, <2>2, <2>3, <2>4, <2>5 DEF ParseInv
<1>14. FirstInv'
  BY <1>1, <1>2, <1>3, <1>8 DEF FirstInv
<1>15. FailInv' /\ KnownInv' /\ YieldedInv'
  BY <1>8 DEF FailInv, KnownInv, YieldedInv
<1> QED
  BY <1>12, <1>13, <1>14, <1>15 DEF SessionsInv

\* So are the lines behind it.
LEMMA ParseRefInv ==
    ASSUME StoreAtRest, SessionsInv, ParseRefLine
    PROVE  SessionsInv'
<1>0. PhasesInv /\ ParseInv /\ FirstInv
  BY DEF SessionsInv
<1>1. /\ dpc = "v0" /\ wire # <<>> /\ wire' = Tail(wire)
      /\ UNCHANGED storeVars /\ UNCHANGED <<looseObjs, info, synth, capSymref, request, v2refs>>
  BY DEF ParseRefLine, dumbVars
<1>2. synth # "start" /\ capSymref = HeadCap
  BY <1>0, <1>1 DEF FirstInv
<1>3. /\ ListedKeys' = ListedKeys /\ IdOf' = IdOf /\ PeelFor' = PeelFor /\ HeadCap' = HeadCap /\ opc' = opc
      /\ Dumb' = Dumb
  <2>1. Dumb' = Dumb
    BY <1>1 DEF Dumb
  <2> QED
    BY <1>1, <2>1, ViewSame
<1>4. PICK s \in Seq(LineRecs) : s = wire \o info /\ s # <<>> /\ s[1] = wire[1] /\ Tail(s) = Tail(wire) \o info
  BY <1>1, WireFacts
<1>5. Head(wire) = wire[1] /\ Readable(wire[1]) /\ wire[1].name \in 0..NumRefs /\ wire[1].oid \in Oids \cup {None}
  BY <1>1, WireFacts
<1>6. v0refs \in Seq(RefRecs) /\ Parsing(v0refs, s, ListedKeys, IdOf, PeelFor)
  BY <1>0, <1>1, <1>4 DEF ParseInv
<1>7. dpc' = "v0" /\ v0refs' \in Seq(RefRecs) /\ Parsing(v0refs', Tail(s), ListedKeys, IdOf, PeelFor)
  <2>1. CASE s[1].kind = "ref"
    <3>1. PICK r : r = Ref(wire[1].name, wire[1].oid, None, None)
      OBVIOUS
    <3>2. r \in RefRecs /\ r.name = s[1].name /\ r.hash = s[1].oid /\ r.peeled = None /\ r.symref = None
      BY <1>4, <1>5, <3>1 DEF Ref, RefRecs
    <3>3. dpc' = "v0" /\ v0refs' = Append(v0refs, r)
      BY <1>1, <1>4, <1>5, <2>1, <3>1 DEF ParseRefLine
    <3>4. Parsing(Append(v0refs, r), Tail(s), ListedKeys, IdOf, PeelFor)
      BY <1>4, <1>6, <2>1, <3>2, TakeRef
    <3> QED
      BY <1>6, <3>2, <3>3, <3>4
  <2>2. CASE s[1].kind = "peeled"
    <3>1. PICK u : u = [v0refs EXCEPT ![Len(v0refs)].peeled = s[1].oid]
      OBVIOUS
    <3>2. /\ v0refs # <<>> /\ v0refs[Len(v0refs)].name = s[1].name /\ v0refs[Len(v0refs)].peeled = None
          /\ u \in Seq(RefRecs) /\ Parsing(u, Tail(s), ListedKeys, IdOf, PeelFor)
      <4>1. s[1].oid \in Oids \cup {None}
        BY <1>4, <1>5
      <4> QED
        BY <1>4, <1>6, <2>2, <3>1, <4>1, TakePeeled
    <3>3. ~Stray(Head(wire))
      BY <1>4, <1>5, <3>2 DEF Stray
    <3>4. dpc' = "v0" /\ v0refs' = u
      BY <1>1, <1>4, <1>5, <2>2, <3>1, <3>3 DEF ParseRefLine
    <3> QED
      BY <3>2, <3>4
  <2> QED
    BY <1>4, <1>5, <2>1, <2>2 DEF ParseRefLine
<1>12. PhasesInv'
  BY <1>0, <1>1, <1>3, <1>7 DEF PhasesInv, Dumb
<1>13. ParseInv'
  <2>1. Tail(wire) \in Seq(LineRecs) /\ \A i \in 1..Len(Tail(wire)) : Readable(Tail(wire)[i])
    BY <1>1, WireFacts
  <2>2. info \in Seq(LineRecs) /\ \A i \in 1..Len(info) : info[i].symref = None
    BY <1>0, <1>1 DEF ParseInv
  <2>3. Parsing(v0refs, wire \o info, ListedKeys, IdOf, PeelFor)'
    BY <1>1, <1>3, <1>4, <1>7
  <2>4. (\A i \in 1..Len(wire) : Readable(wire[i]))'
    BY <1>1, <2>1 DEF Readable
  <2>5. (\A i \in 1..Len(info) : info[i].symref = None)'
    BY <1>1, <2>2
  <2> QED
    BY <1>1, <1>7, <2>1, <2>2, <2>3, <2>4, <2>5 DEF ParseInv
<1>14. FirstInv'
  BY <1>1, <1>2, <1>3, <1>7 DEF FirstInv
<1>15. FailInv' /\ KnownInv' /\ YieldedInv'
  BY <1>7 DEF FailInv, KnownInv, YieldedInv
<1> QED
  BY <1>12, <1>13, <1>14, <1>15 DEF SessionsInv

\* A session that has parsed everything lists everything.
LEMMA AllParsed ==
    ASSUME StoreAtRest, looseObjs \subseteq Oids, opc = "open",
           NEW list \in Seq(RefRecs), Parsing(list, <<>>, ListedKeys, IdOf, PeelFor),
           NEW u, u = [i \in DOMAIN list |->
                         [list[i] EXCEPT !.symref = IF list[i].name = HEAD THEN HeadCap ELSE None]]
    PROVE  u \in Seq(RefRecs) /\ Listing(u, ListedKeys, V0Entry)
<1>0. Parsed(list, ListedKeys, IdOf, PeelFor) /\ Covers(list, <<>>, ListedKeys, PeelFor)
  BY DEF Parsing
<1>1. ListedKeys \subseteq 0..NumRefs /\ HeadCap \in Names \cup {None}
  BY ListedFacts
<1>2. \A i \in 1..Len(list) : list[i] \in RefRecs
  OBVIOUS
<1>3. DOMAIN list = 1..Len(list) /\ Len(list) \in Nat
  OBVIOUS
<1>4. ASSUME NEW i \in 1..Len(list)
      PROVE  /\ u[i] \in RefRecs /\ u[i].name = list[i].name /\ u[i].hash = list[i].hash
             /\ u[i].peeled = list[i].peeled /\ u[i].symref = IF list[i].name = 0 THEN HeadCap ELSE None
  <2>1. PICK a \in RefRecs : a = list[i]
    BY <1>2
  <2>2. PICK h \in Names \cup {None} : h = IF a.name = 0 THEN HeadCap ELSE None
    BY <1>1
  <2>3. u[i] = [a EXCEPT !.symref = h]
    BY <1>3, <2>1, <2>2 DEF HEAD
  <2>4. [a EXCEPT !.symref = h] \in RefRecs
    BY DEF RefRecs
  <2>5. /\ u[i].name = a.name /\ u[i].hash = a.hash
        /\ u[i].peeled = a.peeled /\ u[i].symref = h
    BY <2>3 DEF RefRecs
  <2> QED
    BY <2>1, <2>2, <2>3, <2>4, <2>5
<1>5. u \in Seq(RefRecs) /\ Len(u) = Len(list)
  <2>1. u \in [1..Len(list) -> RefRecs]
    <3>1. u = [i \in 1..Len(list) |->
                         [list[i] EXCEPT !.symref = IF list[i].name = HEAD THEN HeadCap ELSE None]]
      BY <1>3
    <3> QED
      BY <1>4, <3>1
  <2> QED
    BY <1>3, <2>1
<1>6. \A i, j \in 1..Len(list) : i < j => list[i].name < list[j].name
  BY <1>0 DEF Parsed
<1>7. \A i \in 1..Len(<<>>) : FALSE
  OBVIOUS
<1>8. ASSUME NEW i \in 1..Len(list) PROVE u[i].peeled = PeelFor[u[i].name]
  <2>1. list[i].name \in ListedKeys /\ list[i].peeled \in {None, PeelFor[list[i].name]}
    BY <1>0 DEF Parsed
  <2>2. CASE PeelFor[list[i].name] # None
    <3>1. PICK j \in 1..Len(list) : list[j].name = list[i].name /\ list[j].peeled # None
      BY <1>0, <1>7, <2>1, <2>2 DEF Covers
    <3>2. i = j
      <4>1. list[i].name \in Nat
        BY <1>1, <2>1, NumRefsAssumption
      <4> QED
        BY <1>3, <1>6, <3>1, <4>1
    <3> QED
      BY <1>4, <2>1, <3>1, <3>2
  <2> QED
    BY <1>4, <2>1, <2>2
<1>9. ASSUME NEW i \in 1..Len(u) PROVE u[i].name \in ListedKeys /\ u[i] = V0Entry[u[i].name]
  <2>0. i \in 1..Len(list)
    BY <1>5
  <2>1. list[i].name \in ListedKeys /\ list[i].hash = IdOf[list[i].name]
    BY <1>0, <2>0 DEF Parsed
  <2>2. PICK n \in 0..NumRefs : n = u[i].name
    BY <1>1, <1>4, <2>0, <2>1
  <2>3. V0Entry[n] = Ref(n, IdOf[n], PeelFor[n], IF n = 0 THEN HeadCap ELSE None)
    BY DEF V0Entry
  <2>4. PICK a \in RefRecs : a = u[i]
    BY <1>4, <2>0
  <2>5. a = [name |-> a.name, hash |-> a.hash, peeled |-> a.peeled, symref |-> a.symref]
    BY DEF RefRecs
  <2>6. a.name = n /\ a.hash = IdOf[n] /\ a.peeled = PeelFor[n] /\ a.symref = IF n = 0 THEN HeadCap ELSE None
    <3>1. list[i].name = n
      BY <1>4, <2>0, <2>2
    <3>2. a.name = n /\ a.hash = IdOf[n]
      BY <1>4, <2>0, <2>1, <2>2, <2>4, <3>1
    <3>3. a.peeled = PeelFor[n]
      BY <1>8, <2>0, <2>2, <2>4
    <3>4. a.symref = IF n = 0 THEN HeadCap ELSE None
      BY <1>4, <2>0, <2>4, <3>1
    <3> QED
      BY <3>2, <3>3, <3>4
  <2>7. a = V0Entry[n]
    BY <2>3, <2>5, <2>6 DEF Ref
  <2> QED
    BY <1>4, <2>0, <2>1, <2>2, <2>4, <2>7
<1>10. \A i, j \in 1..Len(u) : i < j => u[i].name < u[j].name
  BY <1>4, <1>5, <1>6
<1>11. ASSUME NEW n \in ListedKeys PROVE \E i \in 1..Len(u) : u[i].name = n
  <2>1. PICK i \in 1..Len(list) : list[i].name = n
    BY <1>0, <1>7 DEF Covers
  <2> QED
    BY <1>4, <1>5, <2>1
<1> QED
  BY <1>5, <1>9, <1>10, <1>11 DEF Listing

\* The flush ends the v0 session.
LEMMA EndV0Inv ==
    ASSUME StoreAtRest, SessionsInv, EndV0
    PROVE  SessionsInv'
<1>0. PhasesInv /\ ParseInv /\ FirstInv
  BY DEF SessionsInv
<1>1. /\ dpc = "v0" /\ wire = <<>> /\ synth \in {"none", "done"} /\ v0refs' = ApplySymrefs
      /\ dpc' = IF synth = "none" THEN "ask" ELSE "done"
      /\ UNCHANGED storeVars /\ UNCHANGED <<looseObjs, info, synth, wire, capSymref, request, v2refs>>
  BY DEF EndV0, dumbVars
<1>2. synth # "start" /\ capSymref = HeadCap
  BY <1>0, <1>1 DEF FirstInv
<1>3. info = <<>> /\ opc = "open" /\ looseObjs \subseteq Oids
  BY <1>0, <1>1 DEF PhasesInv, Dumb
<1>4. /\ ListedKeys' = ListedKeys /\ IdOf' = IdOf /\ PeelFor' = PeelFor /\ HeadCap' = HeadCap /\ opc' = opc
      /\ V0Entry' = V0Entry /\ Dumb' = Dumb
  <2>1. Dumb' = Dumb
    BY <1>1 DEF Dumb
  <2> QED
    BY <1>1, <2>1, ViewSame
<1>5. <<>> \o <<>> = <<>>
  OBVIOUS
<1>6. v0refs \in Seq(RefRecs) /\ Parsing(v0refs, <<>>, ListedKeys, IdOf, PeelFor)
  BY <1>0, <1>1, <1>3, <1>5 DEF ParseInv
<1>7. v0refs' \in Seq(RefRecs) /\ Listing(v0refs', ListedKeys, V0Entry)
  <2>1. PICK u : u = [i \in DOMAIN v0refs |->
                         [v0refs[i] EXCEPT !.symref = IF v0refs[i].name = HEAD THEN HeadCap ELSE None]]
    OBVIOUS
  <2>2. v0refs' = u
    BY <1>1, <1>2, <2>1 DEF ApplySymrefs
  <2>3. u \in Seq(RefRecs) /\ Listing(u, ListedKeys, V0Entry)
    BY <1>3, <1>6, <2>1, AllParsed
  <2> QED
    BY <2>2, <2>3
<1>8. PhasesInv'
  BY <1>0, <1>1, <1>4 DEF PhasesInv, Dumb
<1>9. FirstInv'
  BY <1>1, <1>2, <1>4 DEF FirstInv
<1>10. KnownInv'
  BY <1>4, <1>7 DEF KnownInv
<1>11. ParseInv' /\ FailInv' /\ YieldedInv'
  BY <1>1 DEF ParseInv, FailInv, YieldedInv, Dumb
<1> QED
  BY <1>8, <1>9, <1>10, <1>11 DEF SessionsInv

\* A body of info/refs is on its way.
LEMMA FetchInfoRefsInv ==
    ASSUME StoreAtRest, SessionsInv, FetchInfoRefs
    PROVE  SessionsInv'
<1>0. PhasesInv
  BY DEF SessionsInv
<1>1. /\ dpc = "store" /\ opc = "open" /\ dpc' = "first" /\ synth' = "start" /\ info' \in InfoRefsFiles
      /\ UNCHANGED storeVars /\ UNCHANGED <<looseObjs, wire, capSymref, v0refs, request, v2refs>>
  BY DEF FetchInfoRefs
<1>2. v0refs = <<>> /\ wire = <<>> /\ looseObjs \subseteq Oids /\ v2refs = <<>> /\ request = NoRequest
  BY <1>0, <1>1 DEF PhasesInv
<1>3. Dumb'
  BY <1>1 DEF Dumb
<1>4. ListedKeys' = DumbKeys /\ IdOf' = IdOf /\ PeelFor' = DumbPeels /\ HeadCap' = None
  BY <1>1, <1>3, DumbView
<1>5. PICK f \in InfoRefsFiles : f = info'
  BY <1>1
<1>6. f \in Seq(LineRecs) /\ Parsing(<<>>, f, DumbKeys, IdOf, DumbPeels) /\ \A i \in 1..Len(f) : f[i].symref = None
  BY <1>1, InfoRefsFilesListed
<1>7. opc' = opc
  BY <1>1 DEF storeVars, openVars
<1>8. PhasesInv'
  BY <1>0, <1>1, <1>2, <1>3, <1>7 DEF PhasesInv, Dumb
<1>9. ParseInv'
  <2>1. <<>> \o f = f
    BY <1>6
  <2>2. wire' \o info' = f
    BY <1>1, <1>2, <1>5, <2>1
  <2>3. <<>> \in Seq(LineRecs) /\ <<>> \in Seq(RefRecs)
    OBVIOUS
  <2>4. \A i \in 1..Len(<<>>) : FALSE
    OBVIOUS
  <2>5. Parsing(v0refs, wire \o info, ListedKeys, IdOf, PeelFor)'
    BY <1>1, <1>2, <1>4, <1>6, <2>2
  <2>6. (\A i \in 1..Len(wire) : Readable(wire[i]))'
    BY <1>1, <1>2, <2>4
  <2>7. (\A i \in 1..Len(info) : info[i].symref = None)'
    BY <1>5, <1>6
  <2> QED
    BY <1>1, <1>2, <1>5, <1>6, <2>3, <2>5, <2>6, <2>7 DEF ParseInv
<1>10. FirstInv'
  BY <1>1, <1>2 DEF FirstInv
<1>11. FailInv' /\ KnownInv' /\ YieldedInv'
  BY <1>1 DEF FailInv, KnownInv, YieldedInv
<1> QED
  BY <1>8, <1>9, <1>10, <1>11 DEF SessionsInv

\* While the adapter reads the file, the session parses.
LEMMA SynthFacts ==
    ASSUME SessionsInv, Synthesizing
    PROVE  /\ Dumb /\ dpc \in {"first", "v0"} /\ wire = <<>> /\ opc = "open"
           /\ info \in Seq(LineRecs) /\ v0refs \in Seq(RefRecs)
           /\ \A i \in 1..Len(info) : info[i].symref = None
           /\ Parsing(v0refs, info, ListedKeys, IdOf, PeelFor)
           /\ HeadCap = None
           /\ dpc = "first" => synth = "start" /\ v0refs = <<>>
           /\ dpc = "v0" => synth = "streaming" /\ capSymref = HeadCap
<1>0. PhasesInv /\ ParseInv /\ FirstInv
  BY DEF SessionsInv
<1>1. synth \in {"start", "streaming"} /\ wire = <<>> /\ dpc # "failed" /\ Dumb
  BY DEF Synthesizing, Dumb
<1>2. dpc \in {"first", "v0"} /\ opc = "open"
  BY <1>0, <1>1 DEF PhasesInv
<1>3. /\ info \in Seq(LineRecs) /\ v0refs \in Seq(RefRecs)
      /\ \A i \in 1..Len(info) : info[i].symref = None
      /\ Parsing(v0refs, wire \o info, ListedKeys, IdOf, PeelFor)
  BY <1>0, <1>2 DEF ParseInv
<1>4. wire \o info = info
  BY <1>1, <1>3
<1>5. HeadCap = None
  BY <1>1 DEF HeadCap
<1>6. dpc = "first" => synth = "start" /\ v0refs = <<>>
  BY <1>0, <1>1 DEF FirstInv
<1>7. dpc = "v0" => synth = "streaming" /\ capSymref = HeadCap
  BY <1>0, <1>1 DEF FirstInv
<1> QED
  BY <1>1, <1>2, <1>3, <1>4, <1>5, <1>6, <1>7

\* A comment is passed over.
LEMMA SkipLineInv ==
    ASSUME StoreAtRest, SessionsInv, SkipLine
    PROVE  SessionsInv'
<1>0. PhasesInv /\ FirstInv
  BY DEF SessionsInv
<1>1. /\ Synthesizing /\ info # <<>> /\ Head(info).kind = "comment" /\ info' = Tail(info)
      /\ UNCHANGED storeVars /\ UNCHANGED <<looseObjs, dpc, synth, wire, capSymref, v0refs, request, v2refs>>
  BY DEF SkipLine
<1>2. /\ Dumb /\ dpc \in {"first", "v0"} /\ wire = <<>>
      /\ info \in Seq(LineRecs) /\ v0refs \in Seq(RefRecs)
      /\ \A i \in 1..Len(info) : info[i].symref = None
      /\ Parsing(v0refs, info, ListedKeys, IdOf, PeelFor)
      /\ synth \in {"start", "streaming"}
  BY <1>1, SynthFacts DEF Synthesizing
<1>3. /\ ListedKeys' = ListedKeys /\ IdOf' = IdOf /\ PeelFor' = PeelFor /\ HeadCap' = HeadCap /\ opc' = opc
      /\ Dumb' = Dumb
  <2>1. Dumb' = Dumb
    BY <1>1 DEF Dumb
  <2> QED
    BY <1>1, <2>1, ViewSame
<1>4. PICK t : t = Tail(info)
  OBVIOUS
<1>5. /\ Head(info) = info[1] /\ t \in Seq(LineRecs) /\ Len(info) \in Nat /\ Len(t) = Len(info) - 1
      /\ \A j \in 1..Len(t) : t[j] = info[j + 1]
  BY <1>1, <1>2, <1>4, TailFacts
<1>6. Parsing(v0refs, t, ListedKeys, IdOf, PeelFor)
  BY <1>1, <1>2, <1>4, <1>5, TakeOther
<1>7. PhasesInv'
  BY <1>0, <1>1, <1>2, <1>3 DEF PhasesInv, Dumb
<1>8. ParseInv'
  <2>1. <<>> \o t = t
    BY <1>5
  <2>2. wire' \o info' = t
    BY <1>1, <1>2, <1>4, <2>1
  <2>3. <<>> \in Seq(LineRecs)
    OBVIOUS
  <2>4. \A i \in 1..Len(<<>>) : FALSE
    OBVIOUS
  <2>5. Parsing(v0refs, wire \o info, ListedKeys, IdOf, PeelFor)'
    BY <1>1, <1>3, <1>6, <2>2
  <2>6. (\A i \in 1..Len(wire) : Readable(wire[i]))'
    BY <1>1, <1>2, <2>4
  <2>7. \A i \in 1..Len(t) : t[i].symref = None
    <3>1. \A i \in 1..Len(t) : i + 1 \in 1..Len(info)
      BY <1>5
    <3> QED
      BY <1>2, <1>5, <3>1
  <2>8. (\A i \in 1..Len(info) : info[i].symref = None)'
    BY <1>1, <1>4, <2>7
  <2> QED
    BY <1>1, <1>2, <1>4, <1>5, <2>3, <2>5, <2>6, <2>8 DEF ParseInv
<1>9. FirstInv'
  BY <1>0, <1>1, <1>3 DEF FirstInv
<1>10. FailInv' /\ KnownInv' /\ YieldedInv'
  BY <1>1, <1>2 DEF FailInv, KnownInv, YieldedInv
<1> QED
  BY <1>7, <1>8, <1>9, <1>10 DEF SessionsInv

\* A line that no packet can carry is refused.
LEMMA RefuseLineInv ==
    ASSUME StoreAtRest, SessionsInv, RefuseLine
    PROVE  SessionsInv'
<1>0. PhasesInv
  BY DEF SessionsInv
<1>1. /\ Synthesizing /\ info # <<>> /\ (Head(info).kind = "malformed" \/ Head(info).size > MaxPayload - 2)
      /\ dpc' = "failed"
      /\ UNCHANGED storeVars /\ UNCHANGED <<looseObjs, info, synth, wire, capSymref, v0refs, request, v2refs>>
  BY DEF RefuseLine, dumbVars, MaxRefLineBytes
<1>2. /\ Dumb /\ dpc \in {"first", "v0"} /\ opc = "open" /\ v0refs \in Seq(RefRecs)
      /\ Parsing(v0refs, info, ListedKeys, IdOf, PeelFor)
  BY <1>1, SynthFacts
<1>3. ListedKeys' = ListedKeys /\ IdOf' = IdOf /\ PeelFor' = PeelFor /\ opc' = opc /\ Dumb' = Dumb
  <2>1. Dumb' = Dumb
    BY <1>1 DEF Dumb
  <2> QED
    BY <1>1, <2>1, ViewSame
<1>4. PhasesInv'
  BY <1>0, <1>1, <1>2, <1>3 DEF PhasesInv, Dumb
<1>5. Unfit'
  BY <1>1 DEF Unfit
<1>6. Parsed(v0refs, ListedKeys, IdOf, PeelFor)'
  <2>1. Parsed(v0refs, ListedKeys, IdOf, PeelFor)
    BY <1>2 DEF Parsing
  <2> QED
    BY <1>1, <1>3, <2>1
<1>7. FailInv'
  BY <1>1, <1>2, <1>5, <1>6 DEF FailInv
<1>8. ParseInv' /\ FirstInv' /\ KnownInv' /\ YieldedInv'
  BY <1>1 DEF ParseInv, FirstInv, KnownInv, YieldedInv
<1> QED
  BY <1>4, <1>7, <1>8 DEF SessionsInv

\* l is the packet made of the line m.
PacketOf(l, m, first) == l = [m EXCEPT !.caps = first, !.size = @ + IF first THEN 2 ELSE 1]

\* It carries what the line does.
LEMMA PacketMade ==
    ASSUME NEW info1 \in Seq(LineRecs), info1 # <<>>, NEW list, NEW keys, NEW ids, NEW peels,
           Parsing(list, info1, keys, ids, peels), info1[1].size <= MaxPayload - 2, info1[1].symref = None,
           NEW first \in BOOLEAN,
           NEW l, PacketOf(l, info1[1], first)
    PROVE  /\ << l >> \in Seq(LineRecs) /\ Tail(info1) \in Seq(LineRecs)
           /\ l.caps = first /\ l.symref = None /\ Readable(l)
           /\ Parsing(list, << l >> \o Tail(info1), keys, ids, peels)
<1>1. /\ info1[1] \in LineRecs /\ Len(info1) \in Nat /\ Len(info1) >= 1
      /\ Tail(info1) \in Seq(LineRecs) /\ Len(Tail(info1)) = Len(info1) - 1
      /\ \A j \in 1..Len(Tail(info1)) : Tail(info1)[j] = info1[j + 1]
  BY TailFacts
<1>2. PICK n \in Nat : n = info1[1].size + IF first THEN 2 ELSE 1
  BY <1>1 DEF LineRecs
<1>3. n <= MaxPayload
  <2>1. info1[1].size \in Nat /\ MaxPayload \in Nat
    BY <1>1, MaxPayloadAssumption DEF LineRecs
  <2> QED
    BY <1>2, <2>1
<1>4. l = [info1[1] EXCEPT !.caps = first, !.size = n]
  BY <1>2 DEF PacketOf
<1>5. /\ l \in LineRecs /\ l.caps = first /\ l.size = n /\ l.symref = None
      /\ l.kind = info1[1].kind /\ l.name = info1[1].name /\ l.oid = info1[1].oid
  BY <1>1, <1>4 DEF LineRecs
<1>6. PICK h \in Seq(LineRecs) : h = << l >> /\ Len(h) = 1 /\ h[1] = l
  <2>1. << l >> \in Seq(LineRecs) /\ Len(<< l >>) = 1 /\ << l >>[1] = l
    BY <1>5
  <2> QED
    BY <2>1
<1>7. PICK t : t = h \o Tail(info1)
  OBVIOUS
<1>8. Behind(t, h, Tail(info1), LineRecs)
  BY <1>1, <1>7, ConcatFacts
<1>9. /\ t \in Seq(LineRecs) /\ Len(t) = Len(info1) /\ t[1] = l
      /\ \A j \in 1..Len(Tail(info1)) : t[1 + j] = Tail(info1)[j]
  <2>1. 1 \in 1..Len(h)
    BY <1>6
  <2> QED
    BY <1>1, <1>6, <1>8, <2>1 DEF Behind
<1>10. \A j \in 1..Len(info1) : t[j].kind = info1[j].kind /\ t[j].name = info1[j].name /\ t[j].oid = info1[j].oid
  <2> SUFFICES ASSUME NEW j \in 1..Len(info1)
               PROVE  t[j].kind = info1[j].kind /\ t[j].name = info1[j].name /\ t[j].oid = info1[j].oid
    OBVIOUS
  <2>1. CASE j = 1
    BY <1>5, <1>9, <2>1
  <2>2. CASE j # 1
    <3>1. j - 1 \in 1..Len(Tail(info1)) /\ 1 + (j - 1) = j /\ (j - 1) + 1 = j
      BY <1>1, <2>2
    <3>2. t[j] = info1[j]
      BY <1>1, <1>9, <3>1
    <3> QED
      BY <3>2
  <2> QED
    BY <2>1, <2>2
<1>11. Parsing(list, t, keys, ids, peels)
  BY <1>9, <1>10, SameStream
<1> QED
  BY <1>1, <1>3, <1>5, <1>6, <1>7, <1>11 DEF Readable

\* The adapter makes a packet of a line.
LEMMA FillLineInv ==
    ASSUME StoreAtRest, SessionsInv, FillLine
    PROVE  SessionsInv'
<1>0. PhasesInv
  BY DEF SessionsInv
<1>1. /\ Synthesizing /\ info # <<>> /\ Head(info).size <= MaxPayload - 2
      /\ wire' = << [Head(info) EXCEPT !.caps = (synth = "start"), !.size = @ + IF synth = "start" THEN 2 ELSE 1] >>
      /\ info' = Tail(info) /\ synth' = "streaming"
      /\ UNCHANGED storeVars /\ UNCHANGED <<looseObjs, dpc, capSymref, v0refs, request, v2refs>>
  BY DEF FillLine, MaxRefLineBytes
<1>2. /\ Dumb /\ dpc \in {"first", "v0"} /\ opc = "open"
      /\ info \in Seq(LineRecs) /\ v0refs \in Seq(RefRecs)
      /\ \A i \in 1..Len(info) : info[i].symref = None
      /\ Parsing(v0refs, info, ListedKeys, IdOf, PeelFor)
      /\ HeadCap = None
      /\ dpc = "first" => synth = "start" /\ v0refs = <<>>
      /\ dpc = "v0" => capSymref = HeadCap
  BY <1>1, SynthFacts
<1>3. /\ ListedKeys' = ListedKeys /\ IdOf' = IdOf /\ PeelFor' = PeelFor /\ HeadCap' = HeadCap /\ opc' = opc
      /\ Dumb' = Dumb
  <2>1. Dumb' = Dumb
    BY <1>1, <1>2 DEF Dumb
  <2> QED
    BY <1>1, <2>1, ViewSame
<1>4. /\ Head(info) = info[1] /\ Len(info) \in Nat /\ Len(info) >= 1 /\ Len(Tail(info)) = Len(info) - 1
      /\ \A j \in 1..Len(Tail(info)) : Tail(info)[j] = info[j + 1]
  BY <1>1, <1>2, TailFacts
<1>5. PICK first \in BOOLEAN : first = (synth = "start")
  OBVIOUS
<1>6. PICK l : l = [info[1] EXCEPT !.caps = first, !.size = @ + IF first THEN 2 ELSE 1]
  OBVIOUS
<1>7. wire' = << l >>
  BY <1>1, <1>4, <1>5, <1>6
<1>8. /\ << l >> \in Seq(LineRecs) /\ Tail(info) \in Seq(LineRecs)
      /\ l.caps = first /\ l.symref = None /\ Readable(l)
      /\ Parsing(v0refs, << l >> \o Tail(info), ListedKeys, IdOf, PeelFor)
  <2>1. info[1].size <= MaxPayload - 2 /\ info[1].symref = None
    <3>1. 1 \in 1..Len(info)
      BY <1>4
    <3> QED
      BY <1>1, <1>2, <1>4, <3>1
  <2>2. PacketOf(l, info[1], first)
    BY <1>6 DEF PacketOf
  <2> QED
    BY <1>1, <1>2, <1>5, <2>1, <2>2, PacketMade
<1>9. PhasesInv'
  BY <1>0, <1>1, <1>2, <1>3 DEF PhasesInv, Dumb
<1>10. ParseInv'
  <2>1. Parsing(v0refs, wire \o info, ListedKeys, IdOf, PeelFor)'
    BY <1>1, <1>3, <1>7, <1>8
  <2>2. \A i \in 1..Len(<< l >>) : << l >>[i] = l
    OBVIOUS
  <2>3. (\A i \in 1..Len(wire) : Readable(wire[i]))'
    BY <1>7, <1>8, <2>2
  <2>4. \A i \in 1..Len(Tail(info)) : i + 1 \in 1..Len(info)
    BY <1>4
  <2>5. \A i \in 1..Len(Tail(info)) : Tail(info)[i].symref = None
    BY <1>2, <1>4, <2>4
  <2>6. (\A i \in 1..Len(info) : info[i].symref = None)'
    BY <1>1, <2>5
  <2> QED
    BY <1>1, <1>2, <1>7, <1>8, <2>1, <2>3, <2>6 DEF ParseInv
<1>11. FirstInv'
  <2>1. << l >> # <<>> /\ << l >>[1] = l
    OBVIOUS
  <2> QED
    BY <1>1, <1>2, <1>3, <1>5, <1>7, <1>8, <2>1 DEF FirstInv
<1>12. FailInv' /\ KnownInv' /\ YieldedInv'
  BY <1>1, <1>2 DEF FailInv, KnownInv, YieldedInv
<1> QED
  BY <1>9, <1>10, <1>11, <1>12 DEF SessionsInv

\* The body has ended.
LEMMA FillEndInv ==
    ASSUME StoreAtRest, SessionsInv, FillEnd
    PROVE  SessionsInv'
<1>0. PhasesInv /\ ParseInv /\ FirstInv /\ FailInv /\ KnownInv
  BY DEF SessionsInv
<1>1. /\ info = <<>> /\ Dumb /\ Dumb' /\ synth' \in {"flush", "done"}
      /\ UNCHANGED storeVars /\ UNCHANGED <<looseObjs, dpc, info, capSymref, v0refs, request, v2refs>>
  BY DEF FillEnd, Synthesizing, Dumb
<1>3. /\ ListedKeys' = ListedKeys /\ IdOf' = IdOf /\ PeelFor' = PeelFor /\ HeadCap' = HeadCap /\ opc' = opc
      /\ V0Entry' = V0Entry /\ Dumb' = Dumb
  <2>1. Dumb' = Dumb
    BY <1>1
  <2> QED
    BY <1>1, <2>1, ViewSame
<1>5. FailInv'
  BY <1>0, <1>1, <1>3 DEF FailInv, Unfit
<1>4. CASE synth = "flush" /\ wire = <<>> /\ synth' = "done" /\ UNCHANGED wire
  <2>0. PhasesInv'
    BY <1>0, <1>1, <1>3, <1>4 DEF PhasesInv
  <2>1. ParseInv'
    BY <1>0, <1>1, <1>3, <1>4 DEF ParseInv, Readable
  <2>2. FirstInv'
    BY <1>0, <1>1, <1>3, <1>4 DEF FirstInv
  <2>3. KnownInv'
    BY <1>0, <1>1, <1>3 DEF KnownInv
  <2>4. dpc # "v2"
    BY <1>0, <1>1 DEF PhasesInv
  <2>5. YieldedInv'
    BY <1>1, <2>4 DEF YieldedInv
  <2> QED
    BY <1>5, <2>0, <2>1, <2>2, <2>3, <2>5 DEF SessionsInv
<1>6. CASE /\ Synthesizing /\ synth' = "flush"
           /\ wire' = IF synth = "start" THEN << [Placeholder EXCEPT !.caps = TRUE] >> ELSE wire
  <2>1. /\ dpc \in {"first", "v0"} /\ wire = <<>> /\ v0refs \in Seq(RefRecs)
        /\ Parsing(v0refs, <<>>, ListedKeys, IdOf, PeelFor)
        /\ HeadCap = None
        /\ dpc = "first" => synth = "start" /\ v0refs = <<>>
        /\ dpc = "v0" => synth = "streaming" /\ capSymref = HeadCap
    BY <1>1, <1>6, SynthFacts
  <2>2. PhasesInv'
    BY <1>0, <1>1, <1>3, <1>6, <2>1 DEF PhasesInv
  <2>3. KnownInv' /\ YieldedInv'
    BY <1>1, <2>1 DEF KnownInv, YieldedInv
  <2>4. <<>> \in Seq(LineRecs) /\ (\A i \in 1..Len(<<>>) : FALSE) /\ <<>> \o <<>> = <<>>
    OBVIOUS
  <2>5. CASE dpc = "v0"
    <3>1. wire' = <<>>
      BY <1>6, <2>1, <2>5
    <3>2. Parsing(v0refs, wire \o info, ListedKeys, IdOf, PeelFor)'
      BY <1>1, <1>3, <2>1, <2>4, <3>1
    <3>3. (\A i \in 1..Len(wire) : Readable(wire[i]))' /\ (\A i \in 1..Len(info) : info[i].symref = None)'
      BY <1>1, <2>4, <3>1
    <3>4. ParseInv'
      BY <1>1, <2>1, <2>4, <3>1, <3>2, <3>3 DEF ParseInv
    <3>5. FirstInv'
      BY <1>1, <1>3, <1>6, <2>1, <2>5 DEF FirstInv
    <3> QED
      BY <1>5, <2>2, <2>3, <3>4, <3>5 DEF SessionsInv
  <2>6. CASE dpc = "first"
    <3>1. PICK p : p = [Placeholder EXCEPT !.caps = TRUE]
      OBVIOUS
    <3>2. p \in LineRecs /\ p.kind = "placeholder" /\ p.caps /\ p.symref = None /\ p.size = 1
      <4>1. 0 \in 0..NumRefs
        BY NumRefsAssumption
      <4> QED
        BY <3>1, <4>1 DEF Placeholder, Line, LineRecs, LineKinds, HEAD
    <3>3. wire' = << p >> /\ v0refs = <<>>
      BY <1>6, <2>1, <2>6, <3>1
    <3>4. PICK e : e = <<>>
      OBVIOUS
    <3>5. Parsing(<<>>, Append(e, p), ListedKeys, IdOf, PeelFor)
      <4>1. e \in Seq(LineRecs) /\ Parsing(<<>>, e, ListedKeys, IdOf, PeelFor)
        BY <2>1, <2>4, <3>3, <3>4
      <4> QED
        BY <3>2, <4>1, OtherBehind
    <3>6. << p >> \o <<>> = Append(e, p) /\ << p >> \in Seq(LineRecs) /\ << p >> # <<>> /\ << p >>[1] = p
      BY <3>2, <3>4
    <3>7. Parsing(v0refs, wire \o info, ListedKeys, IdOf, PeelFor)'
      BY <1>1, <1>3, <3>3, <3>5, <3>6
    <3>8. (\A i \in 1..Len(wire) : Readable(wire[i]))'
      <4>1. Readable(p)
        BY <3>2, MaxPayloadAssumption DEF Readable
      <4>2. \A i \in 1..Len(<< p >>) : << p >>[i] = p
        OBVIOUS
      <4> QED
        BY <3>3, <4>1, <4>2
    <3>9. (\A i \in 1..Len(info) : info[i].symref = None)'
      BY <1>1, <2>4
    <3>10. ParseInv'
      BY <1>1, <2>1, <2>4, <3>3, <3>6, <3>7, <3>8, <3>9 DEF ParseInv
    <3>11. FirstInv'
      BY <1>1, <1>3, <1>6, <2>1, <2>6, <3>2, <3>3, <3>6 DEF FirstInv
    <3> QED
      BY <1>5, <2>2, <2>3, <3>10, <3>11 DEF SessionsInv
  <2> QED
    BY <2>1, <2>5, <2>6
<1> QED
  BY <1>4, <1>6 DEF FillEnd

(***************************************************************************)
(* The v2 session.                                                         *)
(***************************************************************************)
\* Nothing is listed yet.
LEMMA NoListing ==
    ASSUME NEW entry
    PROVE  Listing(<<>>, {}, entry)
<1>1. \A i \in 1..Len(<<>>) : FALSE
  OBVIOUS
<1> QED
  BY <1>1 DEF Listing

\* One more entry, of a greater name.
LEMMA AddListed ==
    ASSUME NEW R, NEW s \in Seq(R), NEW keys, NEW entry, Listing(s, keys, entry),
           NEW n, \A k \in keys : k < n, NEW e \in R, e = entry[n], e.name = n
    PROVE  Append(s, e) \in Seq(R) /\ Listing(Append(s, e), keys \cup {n}, entry)
<1>t. PICK t : t = Append(s, e)
  OBVIOUS
<1>m. PICK m \in Nat : m = Len(s)
  OBVIOUS
<1>1. t \in Seq(R) /\ Len(t) = m + 1 /\ t[m + 1] = e /\ \A i \in 1..m : t[i] = s[i]
  BY <1>t, <1>m, AppendFacts
<1>2. \A i \in 1..Len(t) : i \in 1..m \/ i = m + 1
  BY <1>1
<1>3. /\ \A i \in 1..m : s[i].name \in keys /\ s[i] = entry[s[i].name]
      /\ \A i, j \in 1..m : i < j => s[i].name < s[j].name
      /\ \A k \in keys : \E i \in 1..m : s[i].name = k
  BY <1>m DEF Listing
<1>4. ASSUME NEW i \in 1..Len(t) PROVE t[i].name \in keys \cup {n} /\ t[i] = entry[t[i].name]
  BY <1>1, <1>2, <1>3
<1>5. ASSUME NEW i \in 1..Len(t), NEW j \in 1..Len(t), i < j PROVE t[i].name < t[j].name
  <2>1. i \in 1..m
    BY <1>1, <1>5
  <2>2. CASE j \in 1..m
    BY <1>1, <1>3, <1>5, <2>1, <2>2
  <2>3. CASE j = m + 1
    BY <1>1, <1>3, <2>1, <2>3
  <2> QED
    BY <1>2, <2>2, <2>3
<1>6. ASSUME NEW k \in keys \cup {n} PROVE \E i \in 1..Len(t) : t[i].name = k
  <2>1. \A i \in 1..m : i \in 1..Len(t) /\ t[i] = s[i]
    BY <1>1
  <2>2. m + 1 \in 1..Len(t)
    BY <1>1
  <2> QED
    BY <1>1, <1>3, <2>1, <2>2
<1>7. Listing(t, keys \cup {n}, entry)
  BY <1>4, <1>5, <1>6 DEF Listing
<1> QED
  BY <1>t, <1>1, <1>7

\* The entries are refs, each with its name.
Entries(entry, keys) == \A n \in keys : entry[n] \in RefRecs /\ entry[n].name = n

\* InOrder lists them.
LEMMA ListingBuilt ==
    ASSUME NEW keys \in SUBSET (0..NumRefs), NEW entry, Entries(entry, keys), NEW ahead, NEW lines,
           ahead = IF 0 \in keys THEN << entry[0] >> ELSE <<>>,
           \A n \in Names : lines[n] = IF n \in keys THEN << entry[n] >> ELSE <<>>
    PROVE  /\ InOrder(ahead, lines) \in Seq(RefRecs)
           /\ Listing(InOrder(ahead, lines), keys, entry)
<1>1. PICK f : Stepwise(f, ahead, lines) /\ InOrder(ahead, lines) = f[NumRefs]
  BY InOrderDef
<1>k. keys \subseteq 0..NumRefs
  OBVIOUS
<1> DEFINE S == {n \in Nat : n <= NumRefs => f[n] \in Seq(RefRecs) /\ Listing(f[n], UpTo(keys, n), entry)}
<1>2. 0 \in S
  <2>1. f[0] = ahead
    BY <1>1 DEF Stepwise
  <2>2. <<>> \in Seq(RefRecs) /\ Listing(<<>>, {}, entry)
    BY NoListing
  <2>3. CASE 0 \in keys
    <3>1. UpTo(keys, 0) = {} \cup {0}
      BY <1>k, <2>3, UpToFacts
    <3>2. PICK e \in RefRecs : e = entry[0] /\ e.name = 0
      BY <2>3 DEF Entries
    <3>3. PICK z : z = <<>>
      OBVIOUS
    <3>4. Append(z, e) \in Seq(RefRecs) /\ Listing(Append(z, e), {} \cup {0}, entry)
      <4>0. PICK nobody : nobody = {}
        OBVIOUS
      <4>1. z \in Seq(RefRecs) /\ Listing(z, nobody, entry)
        BY <2>2, <3>3, <4>0
      <4>2. \A k \in nobody : k < 0
        BY <4>0
      <4>3. Append(z, e) \in Seq(RefRecs) /\ Listing(Append(z, e), nobody \cup {0}, entry)
        BY <3>2, <4>1, <4>2, AddListed
      <4> QED
        BY <4>0, <4>3
    <3>5. f[0] = Append(z, e)
      <4>1. f[0] = << e >>
        BY <2>1, <2>3, <3>2
      <4> QED
        BY <3>3, <4>1
    <3>6. f[0] \in Seq(RefRecs) /\ Listing(f[0], UpTo(keys, 0), entry)
      BY <3>1, <3>4, <3>5
    <3> QED
      BY <3>6
  <2>4. CASE 0 \notin keys
    <3>1. UpTo(keys, 0) = {}
      BY <1>k, <2>4, UpToFacts
    <3>2. f[0] \in Seq(RefRecs) /\ Listing(f[0], UpTo(keys, 0), entry)
      BY <2>1, <2>2, <2>4, <3>1
    <3> QED
      BY <3>2
  <2> QED
    BY <2>3, <2>4
<1>3. ASSUME NEW n \in Nat, n \in S PROVE n + 1 \in S
  <2> SUFFICES ASSUME n + 1 <= NumRefs
               PROVE  f[n + 1] \in Seq(RefRecs) /\ Listing(f[n + 1], UpTo(keys, n + 1), entry)
    OBVIOUS
  <2>0. PICK m \in Names : m = n + 1
    BY NumRefsAssumption DEF Names
  <2>1. f[m] = f[n] \o lines[m]
    BY <1>1, <2>0 DEF Stepwise
  <2>2. n <= NumRefs
    BY NumRefsAssumption
  <2>3. f[n] \in Seq(RefRecs) /\ Listing(f[n], UpTo(keys, n), entry)
    BY <1>3, <2>2
  <2>4. CASE m \in keys
    <3>1. UpTo(keys, m) = UpTo(keys, n) \cup {m}
      BY <1>k, <2>0, <2>4, UpToFacts
    <3>2. \A k \in UpTo(keys, n) : k < m
      BY <1>k, <2>0, UpToFacts
    <3>3. PICK e \in RefRecs : e = entry[m] /\ e.name = m
      BY <2>4 DEF Entries
    <3>4. Append(f[n], e) \in Seq(RefRecs) /\ Listing(Append(f[n], e), UpTo(keys, n) \cup {m}, entry)
      BY <2>3, <3>2, <3>3, AddListed
    <3>5. f[m] = Append(f[n], e)
      <4>1. lines[m] = << e >>
        BY <2>4, <3>3
      <4>2. f[n] \o << e >> = Append(f[n], e)
        BY <2>3, <3>3
      <4> QED
        BY <2>1, <4>1, <4>2
    <3>6. f[m] \in Seq(RefRecs) /\ Listing(f[m], UpTo(keys, m), entry)
      BY <3>1, <3>4, <3>5
    <3> QED
      BY <2>0, <3>6
  <2>5. CASE m \notin keys
    <3>1. UpTo(keys, m) = UpTo(keys, n)
      BY <1>k, <2>0, <2>5, UpToFacts
    <3>2. f[m] = f[n]
      <4>1. lines[m] = <<>>
        BY <2>5
      <4>2. f[n] \o <<>> = f[n]
        BY <2>3
      <4> QED
        BY <2>1, <4>1, <4>2
    <3>3. f[m] \in Seq(RefRecs) /\ Listing(f[m], UpTo(keys, m), entry)
      BY <2>3, <3>1, <3>2
    <3> QED
      BY <2>0, <3>3
  <2> QED
    BY <2>4, <2>5
<1>4. Nat \subseteq S
  <2> HIDE DEF S
  <2> QED
    BY <1>2, <1>3, SetInduction
<1>5. UpTo(keys, NumRefs) = keys
  BY <1>k, UpToFacts
<1>6. f[NumRefs] \in Seq(RefRecs) /\ Listing(f[NumRefs], UpTo(keys, NumRefs), entry)
  BY <1>4, NumRefsAssumption
<1> QED
  BY <1>1, <1>5, <1>6

\* What Peel finds, of the object HEAD is at too.
LEMMA PeelFacts ==
    ASSUME looseObjs \subseteq Oids, NEW o \in Oids
    PROVE  Peel(o) \in Oids \cup {None} /\ (Peel(o) # None => Peel(o) = TruePeel[o])
<1>1. PeeledVia(looseObjs, MaxPeelDepth) \in [Oids -> Oids \cup {None}]
  BY MaxPeelDepthAssumption, PeeledViaType
<1>2. PeeledVia(looseObjs, MaxPeelDepth)[o] # None => PeeledVia(looseObjs, MaxPeelDepth)[o] = TruePeel[o]
  BY MaxPeelDepthAssumption, PeelSound
<1> QED
  BY <1>1, <1>2 DEF Peel

\* What a v2 session is to list, name by name.
LEMMA V2EntryFacts ==
    ASSUME StoreAtRest, looseObjs \subseteq Oids, opc = "open", ~Dumb, NEW args \in RefsRequests
    PROVE  /\ V2Keys(args) \subseteq 0..NumRefs
           /\ Entries(V2Entry(args), V2Keys(args))
           /\ \A n \in Names : n \in V2Keys(args) <=> refs[n] # None /\ RefMatch(args.prefixes, n)
           /\ 0 \in V2Keys(args) <=> EmitHead(args) # <<>>
           /\ V2Entry(args)[0] = HeadEntry(args)
           /\ \A n \in Names : V2Entry(args)[n] = Ref(n, IdOf[n], IF args.peel THEN PeelFor[n] ELSE None, None)
           /\ EmitHead(args) # <<>> => EmitHead(args) = << HeadEntry(args) >>
           /\ HeadEntry(args).hash # None => HeadEntry(args).hash \in Oids
           /\ HeadEntry(args).peeled # None =>
                 HeadEntry(args).hash \in Oids /\ HeadEntry(args).peeled = Peel(HeadEntry(args).hash)
<1>1. Names \subseteq 0..NumRefs /\ 0 \notin Names /\ 0 \in 0..NumRefs
  BY NumRefsAssumption DEF Names
<1>2. V2Keys(args) \subseteq 0..NumRefs
  BY <1>1 DEF V2Keys
<1>3. \A n \in Names : n \in V2Keys(args) <=> refs[n] # None /\ RefMatch(args.prefixes, n)
  BY <1>1 DEF V2Keys
<1>4. 0 \in V2Keys(args) <=> EmitHead(args) # <<>>
  BY <1>1 DEF V2Keys
<1>5. V2Entry(args)[0] = HeadEntry(args)
  BY <1>1 DEF V2Entry
<1>6. \A n \in Names : V2Entry(args)[n] = Ref(n, IdOf[n], IF args.peel THEN PeelFor[n] ELSE None, None)
  BY <1>1 DEF V2Entry
<1>7. head.oid \in Oids \cup {None} /\ head.symref \in Names \cup {None} /\ HeadCap \in Names \cup {None}
  BY ListedFacts
<1>8. head.unborn \in BOOLEAN
  BY DEF StoreAtRest, HeadOK, Heads
<1>9. EmitHead(args) # <<>> => EmitHead(args) = << HeadEntry(args) >>
  <2>1. CASE ~RefMatch(args.prefixes, HEAD)
    BY <2>1 DEF EmitHead
  <2>2. CASE RefMatch(args.prefixes, HEAD) /\ ~head.unborn /\ head.oid # None
    BY <2>2 DEF EmitHead, HeadEntry
  <2>3. CASE RefMatch(args.prefixes, HEAD) /\ ~(~head.unborn /\ head.oid # None)
    BY <1>8, <2>3 DEF EmitHead, HeadEntry
  <2> QED
    BY <2>1, <2>2, <2>3
<1>10. /\ HeadEntry(args) \in RefRecs /\ HeadEntry(args).name = 0
       /\ HeadEntry(args).hash # None => HeadEntry(args).hash \in Oids
       /\ HeadEntry(args).peeled # None =>
             HeadEntry(args).hash \in Oids /\ HeadEntry(args).peeled = Peel(HeadEntry(args).hash)
  <2>1. CASE head.unborn \/ head.oid = None
    <3>1. HeadEntry(args) = [name |-> 0, hash |-> None, peeled |-> None, symref |-> head.symref]
      BY <2>1 DEF HeadEntry, Ref, HEAD
    <3> QED
      BY <1>1, <1>7, <3>1 DEF RefRecs
  <2>2. CASE ~(head.unborn \/ head.oid = None)
    <3>1. head.oid \in Oids
      BY <1>7, <2>2
    <3>2. Peel(head.oid) \in Oids \cup {None}
      BY <3>1, PeelFacts
    <3>3. PICK p \in Oids \cup {None} : p = IF args.peel THEN Peel(head.oid) ELSE None
      BY <3>2
    <3>4. PICK m \in Names \cup {None} : m = IF args.symrefs THEN head.symref ELSE None
      BY <1>7
    <3>5. HeadEntry(args) = [name |-> 0, hash |-> head.oid, peeled |-> p, symref |-> m]
      BY <2>2, <3>3, <3>4 DEF HeadEntry, Ref, HEAD
    <3> QED
      BY <1>1, <3>1, <3>3, <3>4, <3>5 DEF RefRecs
  <2> QED
    BY <2>1, <2>2
<1>11. ASSUME NEW n \in V2Keys(args) PROVE V2Entry(args)[n] \in RefRecs /\ V2Entry(args)[n].name = n
  <2>1. CASE n = 0
    BY <1>5, <1>10, <2>1
  <2>2. CASE n # 0
    <3>1. n \in Names
      BY <1>2, <2>2, NumRefsAssumption DEF Names
    <3>2. n \in ListedKeys
      BY <1>3, <3>1, ListedFacts
    <3>3. IdOf[n] \in Oids /\ PeelFor[n] \in Oids \cup {None}
      BY <3>1, <3>2, ListedFacts
    <3>4. PICK p \in Oids \cup {None} : p = IF args.peel THEN PeelFor[n] ELSE None
      BY <3>3
    <3>5. PICK a : a = V2Entry(args)[n]
      OBVIOUS
    <3>6. a = [name |-> n, hash |-> IdOf[n], peeled |-> p, symref |-> None]
      BY <1>6, <3>1, <3>4, <3>5 DEF Ref
    <3>7. a \in RefRecs
      BY <1>1, <3>1, <3>3, <3>4, <3>6 DEF RefRecs
    <3> QED
      BY <3>5, <3>6, <3>7
  <2> QED
    BY <2>1, <2>2
<1>12. Entries(V2Entry(args), V2Keys(args))
  BY <1>11 DEF Entries
<1> QED
  BY <1>2, <1>3, <1>4, <1>5, <1>6, <1>9, <1>10, <1>12

\* What the server writes is that.
LEMMA V2Listed ==
    ASSUME StoreAtRest, looseObjs \subseteq Oids, opc = "open", ~Dumb, NEW args \in RefsRequests
    PROVE  V2Lines(args) \in Seq(RefRecs) /\ Listing(V2Lines(args), V2Keys(args), V2Entry(args))
<1>1. PICK keys \in SUBSET (0..NumRefs) : keys = V2Keys(args)
  BY V2EntryFacts
<1>2. PICK entry : entry = V2Entry(args)
  OBVIOUS
<1>3. PICK lines : lines = [n \in Names |-> IF refs[n] # None /\ RefMatch(args.prefixes, n)
                                            THEN FormatRefLine(n, args) ELSE <<>>]
  OBVIOUS
<1>4. PICK ahead : ahead = EmitHead(args)
  OBVIOUS
<1>5. /\ Entries(entry, keys) /\ ahead = IF 0 \in keys THEN << entry[0] >> ELSE <<>>
  BY <1>1, <1>2, <1>4, V2EntryFacts
<1>6. ASSUME NEW n \in Names PROVE lines[n] = IF n \in keys THEN << entry[n] >> ELSE <<>>
  <2>1. CASE n \in keys
    <3>1. refs[n] # None /\ RefMatch(args.prefixes, n)
      BY <1>1, <2>1, V2EntryFacts
    <3>2. n \in ListedKeys
      BY <3>1, ListedFacts
    <3>3. IdOf[n] = refs[n].oid /\ PeelFor[n] = RefPeel(n)
      BY <3>2, ListedFacts
    <3>4. entry[n] = Ref(n, IdOf[n], IF args.peel THEN PeelFor[n] ELSE None, None)
      BY <1>2, V2EntryFacts
    <3>5. lines[n] = << entry[n] >>
      BY <1>3, <3>1, <3>3, <3>4 DEF FormatRefLine
    <3> QED
      BY <2>1, <3>5
  <2>2. CASE n \notin keys
    <3>1. ~(refs[n] # None /\ RefMatch(args.prefixes, n))
      BY <1>1, <2>2, V2EntryFacts
    <3> QED
      BY <1>3, <2>2, <3>1
  <2> QED
    BY <2>1, <2>2
<1>7. V2Lines(args) = InOrder(ahead, lines)
  BY <1>3, <1>4 DEF V2Lines
<1>8. InOrder(ahead, lines) \in Seq(RefRecs) /\ Listing(InOrder(ahead, lines), keys, entry)
  BY <1>5, <1>6, ListingBuilt
<1> QED
  BY <1>1, <1>2, <1>7, <1>8

\* A request is answered.
LEMMA LSRefsInv ==
    ASSUME StoreAtRest, SessionsInv, LSRefs
    PROVE  SessionsInv'
<1>0. PhasesInv /\ FirstInv /\ KnownInv
  BY DEF SessionsInv
<1>1. PICK args \in RefsRequests :
        /\ dpc = "ask" /\ dpc' = "v2" /\ request' = args /\ wire' = V2Lines(args)
        /\ UNCHANGED storeVars /\ UNCHANGED <<looseObjs, info, synth, capSymref, v0refs, v2refs>>
  BY DEF LSRefs, dumbVars
<1>2. ~Dumb /\ opc = "open" /\ looseObjs \subseteq Oids /\ v2refs = <<>> /\ Dumb' = Dumb
  BY <1>0, <1>1 DEF PhasesInv, Dumb
<1>3. /\ ListedKeys' = ListedKeys /\ HeadCap' = HeadCap /\ opc' = opc /\ V0Entry' = V0Entry
      /\ V2Keys(args)' = V2Keys(args) /\ V2Entry(args)' = V2Entry(args)
  BY <1>1, <1>2, ViewSame, ViewSameV2
<1>4. PICK w : w = V2Lines(args) /\ w \in Seq(RefRecs) /\ Listing(w, V2Keys(args), V2Entry(args))
  BY <1>2, V2Listed
<1>5. <<>> \o w = w /\ <<>> \in Seq(RefRecs)
  BY <1>4
<1>6. PhasesInv'
  BY <1>0, <1>1, <1>2, <1>3 DEF PhasesInv, Dumb
<1>7. FirstInv' /\ KnownInv'
  BY <1>0, <1>1, <1>3 DEF FirstInv, KnownInv
<1>8. YieldedInv'
  <2>1. request' = args /\ wire' = w /\ v2refs' = <<>> /\ dpc' = "v2"
    BY <1>1, <1>2, <1>4
  <2>2. V2Keys(request)' = V2Keys(args) /\ V2Entry(request)' = V2Entry(args)
    <3>1. V2Keys(request)' = V2Keys(args)' /\ V2Entry(request)' = V2Entry(args)'
      BY <2>1 DEF V2Keys, V2Entry, EmitHead, HeadEntry
    <3> QED
      BY <1>3, <3>1
  <2>3. Listing(v2refs \o wire, V2Keys(request), V2Entry(request))'
    BY <1>4, <1>5, <2>1, <2>2
  <2> QED
    BY <1>1, <1>4, <1>5, <2>1, <2>3 DEF YieldedInv
<1>9. ParseInv' /\ FailInv'
  BY <1>1 DEF ParseInv, FailInv
<1> QED
  BY <1>6, <1>7, <1>8, <1>9 DEF SessionsInv

\* One more element from the one sequence to the other.
LEMMA MoveOne ==
    ASSUME NEW R, NEW s \in Seq(R), NEW w \in Seq(R), w # <<>>
    PROVE  /\ Append(s, Head(w)) \in Seq(R) /\ Tail(w) \in Seq(R)
           /\ Append(s, Head(w)) \o Tail(w) = s \o w
<1>1. Append(s, Head(w)) \in Seq(R) /\ Tail(w) \in Seq(R)
  BY TailFacts
<1>2. << Head(w) >> \o Tail(w) = w
  OBVIOUS
<1>3. Append(s, Head(w)) = s \o << Head(w) >>
  OBVIOUS
<1>4. (s \o << Head(w) >>) \o Tail(w) = s \o (<< Head(w) >> \o Tail(w))
  BY <1>1, TailFacts
<1> QED
  BY <1>1, <1>2, <1>3, <1>4

\* A ref is yielded.
LEMMA DecodeLSRefsInv ==
    ASSUME StoreAtRest, SessionsInv, DecodeLSRefs
    PROVE  SessionsInv'
<1>0. PhasesInv /\ FirstInv /\ KnownInv /\ YieldedInv
  BY DEF SessionsInv
<1>1. /\ dpc = "v2" /\ dpc' = "v2" /\ wire # <<>> /\ wire' = Tail(wire) /\ v2refs' = Append(v2refs, Head(wire))
      /\ UNCHANGED storeVars /\ UNCHANGED <<looseObjs, info, synth, capSymref, v0refs, request>>
  BY DEF DecodeLSRefs, dumbVars
<1>2. ~Dumb /\ Dumb' = Dumb
  BY <1>0, <1>1 DEF PhasesInv, Dumb
<1>3. /\ ListedKeys' = ListedKeys /\ HeadCap' = HeadCap /\ opc' = opc /\ V0Entry' = V0Entry
      /\ V2Keys(request)' = V2Keys(request) /\ V2Entry(request)' = V2Entry(request)
  <2>1. PICK args : args = request
    OBVIOUS
  <2>2. V2Keys(args)' = V2Keys(args) /\ V2Entry(args)' = V2Entry(args)
    BY <1>1, <1>2, ViewSameV2
  <2>3. V2Keys(request)' = V2Keys(args)' /\ V2Entry(request)' = V2Entry(args)'
    BY <1>1, <2>1 DEF V2Keys, V2Entry, EmitHead, HeadEntry
  <2> QED
    BY <1>1, <1>2, <2>1, <2>2, <2>3, ViewSame
<1>4. /\ request \in RefsRequests /\ wire \in Seq(RefRecs) /\ v2refs \in Seq(RefRecs)
      /\ Listing(v2refs \o wire, V2Keys(request), V2Entry(request))
  BY <1>0, <1>1 DEF YieldedInv
<1>5. v2refs' \in Seq(RefRecs) /\ wire' \in Seq(RefRecs) /\ v2refs' \o wire' = v2refs \o wire
  BY <1>1, <1>4, MoveOne
<1>6. PhasesInv'
  BY <1>0, <1>1, <1>2, <1>3 DEF PhasesInv, Dumb
<1>7. FirstInv' /\ KnownInv'
  BY <1>0, <1>1, <1>3 DEF FirstInv, KnownInv
<1>8. YieldedInv'
  BY <1>1, <1>3, <1>4, <1>5 DEF YieldedInv
<1>9. ParseInv' /\ FailInv'
  BY <1>1 DEF ParseInv, FailInv
<1> QED
  BY <1>6, <1>7, <1>8, <1>9 DEF SessionsInv

\* The answer has ended.
LEMMA EndV2Inv ==
    ASSUME StoreAtRest, SessionsInv, EndV2
    PROVE  SessionsInv'
<1>0. PhasesInv /\ FirstInv /\ KnownInv /\ YieldedInv
  BY DEF SessionsInv
<1>1. /\ dpc = "v2" /\ dpc' = "done" /\ wire = <<>>
      /\ UNCHANGED storeVars
      /\ UNCHANGED <<looseObjs, info, synth, wire, capSymref, v0refs, request, v2refs>>
  BY DEF EndV2, dumbVars
<1>2. ~Dumb /\ Dumb' = Dumb
  BY <1>0, <1>1 DEF PhasesInv, Dumb
<1>3. /\ ListedKeys' = ListedKeys /\ HeadCap' = HeadCap /\ opc' = opc /\ V0Entry' = V0Entry
      /\ V2Keys(request)' = V2Keys(request) /\ V2Entry(request)' = V2Entry(request)
  <2>1. PICK args : args = request
    OBVIOUS
  <2>2. V2Keys(args)' = V2Keys(args) /\ V2Entry(args)' = V2Entry(args)
    BY <1>1, <1>2, ViewSameV2
  <2>3. V2Keys(request)' = V2Keys(args)' /\ V2Entry(request)' = V2Entry(args)'
    BY <1>1, <2>1 DEF V2Keys, V2Entry, EmitHead, HeadEntry
  <2> QED
    BY <1>1, <1>2, <2>1, <2>2, <2>3, ViewSame
<1>6. PhasesInv'
  BY <1>0, <1>1, <1>2, <1>3 DEF PhasesInv, Dumb
<1>7. FirstInv' /\ KnownInv'
  BY <1>0, <1>1, <1>3 DEF FirstInv, KnownInv
<1>8. YieldedInv'
  BY <1>0, <1>1, <1>3 DEF YieldedInv
<1>9. ParseInv' /\ FailInv'
  BY <1>1 DEF ParseInv, FailInv
<1> QED
  BY <1>6, <1>7, <1>8, <1>9 DEF SessionsInv

(***************************************************************************)
(* Correctness.                                                            *)
(***************************************************************************)
\* The inductive invariant.
DiscoveryInv == StoreAtRest /\ SessionsInv

\* At first no session has begun.
LEMMA DiscoveryInitInv == DiscoveryInit => DiscoveryInv
<1> SUFFICES ASSUME DiscoveryInit PROVE DiscoveryInv
  OBVIOUS
<1>1. StoreAtRest
  BY StoreAtRestInit DEF DiscoveryInit
<1>2. looseObjs \subseteq Oids /\ dpc = "store" /\ synth = "none" /\ info = <<>> /\ wire = <<>>
      /\ v0refs = <<>> /\ v2refs = <<>> /\ request = NoRequest
  BY DEF DiscoveryInit
<1>3. PhasesInv
  BY <1>2 DEF PhasesInv, Dumb
<1>4. ParseInv /\ FirstInv /\ FailInv /\ KnownInv /\ YieldedInv
  BY <1>2 DEF ParseInv, FirstInv, FailInv, KnownInv, YieldedInv
<1> QED
  BY <1>1, <1>3, <1>4 DEF DiscoveryInv, SessionsInv

\* The store is opened before any session begins.
LEMMA OpenStoreInv ==
    ASSUME StoreAtRest, SessionsInv, OpenStore
    PROVE  SessionsInv'
<1>0. PhasesInv
  BY DEF SessionsInv
<1>1. /\ UNCHANGED <<looseObjs, dpc, info, synth, wire, capSymref, v0refs, request, v2refs>>
      /\ opc # "open"
  BY NoOpenStep DEF OpenStore, discoveryVars, dumbVars
<1>2. dpc = "store"
  BY <1>0, <1>1 DEF PhasesInv
<1>3. PhasesInv'
  BY <1>0, <1>1, <1>2 DEF PhasesInv, Dumb
<1>4. ParseInv' /\ FirstInv' /\ FailInv' /\ KnownInv' /\ YieldedInv'
  BY <1>1, <1>2 DEF ParseInv, FirstInv, FailInv, KnownInv, YieldedInv
<1> QED
  BY <1>3, <1>4 DEF SessionsInv

\* Nothing happens.
LEMMA SessionsSame ==
    ASSUME StoreAtRest, SessionsInv, UNCHANGED vars
    PROVE  SessionsInv'
<1>0. PhasesInv /\ ParseInv /\ FirstInv /\ FailInv /\ KnownInv /\ YieldedInv
  BY DEF SessionsInv
<1>1. /\ UNCHANGED storeVars
      /\ UNCHANGED <<looseObjs, dpc, info, synth, wire, capSymref, v0refs, request, v2refs>>
  BY DEF vars, discoveryVars, dumbVars
<1>2. Dumb' = Dumb
  BY <1>1 DEF Dumb
<1>3. /\ ListedKeys' = ListedKeys /\ IdOf' = IdOf /\ PeelFor' = PeelFor /\ HeadCap' = HeadCap /\ opc' = opc
      /\ V0Entry' = V0Entry /\ V2Keys(request)' = V2Keys(request) /\ V2Entry(request)' = V2Entry(request)
  <2>1. PICK args : args = request
    OBVIOUS
  <2>2. V2Keys(args)' = V2Keys(args) /\ V2Entry(args)' = V2Entry(args)
    BY <1>1, <1>2, ViewSameV2
  <2>3. V2Keys(request)' = V2Keys(args)' /\ V2Entry(request)' = V2Entry(args)'
    BY <1>1, <2>1 DEF V2Keys, V2Entry, EmitHead, HeadEntry
  <2> QED
    BY <1>1, <1>2, <2>1, <2>2, <2>3, ViewSame
<1>4. PhasesInv'
  BY <1>0, <1>1, <1>3 DEF PhasesInv, Dumb
<1>5. ParseInv'
  BY <1>0, <1>1, <1>3 DEF ParseInv, Readable
<1>6. FirstInv' /\ KnownInv'
  BY <1>0, <1>1, <1>3 DEF FirstInv, KnownInv
<1>7. FailInv'
  BY <1>0, <1>1, <1>3 DEF FailInv, Unfit
<1>8. YieldedInv'
  BY <1>0, <1>1, <1>2, <1>3 DEF YieldedInv
<1> QED
  BY <1>4, <1>5, <1>6, <1>7, <1>8 DEF SessionsInv

\* Every step keeps the invariant.
LEMMA DiscoveryStepInv ==
    ASSUME DiscoveryInv, [Next]_vars
    PROVE  DiscoveryInv'
<1>0. StoreAtRest /\ SessionsInv
  BY DEF DiscoveryInv
<1>1. CASE OpenStore
  BY <1>0, <1>1, OpenStoreInv, StoreAtRestStep DEF OpenStore, DiscoveryInv
<1>2. CASE AdvertiseV0
  BY <1>0, <1>2, AdvertiseV0Inv, StoreAtRestSame DEF AdvertiseV0, DiscoveryInv
<1>3. CASE ParseFirstRefLine
  BY <1>0, <1>3, ParseFirstInv, StoreAtRestSame DEF ParseFirstRefLine, DiscoveryInv
<1>4. CASE ParseRefLine
  BY <1>0, <1>4, ParseRefInv, StoreAtRestSame DEF ParseRefLine, DiscoveryInv
<1>5. CASE EndV0
  BY <1>0, <1>5, EndV0Inv, StoreAtRestSame DEF EndV0, DiscoveryInv
<1>6. CASE FetchInfoRefs
  BY <1>0, <1>6, FetchInfoRefsInv, StoreAtRestSame DEF FetchInfoRefs, DiscoveryInv
<1>7. CASE SkipLine
  BY <1>0, <1>7, SkipLineInv, StoreAtRestSame DEF SkipLine, DiscoveryInv
<1>8. CASE RefuseLine
  BY <1>0, <1>8, RefuseLineInv, StoreAtRestSame DEF RefuseLine, DiscoveryInv
<1>9. CASE FillLine
  BY <1>0, <1>9, FillLineInv, StoreAtRestSame DEF FillLine, DiscoveryInv
<1>10. CASE FillEnd
  BY <1>0, <1>10, FillEndInv, StoreAtRestSame DEF FillEnd, DiscoveryInv
<1>11. CASE LSRefs
  BY <1>0, <1>11, LSRefsInv, StoreAtRestSame DEF LSRefs, DiscoveryInv
<1>12. CASE DecodeLSRefs
  BY <1>0, <1>12, DecodeLSRefsInv, StoreAtRestSame DEF DecodeLSRefs, DiscoveryInv
<1>13. CASE EndV2
  BY <1>0, <1>13, EndV2Inv, StoreAtRestSame DEF EndV2, DiscoveryInv
<1>14. CASE UNCHANGED vars
  BY <1>0, <1>14, SessionsSame, StoreAtRestSame DEF vars, DiscoveryInv
<1> QED
  BY <1>1, <1>2, <1>3, <1>4, <1>5, <1>6, <1>7, <1>8, <1>9, <1>10, <1>11, <1>12, <1>13, <1>14
     DEF Next, Synth, Finished

\* What is listed of the refs, and what of it is on the wire, is the store's.
THEOREM DiscoveryInvariant == Spec => []DiscoveryInv
<1>1. DiscoveryInit => DiscoveryInv
  BY DiscoveryInitInv
<1>2. DiscoveryInv /\ [Next]_vars => DiscoveryInv'
  BY DiscoveryStepInv
<1> QED
  BY <1>1, <1>2, PTL DEF Spec

\* Until the v0 session knows its refs, each has no peeled id or a true one.
LEMMA ParsedTrue ==
    ASSUME StoreAtRest, looseObjs \subseteq Oids, opc = "open",
           NEW list, Parsed(list, ListedKeys, IdOf, PeelFor), NEW i \in 1..Len(list), list[i].peeled # None
    PROVE  list[i].peeled = TruePeel[list[i].hash]
<1>1. PICK n : n = list[i].name
  OBVIOUS
<1>2. n \in ListedKeys /\ list[i].hash = IdOf[n] /\ list[i].peeled = PeelFor[n]
  BY <1>1 DEF Parsed
<1>3. n \in 0..NumRefs /\ n # 0
  BY <1>2, ListedFacts
<1>4. n \in Names
  BY <1>3, NumRefsAssumption DEF Names
<1> QED
  BY <1>2, <1>4, ListedFacts

\* The same once it knows them.
LEMMA ListedTrue ==
    ASSUME StoreAtRest, looseObjs \subseteq Oids, opc = "open",
           NEW list, Listing(list, ListedKeys, V0Entry), NEW i \in 1..Len(list), list[i].peeled # None
    PROVE  list[i].peeled = TruePeel[list[i].hash]
<1>1. PICK n : n = list[i].name
  OBVIOUS
<1>2. n \in ListedKeys /\ list[i] = V0Entry[n]
  BY <1>1 DEF Listing
<1>3. n \in 0..NumRefs
  BY <1>2, ListedFacts
<1>4. V0Entry[n] = Ref(n, IdOf[n], PeelFor[n], IF n = 0 THEN HeadCap ELSE None)
  BY <1>3 DEF V0Entry
<1>5. list[i].hash = IdOf[n] /\ list[i].peeled = PeelFor[n]
  BY <1>2, <1>4 DEF Ref
<1>6. n \in Names
  <2>1. n # 0
    BY <1>5, ListedFacts
  <2> QED
    BY <1>3, <2>1, NumRefsAssumption DEF Names
<1> QED
  BY <1>2, <1>5, <1>6, ListedFacts

\* And what a v2 session is told.
LEMMA YieldedTrue ==
    ASSUME StoreAtRest, looseObjs \subseteq Oids, opc = "open", ~Dumb, NEW args \in RefsRequests,
           NEW list \in Seq(RefRecs), NEW more \in Seq(RefRecs),
           Listing(list \o more, V2Keys(args), V2Entry(args)),
           NEW i \in 1..Len(list), list[i].peeled # None
    PROVE  list[i].peeled = TruePeel[list[i].hash]
<1>0. (list \o more)[i] = list[i] /\ i \in 1..Len(list \o more)
  OBVIOUS
<1>1. PICK n : n = list[i].name
  OBVIOUS
<1>2. n \in V2Keys(args) /\ list[i] = V2Entry(args)[n]
  BY <1>0, <1>1 DEF Listing
<1>3. CASE n = 0
  <2>1. list[i] = HeadEntry(args)
    BY <1>2, <1>3, V2EntryFacts
  <2>2. list[i].hash \in Oids /\ list[i].peeled = Peel(list[i].hash)
    BY <2>1, V2EntryFacts
  <2> QED
    BY <2>2, PeelFacts
<1>4. CASE n # 0
  <2>1. n \in 0..NumRefs
    BY <1>2, V2EntryFacts
  <2>2. n \in Names
    BY <1>4, <2>1, NumRefsAssumption DEF Names
  <2>3. n \in ListedKeys
    BY <1>2, <2>2, V2EntryFacts, ListedFacts
  <2>4. list[i] = Ref(n, IdOf[n], IF args.peel THEN PeelFor[n] ELSE None, None)
    BY <1>2, <2>2, V2EntryFacts
  <2>5. list[i].hash = IdOf[n] /\ list[i].peeled = IF args.peel THEN PeelFor[n] ELSE None
    BY <2>4 DEF Ref
  <2>6. list[i].peeled = PeelFor[n]
    BY <2>5
  <2> QED
    BY <2>2, <2>3, <2>5, <2>6, ListedFacts
<1> QED
  BY <1>3, <1>4

\* Whatever a ref is said to peel to, on either protocol, is what its tag really
\* leads to (refPeel, Peel).
THEOREM PeelsTrueHolds == Spec => []PeelsTrue
<1>1. ASSUME DiscoveryInv PROVE PeelsTrue
  <2>0. StoreAtRest /\ PhasesInv /\ ParseInv /\ FirstInv /\ FailInv /\ KnownInv /\ YieldedInv
    BY <1>1 DEF DiscoveryInv, SessionsInv
  <2>1. looseObjs \subseteq Oids /\ (dpc # "store" => opc = "open")
    BY <2>0 DEF PhasesInv
  <2>2. \A i \in 1..Len(<<>>) : FALSE
    OBVIOUS
  <2>3. \A i \in 1..Len(v0refs) : v0refs[i].peeled # None => v0refs[i].peeled = TruePeel[v0refs[i].hash]
    <3>1. CASE dpc = "store"
      BY <2>0, <2>2, <3>1 DEF PhasesInv
    <3>2. CASE dpc \in {"first", "v0", "failed"}
      <4>1. Parsed(v0refs, ListedKeys, IdOf, PeelFor)
        BY <2>0, <3>2 DEF ParseInv, Parsing, FailInv
      <4> QED
        BY <2>0, <2>1, <3>2, <4>1, ParsedTrue
    <3>3. CASE dpc \in {"ask", "v2", "done"}
      <4>1. Listing(v0refs, ListedKeys, V0Entry)
        BY <2>0, <3>3 DEF KnownInv
      <4> QED
        BY <2>0, <2>1, <3>3, <4>1, ListedTrue
    <3> QED
      BY <2>0, <3>1, <3>2, <3>3 DEF PhasesInv
  <2>4. v0refs = <<>> \/ v0refs \in Seq(RefRecs)
    BY <2>0 DEF PhasesInv, ParseInv, FailInv, KnownInv
  <2>5. \A i \in 1..Len(v2refs) : v2refs[i].peeled # None => v2refs[i].peeled = TruePeel[v2refs[i].hash]
    <3>1. CASE v2refs = <<>>
      BY <2>2, <3>1
    <3>2. CASE dpc \in {"v2", "done"} /\ ~Dumb
      <4>1. /\ request \in RefsRequests /\ wire \in Seq(RefRecs) /\ v2refs \in Seq(RefRecs)
            /\ Listing(v2refs \o wire, V2Keys(request), V2Entry(request))
        BY <2>0, <3>2 DEF YieldedInv
      <4> QED
        BY <2>0, <2>1, <3>2, <4>1, YieldedTrue
    <3> QED
      BY <2>0, <3>1, <3>2 DEF PhasesInv
  <2>6. v2refs = <<>> \/ v2refs \in Seq(RefRecs)
    BY <2>0 DEF PhasesInv, YieldedInv
  <2>7. \A list : list = <<>> \/ list \in Seq(RefRecs) => DOMAIN list = 1..Len(list)
    OBVIOUS
  <2>8. DOMAIN v0refs = 1..Len(v0refs) /\ DOMAIN v2refs = 1..Len(v2refs)
    BY <2>4, <2>6, <2>7
  <2> QED
    BY <2>3, <2>5, <2>8 DEF PeelsTrue
<1> QED
  BY <1>1, DiscoveryInvariant, PTL

\* The parser accepts what a server or the adapter sends, and the session then
\* knows exactly the repository's refs (parseV0Advertisement, synth.Read).
THEOREM ListExactHolds == Spec => []ListExact
<1>1. ASSUME DiscoveryInv PROVE ListExact
  <2>0. StoreAtRest /\ PhasesInv /\ FailInv /\ KnownInv
    BY <1>1 DEF DiscoveryInv, SessionsInv
  <2>1. dpc = "failed" => Unfit
    BY <2>0 DEF FailInv
  <2>2. ASSUME dpc = "done"
        PROVE  /\ \A i, j \in DOMAIN v0refs : i < j => v0refs[i].name < v0refs[j].name
               /\ \A n \in Names :
                     \/ ShadowsPacked(n)
                     \/ ListedOid(n) = None /\ \A i \in DOMAIN v0refs : v0refs[i].name # n
                     \/ \E i \in DOMAIN v0refs : v0refs[i].name = n /\ v0refs[i].hash = ListedOid(n)
    <3>1. v0refs \in Seq(RefRecs) /\ Listing(v0refs, ListedKeys, V0Entry)
      BY <2>0, <2>2 DEF KnownInv
    <3>2. DOMAIN v0refs = 1..Len(v0refs)
      BY <3>1
    <3>3. opc = "open" /\ looseObjs \subseteq Oids
      BY <2>0, <2>2 DEF PhasesInv
    <3>4. \A i, j \in DOMAIN v0refs : i < j => v0refs[i].name < v0refs[j].name
      BY <3>1, <3>2 DEF Listing
    <3>5. ASSUME NEW n \in Names, refs[n] = None
          PROVE  \A i \in DOMAIN v0refs : v0refs[i].name # n
      <4>1. n \notin ListedKeys
        BY <2>0, <3>3, <3>5, ListedFacts
      <4> QED
        BY <3>1, <3>2, <4>1 DEF Listing
    <3>6. ASSUME NEW n \in Names, refs[n] # None
          PROVE  \E i \in DOMAIN v0refs : v0refs[i].name = n /\ v0refs[i].hash = refs[n].oid
      <4>1. n \in ListedKeys /\ n \in 0..NumRefs
        BY <2>0, <3>3, <3>6, ListedFacts
      <4>2. IdOf[n] = refs[n].oid
        BY <2>0, <3>3, <4>1, ListedFacts
      <4>3. PICK i \in 1..Len(v0refs) : v0refs[i].name = n
        BY <3>1, <4>1 DEF Listing
      <4>4. v0refs[i] = V0Entry[n]
        BY <3>1, <4>3 DEF Listing
      <4>5. V0Entry[n] = Ref(n, IdOf[n], PeelFor[n], IF n = 0 THEN HeadCap ELSE None)
        BY <4>1 DEF V0Entry
      <4>6. v0refs[i].hash = refs[n].oid
        BY <4>2, <4>4, <4>5 DEF Ref
      <4> QED
        BY <3>2, <4>3, <4>6
    <3>7. \A n \in Names : \/ ShadowsPacked(n)
                           \/ refs[n] = None /\ ListedOid(n) = None
                           \/ refs[n] # None /\ refs[n].oid = ListedOid(n)
      BY <2>0, <3>3, RefsListed
    <3> QED
      BY <3>4, <3>5, <3>6, <3>7
  <2> QED
    BY <2>1, <2>2 DEF ListExact
<1> QED
  BY <1>1, DiscoveryInvariant, PTL

(***************************************************************************)
(* The two protocols agree.                                                *)
(***************************************************************************)
\* f satisfies the recursive definition in Picked.
IsPicked(f, list, positions) ==
    f = [i \in 0..Len(list) |->
            IF i = 0 THEN <<>>
            ELSE IF i \in positions THEN Append(f[i - 1], list[i]) ELSE f[i - 1]]

\* The recursive function that Picked defines exists.
LEMMA PickedExists ==
    ASSUME NEW list, NEW positions, Len(list) \in Nat
    PROVE  \E f : IsPicked(f, list, positions)
<1> DEFINE St(f, n) == IF n = 0 THEN <<>>
                       ELSE IF n \in positions THEN Append(f[n - 1], list[n]) ELSE f[n - 1]
<1> DEFINE S == {l \in Nat : \E f : f = [n \in 0..l |-> St(f, n)]}
<1>0. ASSUME NEW f, NEW g, NEW d, d = 0 \/ f[d - 1] = g[d - 1] PROVE St(f, d) = St(g, d)
  <2>1. CASE d = 0
    BY <2>1
  <2>2. CASE f[d - 1] = g[d - 1]
    BY <2>2
  <2> QED
    BY <1>0, <2>1, <2>2
<1>1. 0 \in S
  <2>1. PICK f : f = [d \in 0..0 |-> <<>>]
    OBVIOUS
  <2>2. f = [d \in 0..0 |-> St(f, d)]
    BY <2>1
  <2> QED
    BY <2>2
<1>2. ASSUME NEW n \in Nat, n \in S PROVE n + 1 \in S
  <2>1. PICK f : f = [d \in 0..n |-> St(f, d)]
    BY <1>2
  <2> HIDE DEF St
  <2>2. PICK g : g = [d \in 0..(n + 1) |-> IF d = n + 1 THEN St(f, d) ELSE f[d]]
    OBVIOUS
  <2>3. ASSUME NEW d \in 0..(n + 1) PROVE g[d] = St(g, d)
    <3>1. CASE d = n + 1
      <4>1. d - 1 = n /\ n # n + 1 /\ n \in 0..(n + 1)
        BY <3>1
      <4>2. g[d - 1] = f[d - 1] /\ g[d] = St(f, d)
        BY <2>2, <3>1, <4>1
      <4> QED
        BY <1>0, <4>2
    <3>2. CASE d # n + 1
      <4>1. d \in 0..n
        BY <3>2
      <4>2. g[d] = f[d] /\ f[d] = St(f, d)
        BY <2>1, <2>2, <3>2, <4>1
      <4>3. d = 0 \/ (d - 1 \in 0..(n + 1) /\ d - 1 # n + 1)
        BY <4>1
      <4>4. d = 0 \/ f[d - 1] = g[d - 1]
        BY <2>2, <4>3
      <4> QED
        BY <1>0, <4>2, <4>4
    <3> QED
      BY <3>1, <3>2
  <2>4. g = [d \in 0..(n + 1) |-> St(g, d)]
    BY <2>2, <2>3
  <2> QED
    BY <2>4
<1>3. Nat \subseteq S
  <2> HIDE DEF S
  <2> QED
    BY <1>1, <1>2, SetInduction
<1>4. PICK f : f = [d \in 0..Len(list) |-> St(f, d)]
  BY <1>3
<1> QED
  BY <1>4, Zenon DEF IsPicked

\* One element after the other is picked or not.
PickedStepwise(f, list, positions) ==
    /\ f[0] = <<>>
    /\ \A n \in Nat : n + 1 <= Len(list) =>
          f[n + 1] = IF n + 1 \in positions THEN Append(f[n], list[n + 1]) ELSE f[n]

\* So Picked is its value for the last element.
LEMMA PickedDef ==
    ASSUME NEW list, NEW positions, Len(list) \in Nat
    PROVE  \E f : PickedStepwise(f, list, positions) /\ Picked(list, positions) = f[Len(list)]
<1> DEFINE upTo[i \in 0..Len(list)] ==
            IF i = 0 THEN <<>>
            ELSE IF i \in positions THEN Append(upTo[i - 1], list[i]) ELSE upTo[i - 1]
<1>1. \E f : IsPicked(f, list, positions)
  BY PickedExists
<1>2. IsPicked(upTo, list, positions)
  BY <1>1, Zenon DEF upTo, IsPicked
<1>3. Picked(list, positions) = upTo[Len(list)]
  BY Zenon DEF Picked, upTo
<1>4. ASSUME NEW f, IsPicked(f, list, positions) PROVE PickedStepwise(f, list, positions)
  <2>1. f = [i \in 0..Len(list) |->
                IF i = 0 THEN <<>>
                ELSE IF i \in positions THEN Append(f[i - 1], list[i]) ELSE f[i - 1]]
    BY <1>4, Zenon DEF IsPicked
  <2>2. f[0] = <<>>
    <3>1. 0 \in 0..Len(list)
      OBVIOUS
    <3> QED
      BY <2>1, <3>1
  <2>3. ASSUME NEW n \in Nat, n + 1 <= Len(list)
        PROVE  f[n + 1] = IF n + 1 \in positions THEN Append(f[n], list[n + 1]) ELSE f[n]
    <3>1. n + 1 \in 0..Len(list) /\ n + 1 # 0 /\ (n + 1) - 1 = n
      BY <2>3
    <3>2. PICK e \in 0..Len(list) : e = n + 1
      BY <3>1
    <3>3. f[e] = IF e \in positions THEN Append(f[n], list[e]) ELSE f[n]
      BY <2>1, <3>1, <3>2
    <3> QED
      BY <3>2, <3>3
  <2> QED
    BY <2>2, <2>3 DEF PickedStepwise
<1>5. PickedStepwise(upTo, list, positions)
  BY <1>2, <1>4
<1> QED
  BY <1>3, <1>5, Zenon

\* The names of the first n elements that are in K.
FirstOf(list, n, K) == {k \in K : \E i \in 1..n : list[i].name = k}

\* One more of them.
LEMMA FirstOfFacts ==
    ASSUME NEW list, NEW n \in Nat, NEW K
    PROVE  /\ FirstOf(list, 0, K) = {}
           /\ list[n + 1].name \in K => FirstOf(list, n + 1, K) = FirstOf(list, n, K) \cup {list[n + 1].name}
           /\ list[n + 1].name \notin K => FirstOf(list, n + 1, K) = FirstOf(list, n, K)
<1>1. \A i \in 1..0 : FALSE
  OBVIOUS
<1>2. FirstOf(list, 0, K) = {}
  BY <1>1 DEF FirstOf
<1>3. \A i : i \in 1..(n + 1) <=> i \in 1..n \/ i = n + 1
  OBVIOUS
<1>4. \A k \in K : (\E i \in 1..(n + 1) : list[i].name = k)
                     <=> (\E i \in 1..n : list[i].name = k) \/ k = list[n + 1].name
  BY <1>3
<1>5. list[n + 1].name \in K => FirstOf(list, n + 1, K) = FirstOf(list, n, K) \cup {list[n + 1].name}
  BY <1>4 DEF FirstOf
<1>6. list[n + 1].name \notin K => FirstOf(list, n + 1, K) = FirstOf(list, n, K)
  BY <1>4 DEF FirstOf
<1> QED
  BY <1>2, <1>5, <1>6

\* The refs picked of a listing by their names list those names.
LEMMA PickedListed ==
    ASSUME NEW list \in Seq(RefRecs), NEW keys, NEW entry, Listing(list, keys, entry), NEW K, K \subseteq keys,
           NEW positions, \A i \in 1..Len(list) : i \in positions <=> list[i].name \in K
    PROVE  /\ Picked(list, positions) \in Seq(RefRecs)
           /\ Listing(Picked(list, positions), K, entry)
<1>m. PICK m \in Nat : m = Len(list)
  OBVIOUS
<1>1. PICK f : PickedStepwise(f, list, positions) /\ Picked(list, positions) = f[m]
  BY <1>m, PickedDef
<1>2. /\ \A i \in 1..m : list[i].name \in keys /\ list[i] = entry[list[i].name] /\ list[i] \in RefRecs
      /\ \A i, j \in 1..m : i < j => list[i].name < list[j].name
      /\ \A k \in keys : \E i \in 1..m : list[i].name = k
  BY <1>m DEF Listing
<1> DEFINE S == {n \in Nat : n <= m => f[n] \in Seq(RefRecs) /\ Listing(f[n], FirstOf(list, n, K), entry)}
<1>3. 0 \in S
  <2>1. f[0] = <<>>
    BY <1>1 DEF PickedStepwise
  <2>2. FirstOf(list, 0, K) = {}
    BY FirstOfFacts
  <2>3. <<>> \in Seq(RefRecs) /\ Listing(<<>>, {}, entry)
    BY NoListing
  <2>4. f[0] \in Seq(RefRecs) /\ Listing(f[0], FirstOf(list, 0, K), entry)
    BY <2>1, <2>2, <2>3
  <2> QED
    BY <2>4
<1>4. ASSUME NEW n \in Nat, n \in S PROVE n + 1 \in S
  <2> SUFFICES ASSUME n + 1 <= m
               PROVE  f[n + 1] \in Seq(RefRecs) /\ Listing(f[n + 1], FirstOf(list, n + 1, K), entry)
    OBVIOUS
  <2>1. f[n] \in Seq(RefRecs) /\ Listing(f[n], FirstOf(list, n, K), entry)
    BY <1>4
  <2>2. n + 1 \in 1..m
    OBVIOUS
  <2>3. f[n + 1] = IF n + 1 \in positions THEN Append(f[n], list[n + 1]) ELSE f[n]
    BY <1>1, <1>m DEF PickedStepwise
  <2>4. PICK e \in RefRecs : e = list[n + 1] /\ e = entry[e.name] /\ e.name \in keys
    BY <1>2, <2>2
  <2>5. CASE n + 1 \in positions
    <3>1. e.name \in K
      BY <1>m, <2>2, <2>4, <2>5
    <3>2. FirstOf(list, n + 1, K) = FirstOf(list, n, K) \cup {e.name}
      BY <2>4, <3>1, FirstOfFacts
    <3>3. \A k \in FirstOf(list, n, K) : k < e.name
      <4>1. \A i \in 1..n : i \in 1..m /\ i < n + 1
        OBVIOUS
      <4> QED
        BY <1>2, <2>2, <2>4, <4>1 DEF FirstOf
    <3>4. PICK x : x = e.name
      OBVIOUS
    <3>5. Append(f[n], e) \in Seq(RefRecs) /\ Listing(Append(f[n], e), FirstOf(list, n, K) \cup {x}, entry)
      BY <2>1, <2>4, <3>3, <3>4, AddListed
    <3> QED
      BY <2>3, <2>4, <2>5, <3>2, <3>4, <3>5
  <2>6. CASE n + 1 \notin positions
    <3>1. e.name \notin K
      BY <1>m, <2>2, <2>4, <2>6
    <3>2. FirstOf(list, n + 1, K) = FirstOf(list, n, K)
      BY <2>4, <3>1, FirstOfFacts
    <3> QED
      BY <2>1, <2>3, <2>6, <3>2
  <2> QED
    BY <2>5, <2>6
<1>5. Nat \subseteq S
  <2> HIDE DEF S
  <2> QED
    BY <1>3, <1>4, SetInduction
<1>6. FirstOf(list, m, K) = K
  BY <1>2 DEF FirstOf
<1>7. f[m] \in Seq(RefRecs) /\ Listing(f[m], FirstOf(list, m, K), entry)
  BY <1>5
<1> QED
  BY <1>1, <1>6, <1>7

\* The first i - 1 names of two lists are the same.
SameBefore(a, b, i) ==
    \A j \in 1..(i - 1) : j <= Len(a) /\ j <= Len(b) /\ a[j].name = b[j].name

\* Then the next name of the one is no less than that of the other, if they
\* list the same.
LEMMA NextName ==
    ASSUME NEW a \in Seq(RefRecs), NEW b \in Seq(RefRecs), NEW keys, NEW e, NEW f,
           Listing(a, keys, e), Listing(b, keys, f), NEW i \in Nat, i >= 1, SameBefore(a, b, i), i <= Len(a)
    PROVE  i <= Len(b) /\ b[i].name <= a[i].name
<1>1. Len(a) \in Nat /\ Len(b) \in Nat /\ i \in 1..Len(a)
  OBVIOUS
<1>2. \A j \in 1..Len(b) : b[j].name \in Nat
  <2>1. \A j \in 1..Len(b) : b[j] \in RefRecs
    OBVIOUS
  <2> QED
    BY <2>1, NumRefsAssumption DEF RefRecs
<1>3. PICK j \in 1..Len(b) : b[j].name = a[i].name
  BY <1>1 DEF Listing
<1>4. ~(j < i)
  <2> SUFFICES ASSUME j < i PROVE FALSE
    OBVIOUS
  <2>1. j \in 1..(i - 1) /\ j \in 1..Len(a)
    BY <1>1
  <2>2. a[j].name = b[j].name
    BY <2>1 DEF SameBefore
  <2>3. a[j].name < a[i].name
    BY <1>1, <2>1 DEF Listing
  <2> QED
    BY <1>2, <1>3, <2>2, <2>3
<1>5. i <= Len(b) /\ i \in 1..Len(b)
  BY <1>1, <1>4
<1>6. i = j \/ b[i].name < b[j].name
  BY <1>1, <1>4, <1>5 DEF Listing
<1> QED
  BY <1>2, <1>3, <1>5, <1>6

\* So two listings of the same names have them at the same positions.
LEMMA SameNames ==
    ASSUME NEW a \in Seq(RefRecs), NEW b \in Seq(RefRecs), NEW keys, NEW e, NEW f,
           Listing(a, keys, e), Listing(b, keys, f)
    PROVE  Len(a) = Len(b) /\ \A i \in 1..Len(a) : a[i].name = b[i].name
<1>1. Len(a) \in Nat /\ Len(b) \in Nat
  OBVIOUS
<1>2. /\ \A j \in 1..Len(a) : a[j].name \in Nat
      /\ \A j \in 1..Len(b) : b[j].name \in Nat
  <2>1. (\A j \in 1..Len(b) : b[j] \in RefRecs) /\ (\A j \in 1..Len(a) : a[j] \in RefRecs)
    OBVIOUS
  <2> QED
    BY <2>1, NumRefsAssumption DEF RefRecs
<1> DEFINE S == {n \in Nat : n <= Len(a) \/ n <= Len(b) =>
                               n <= Len(a) /\ n <= Len(b) /\ SameBefore(a, b, n + 1)}
<1>3. 0 \in S
  <2>1. \A j \in 1..((0 + 1) - 1) : FALSE
    OBVIOUS
  <2>2. SameBefore(a, b, 0 + 1)
    BY <2>1 DEF SameBefore
  <2> QED
    BY <1>1, <2>2
<1>4. ASSUME NEW n \in Nat, n \in S PROVE n + 1 \in S
  <2> SUFFICES ASSUME n + 1 <= Len(a) \/ n + 1 <= Len(b)
               PROVE  n + 1 <= Len(a) /\ n + 1 <= Len(b) /\ SameBefore(a, b, (n + 1) + 1)
    OBVIOUS
  <2>1. SameBefore(a, b, n + 1)
    BY <1>1, <1>4
  <2>2. SameBefore(b, a, n + 1)
    BY <2>1 DEF SameBefore
  <2>3. PICK i \in Nat : i = n + 1 /\ i >= 1
    OBVIOUS
  <2>4. i <= Len(a) => i <= Len(b) /\ b[i].name <= a[i].name
    BY <2>1, <2>3, NextName
  <2>5. i <= Len(b) => i <= Len(a) /\ a[i].name <= b[i].name
    BY <2>2, <2>3, NextName
  <2>6. i <= Len(a) /\ i <= Len(b) /\ b[i].name <= a[i].name /\ a[i].name <= b[i].name
    BY <2>3, <2>4, <2>5
  <2>7. a[i].name = b[i].name
    <3>1. i \in 1..Len(a) /\ i \in 1..Len(b)
      BY <1>1, <2>3, <2>6
    <3>2. a[i].name \in Nat /\ b[i].name \in Nat
      BY <1>2, <3>1
    <3> QED
      BY <2>6, <3>2
  <2>8. \A j \in 1..((i + 1) - 1) : j \in 1..(i - 1) \/ j = i
    BY <2>3
  <2>9. SameBefore(a, b, i + 1)
    BY <2>1, <2>3, <2>6, <2>7, <2>8 DEF SameBefore
  <2> QED
    BY <2>3, <2>6, <2>9
<1>5. Nat \subseteq S
  <2> HIDE DEF S
  <2> QED
    BY <1>3, <1>4, SetInduction
<1>6. Len(a) <= Len(b) /\ Len(b) <= Len(a) /\ SameBefore(a, b, Len(a) + 1)
  BY <1>1, <1>5
<1>7. \A i \in 1..Len(a) : i \in 1..((Len(a) + 1) - 1)
  BY <1>1
<1> QED
  BY <1>1, <1>6, <1>7 DEF SameBefore

\* The names of the refs that both are to list.
BothKeys(args) == {n \in ListedKeys : RefMatch(args.prefixes, n)}

\* They are those v2 has an id for.
LEMMA BothKeysV2 ==
    ASSUME StoreAtRest, looseObjs \subseteq Oids, opc = "open", ~Dumb, HeadSound, NEW args \in RefsRequests
    PROVE  /\ BothKeys(args) \subseteq V2Keys(args)
           /\ \A n \in V2Keys(args) : V2Entry(args)[n].hash # None <=> n \in BothKeys(args)
           /\ 0 \in BothKeys(args) => ~head.unborn /\ head.oid # None
<1>n. None \notin Oids
  BY DistinctAssumption
<1>0. ListedKeys \subseteq 0..NumRefs /\ V2Keys(args) \subseteq 0..NumRefs
  BY ListedFacts, V2EntryFacts
<1>u. head.unborn \in BOOLEAN
  BY DEF StoreAtRest, HeadOK, Heads
<1>1. 0 \in BothKeys(args) <=> ~head.unborn /\ head.oid # None /\ RefMatch(args.prefixes, 0)
  <2>1. 0 \in ListedKeys <=> ~head.unborn /\ (head.symref # None \/ head.oid # None)
    BY ListedFacts DEF HeadValid
  <2> QED
    BY <2>1 DEF BothKeys, HeadSound
<1>2. ~head.unborn /\ head.oid # None /\ RefMatch(args.prefixes, 0) => EmitHead(args) # <<>>
  <2> SUFFICES ASSUME ~head.unborn, head.oid # None, RefMatch(args.prefixes, 0) PROVE EmitHead(args) # <<>>
    OBVIOUS
  <2>1. PICK r : EmitHead(args) = << r >>
    BY DEF EmitHead, HEAD
  <2> QED
    BY <2>1
<1>3. ASSUME EmitHead(args) # <<>>
      PROVE  /\ RefMatch(args.prefixes, 0)
             /\ HeadEntry(args).hash # None <=> ~head.unborn /\ head.oid # None
  <2>1. RefMatch(args.prefixes, 0)
    BY <1>3 DEF EmitHead, HEAD
  <2>2. HeadEntry(args).hash # None <=> ~head.unborn /\ head.oid # None
    BY <1>u DEF HeadEntry, Ref
  <2> QED
    BY <2>1, <2>2
<1>4. ASSUME NEW n \in Names
      PROVE  /\ n \in BothKeys(args) <=> n \in V2Keys(args)
             /\ n \in V2Keys(args) => V2Entry(args)[n].hash # None
  <2>1. n \in BothKeys(args) <=> refs[n] # None /\ RefMatch(args.prefixes, n)
    BY ListedFacts DEF BothKeys
  <2>2. n \in V2Keys(args) <=> refs[n] # None /\ RefMatch(args.prefixes, n)
    BY V2EntryFacts
  <2>3. n \in V2Keys(args) => V2Entry(args)[n].hash # None
    <3> SUFFICES ASSUME n \in V2Keys(args) PROVE V2Entry(args)[n].hash # None
      OBVIOUS
    <3>1. n \in ListedKeys
      BY <2>2, ListedFacts
    <3>2. IdOf[n] \in Oids
      BY <3>1, ListedFacts
    <3>3. V2Entry(args)[n] = Ref(n, IdOf[n], IF args.peel THEN PeelFor[n] ELSE None, None)
      BY V2EntryFacts
    <3>4. V2Entry(args)[n].hash = IdOf[n]
      BY <3>3 DEF Ref
    <3> QED
      BY <1>n, <3>2, <3>4
  <2> QED
    BY <2>1, <2>2, <2>3
<1>5. 0 \in V2Keys(args) <=> EmitHead(args) # <<>>
  BY V2EntryFacts
<1>6. V2Entry(args)[0] = HeadEntry(args)
  BY V2EntryFacts
<1>7. \A n \in 0..NumRefs : n = 0 \/ n \in Names
  BY NumRefsAssumption DEF Names
<1>8. \A n \in BothKeys(args) : n \in 0..NumRefs
  BY <1>0 DEF BothKeys
<1>9. BothKeys(args) \subseteq V2Keys(args)
  BY <1>1, <1>2, <1>4, <1>5, <1>7, <1>8
<1>10. \A n \in V2Keys(args) : V2Entry(args)[n].hash # None <=> n \in BothKeys(args)
  BY <1>0, <1>1, <1>3, <1>4, <1>5, <1>6, <1>7
<1> QED
  BY <1>1, <1>9, <1>10

\* A ref without the peeled id that only one protocol has.
Comparable(args, e) == [e EXCEPT !.peeled = IF e.name = HEAD \/ ~args.peel THEN None ELSE @]

\* Such a ref is the same on both.
LEMMA EntriesAgree ==
    ASSUME StoreAtRest, looseObjs \subseteq Oids, opc = "open", ~Dumb, HeadSound, capSymref = HeadCap,
           NEW args \in RefsRequests, NEW n \in BothKeys(args)
    PROVE  Comparable(args, V2Entry(args)[n]) = Comparable(args, Answer(args, V0Entry[n]))
<1>0. n \in 0..NumRefs /\ n \in ListedKeys
  <2>1. n \in ListedKeys
    BY DEF BothKeys
  <2> QED
    BY <2>1, ListedFacts
<1>1. V0Entry[n] = Ref(n, IdOf[n], PeelFor[n], IF n = 0 THEN HeadCap ELSE None)
  BY <1>0 DEF V0Entry
<1>2. CASE n = 0
  <2>1. ~head.unborn /\ head.oid # None
    BY <1>2, BothKeysV2
  <2>2. V2Entry(args)[n] = HeadEntry(args)
    BY <1>2, V2EntryFacts
  <2>3. PICK p : p = IF args.peel THEN Peel(head.oid) ELSE None
    OBVIOUS
  <2>4. V2Entry(args)[n] = Ref(0, head.oid, p, IF args.symrefs THEN head.symref ELSE None)
    BY <2>1, <2>2, <2>3 DEF HeadEntry, HEAD
  <2>5. Comparable(args, V2Entry(args)[n]) = Ref(0, head.oid, None, IF args.symrefs THEN head.symref ELSE None)
    BY <2>4 DEF Comparable, Ref, HEAD
  <2>6. V0Entry[n] = Ref(0, head.oid, None, head.symref) /\ capSymref = head.symref
    <3>1. IdOf[0] = head.oid /\ PeelFor[0] = None
      BY ListedFacts
    <3> QED
      BY <1>1, <1>2, <3>1 DEF HeadCap
  <2>7. Answer(args, V0Entry[n]) = Ref(0, head.oid, None, IF args.symrefs THEN head.symref ELSE None)
    BY <2>6 DEF Answer, SymrefTarget, CapSymref, Ref, HEAD
  <2>8. Comparable(args, Answer(args, V0Entry[n]))
          = Ref(0, head.oid, None, IF args.symrefs THEN head.symref ELSE None)
    BY <2>7 DEF Comparable, Ref, HEAD
  <2> QED
    BY <2>5, <2>8
<1>3. CASE n # 0
  <2>1. n \in Names
    BY <1>0, <1>3, NumRefsAssumption DEF Names
  <2>2. V2Entry(args)[n] = Ref(n, IdOf[n], IF args.peel THEN PeelFor[n] ELSE None, None)
    BY <2>1, V2EntryFacts
  <2>3. PICK i : i = IdOf[n]
    OBVIOUS
  <2>4. PICK p : p = PeelFor[n]
    OBVIOUS
  <2>5. Comparable(args, V2Entry(args)[n]) = Ref(n, i, IF args.peel THEN p ELSE None, None)
    BY <1>3, <2>2, <2>3, <2>4 DEF Comparable, Ref, HEAD
  <2>6. Answer(args, V0Entry[n]) = Ref(n, i, p, None)
    BY <1>1, <1>3, <2>3, <2>4 DEF Answer, SymrefTarget, Ref, HEAD
  <2>7. Comparable(args, Answer(args, V0Entry[n])) = Ref(n, i, IF args.peel THEN p ELSE None, None)
    BY <1>3, <2>6 DEF Comparable, Ref, HEAD
  <2> QED
    BY <2>5, <2>7
<1> QED
  BY <1>2, <1>3

\* The two answers to one request, over v2 and out of the v0 session.
LEMMA AnswersAgree ==
    ASSUME DiscoveryInv, dpc = "done", ~Dumb, HeadSound
    PROVE  WithoutExtraPeels(WithoutUnborn(v2refs)) = WithoutExtraPeels(RefsCached(request))
<1>0. StoreAtRest /\ PhasesInv /\ FirstInv /\ KnownInv /\ YieldedInv
  BY DEF DiscoveryInv, SessionsInv
<1>1. opc = "open" /\ looseObjs \subseteq Oids /\ capSymref = HeadCap
  BY <1>0 DEF PhasesInv, FirstInv
<1>2. PICK args \in RefsRequests : args = request
  BY <1>0 DEF YieldedInv
<1>3. v2refs \in Seq(RefRecs) /\ Listing(v2refs, V2Keys(args), V2Entry(args))
  <2>1. v2refs \in Seq(RefRecs) /\ wire = <<>> /\ Listing(v2refs \o wire, V2Keys(args), V2Entry(args))
    BY <1>0, <1>2 DEF YieldedInv
  <2>2. v2refs \o <<>> = v2refs
    BY <2>1
  <2> QED
    BY <2>1, <2>2
<1>4. v0refs \in Seq(RefRecs) /\ Listing(v0refs, ListedKeys, V0Entry)
  BY <1>0 DEF KnownInv
<1>5. PICK K : K = BothKeys(args)
  OBVIOUS
<1>6. K \subseteq V2Keys(args) /\ K \subseteq ListedKeys
  BY <1>0, <1>1, <1>5, BothKeysV2 DEF BothKeys
<1>7. PICK a : a = WithoutUnborn(v2refs)
  OBVIOUS
<1>8. a \in Seq(RefRecs) /\ Listing(a, K, V2Entry(args))
  <2>1. PICK positions : positions = {i \in DOMAIN v2refs : v2refs[i].hash # None}
    OBVIOUS
  <2>2. DOMAIN v2refs = 1..Len(v2refs)
    BY <1>3
  <2>3. ASSUME NEW i \in 1..Len(v2refs) PROVE i \in positions <=> v2refs[i].name \in K
    <3>1. v2refs[i].name \in V2Keys(args) /\ v2refs[i] = V2Entry(args)[v2refs[i].name]
      BY <1>3 DEF Listing
    <3>2. PICK n \in V2Keys(args) : n = v2refs[i].name
      BY <3>1
    <3>3. V2Entry(args)[n].hash # None <=> n \in K
      BY <1>0, <1>1, <1>5, BothKeysV2
    <3>4. i \in positions <=> V2Entry(args)[n].hash # None
      BY <2>1, <2>2, <3>1, <3>2
    <3> QED
      BY <3>2, <3>3, <3>4
  <2>4. a = Picked(v2refs, positions)
    BY <1>7, <2>1 DEF WithoutUnborn
  <2>5. Picked(v2refs, positions) \in Seq(RefRecs) /\ Listing(Picked(v2refs, positions), K, V2Entry(args))
    <3>1. PICK entry, keys : entry = V2Entry(args) /\ keys = V2Keys(args)
      OBVIOUS
    <3>2. Listing(v2refs, keys, entry) /\ K \subseteq keys
      BY <1>3, <1>6, <3>1
    <3>3. Picked(v2refs, positions) \in Seq(RefRecs) /\ Listing(Picked(v2refs, positions), K, entry)
      BY <1>3, <2>3, <3>2, PickedListed
    <3> QED
      BY <3>1, <3>3
  <2> QED
    BY <2>4, <2>5
<1>9. PICK b : b = Picked(v0refs, {i \in DOMAIN v0refs : RefMatch(args.prefixes, v0refs[i].name)})
  OBVIOUS
<1>10. b \in Seq(RefRecs) /\ Listing(b, K, V0Entry)
  <2>1. PICK positions : positions = {i \in DOMAIN v0refs : RefMatch(args.prefixes, v0refs[i].name)}
    OBVIOUS
  <2>2. DOMAIN v0refs = 1..Len(v0refs)
    BY <1>4
  <2>3. ASSUME NEW i \in 1..Len(v0refs) PROVE i \in positions <=> v0refs[i].name \in K
    <3>1. v0refs[i].name \in ListedKeys
      BY <1>4 DEF Listing
    <3> QED
      BY <1>5, <2>1, <2>2, <3>1 DEF BothKeys
  <2>4. b = Picked(v0refs, positions)
    BY <1>9, <2>1
  <2>5. Picked(v0refs, positions) \in Seq(RefRecs) /\ Listing(Picked(v0refs, positions), K, V0Entry)
    BY <1>4, <1>6, <2>3, PickedListed
  <2> QED
    BY <2>4, <2>5
<1>11. Len(a) = Len(b) /\ \A i \in 1..Len(a) : a[i].name = b[i].name
  <2>1. PICK e : e = V2Entry(args)
    OBVIOUS
  <2>2. PICK f : f = V0Entry
    OBVIOUS
  <2>3. Listing(a, K, e) /\ Listing(b, K, f)
    BY <1>8, <1>10, <2>1, <2>2
  <2> QED
    BY <1>8, <1>10, <2>3, SameNames
<1>12. DOMAIN a = 1..Len(a) /\ DOMAIN b = 1..Len(a)
  BY <1>8, <1>10, <1>11
<1>13. PICK c : c = RefsCached(args)
  OBVIOUS
<1>14. c = [i \in 1..Len(a) |-> Answer(args, b[i])]
  BY <1>9, <1>12, <1>13 DEF RefsCached
<1>15. DOMAIN c = 1..Len(a) /\ \A i \in 1..Len(a) : c[i] = Answer(args, b[i])
  BY <1>14
<1>16. ASSUME NEW i \in 1..Len(a) PROVE Comparable(args, a[i]) = Comparable(args, c[i])
  <2>1. PICK n \in K : n = a[i].name /\ a[i] = V2Entry(args)[n]
    BY <1>8 DEF Listing
  <2>2. b[i] = V0Entry[n]
    <3>1. i \in 1..Len(b) /\ b[i].name = n
      BY <1>11, <2>1
    <3> QED
      BY <1>10, <3>1 DEF Listing
  <2>3. n \in BothKeys(args)
    BY <1>5, <2>1
  <2>4. Comparable(args, V2Entry(args)[n]) = Comparable(args, Answer(args, V0Entry[n]))
    BY <1>0, <1>1, <2>3, EntriesAgree
  <2> QED
    BY <1>15, <2>1, <2>2, <2>4
<1>17. WithoutExtraPeels(a) = [i \in 1..Len(a) |-> Comparable(args, a[i])]
  BY <1>2, <1>12 DEF WithoutExtraPeels, Comparable
<1>18. WithoutExtraPeels(c) = [i \in 1..Len(a) |-> Comparable(args, c[i])]
  BY <1>2, <1>15 DEF WithoutExtraPeels, Comparable
<1> QED
  BY <1>2, <1>7, <1>13, <1>16, <1>17, <1>18

\* The default branch, over both.
LEMMA DefaultBranchAgrees ==
    ASSUME DiscoveryInv, dpc = "done", request = DefaultBranchRequest, HeadSound
    PROVE  DefaultBranchV2 = DefaultBranchV0
<1>0. StoreAtRest /\ PhasesInv /\ FirstInv /\ YieldedInv
  BY DEF DiscoveryInv, SessionsInv
<1>1. opc = "open" /\ looseObjs \subseteq Oids /\ capSymref = HeadCap
  BY <1>0 DEF PhasesInv, FirstInv
<1>2. ~Dumb
  <2>1. request # NoRequest
    BY DEF DefaultBranchRequest, NoRequest
  <2> QED
    BY <1>0, <2>1 DEF PhasesInv
<1>3. capSymref = head.symref
  BY <1>1, <1>2 DEF HeadCap
<1>4. PICK args \in RefsRequests : args = request
  BY <1>0, <1>2 DEF YieldedInv
<1>5. v2refs \in Seq(RefRecs) /\ Listing(v2refs, V2Keys(args), V2Entry(args))
  <2>1. v2refs \in Seq(RefRecs) /\ wire = <<>> /\ Listing(v2refs \o wire, V2Keys(args), V2Entry(args))
    BY <1>0, <1>2, <1>4 DEF YieldedInv
  <2>2. v2refs \o <<>> = v2refs
    BY <2>1
  <2> QED
    BY <2>1, <2>2
<1>6. DOMAIN v2refs = 1..Len(v2refs)
  BY <1>5
<1>7. args.prefixes = {"HEAD"} /\ args.symrefs /\ args.unborn
  BY <1>4 DEF DefaultBranchRequest
<1>8. RefMatch(args.prefixes, HEAD)
  BY <1>7 DEF RefMatch, HasPrefix
<1>9. EmitHead(args) # <<>>
  <2>1. CASE ~head.unborn /\ head.oid # None
    <3>1. PICK r : EmitHead(args) = << r >>
      BY <1>8, <2>1 DEF EmitHead
    <3> QED
      BY <3>1
  <2>2. CASE head.unborn
    <3>1. PICK r : EmitHead(args) = << r >>
      BY <1>7, <1>8, <2>2 DEF EmitHead
    <3> QED
      BY <3>1
  <2> QED
    BY <2>1, <2>2 DEF HeadSound
<1>10. HeadEntry(args).symref = head.symref
  BY <1>7 DEF HeadEntry, Ref
<1>11. \A j \in 1..Len(v2refs) : v2refs[j].name = 0 => v2refs[j].symref = head.symref
  <2>1. V2Entry(args)[0] = HeadEntry(args)
    BY <1>0, <1>1, <1>2, V2EntryFacts
  <2> QED
    BY <1>5, <1>10, <2>1 DEF Listing
<1>12. PICK j \in 1..Len(v2refs) : v2refs[j].name = 0
  <2>1. 0 \in V2Keys(args)
    BY <1>0, <1>1, <1>2, <1>9, V2EntryFacts
  <2> QED
    BY <1>5, <2>1 DEF Listing
<1>13. HeadTargets = {head.symref} \ {None}
  <2>1. {v2refs[i].symref : i \in {k \in DOMAIN v2refs : v2refs[k].name = HEAD}} = {head.symref}
    BY <1>6, <1>11, <1>12 DEF HEAD
  <2> QED
    BY <2>1 DEF HeadTargets
<1>14. CASE head.symref = None
  <2>1. HeadTargets = {}
    BY <1>13, <1>14
  <2> QED
    BY <1>3, <1>14, <2>1 DEF DefaultBranchV2, DefaultBranchV0, CapSymref
<1>15. CASE head.symref # None
  <2>1. HeadTargets = {head.symref}
    BY <1>13, <1>15
  <2>2. (CHOOSE target \in HeadTargets : TRUE) = head.symref
    BY <2>1
  <2> QED
    BY <1>3, <2>1, <2>2 DEF DefaultBranchV2, DefaultBranchV0, CapSymref
<1> QED
  BY <1>14, <1>15

\* The same request gets the same refs over both protocols, and both have the
\* same default branch (refsCached against writeLSRefsResponse).
THEOREM VersionsAgreeHolds == Spec => []VersionsAgree
<1>1. ASSUME DiscoveryInv PROVE VersionsAgree
  BY <1>1, AnswersAgree, DefaultBranchAgrees DEF VersionsAgree, Dumb
<1> QED
  BY <1>1, DiscoveryInvariant, PTL

============================================================================
