------------------------- MODULE TableLookupProofs -------------------------
(***************************************************************************)
(* Proofs about TableLookup: lookups in pack indexes of both versions and  *)
(* in multi-pack indexes, for any objects, offsets, prefixes and damage;   *)
(* the decoders of integers; the walk and the lookup of a reftable.        *)
(*                                                                         *)
(* ReadsInside.  Intact says how the parts of a written file lie, and Near *)
(* what one damaged field can make of it: either the chunk of ids still    *)
(* has room for exactly the ids, or the fan-out still counts them.  A      *)
(* chunk is named where it was written, unless the table names it twice,   *)
(* and then it is refused (ChunkPlace).  So the chunks of an accepted file *)
(* lie in order behind the start of the names, which is not negative, and  *)
(* the count is the number of ids (Accepted); for the other formats it is  *)
(* a count the file has room for.  SafeInv adds that the search stays      *)
(* below the count.                                                        *)
(*                                                                         *)
(* LookupExact.  The place of an id in the table is its rank, the number   *)
(* of smaller ids (Listed), and the fan-out and the table of large offsets *)
(* count ranks as well.  So a file as it was written is accepted, the      *)
(* bucket brackets the rank of an id that is there, the search keeps it    *)
(* between its bounds (ExactInv), and what is read at the place is the     *)
(* object's own.  OffsetAfter finds the next offset any entry has, by      *)
(* induction on the length of the table.                                   *)
(*                                                                         *)
(* VarintExact.  A number being read from the low end has fewer bits than  *)
(* the shift (LowerRead); one being read from the high end lies between    *)
(* two powers of the group given by the bytes used (UpperRead).  So what a *)
(* reader ends with fits exactly as many groups as it read, and a writer   *)
(* would have used no fewer.  Powers of two are known through the number   *)
(* of subsets of a set (PowerSubsets).                                     *)
(*                                                                         *)
(* TableExact.  Before is a total order of keys (BeforeOrder), and a block *)
(* gives back the items it was written from (Holds): decoding a record     *)
(* from the key before it restores its key.  Filed says how a table lies:  *)
(* ref blocks that hold consecutive entries, and above them an index block *)
(* of their last keys, or one of such blocks.  A walk has yielded the      *)
(* entries before its place (WalkAt, RecordsAt).  A lookup keeps the name  *)
(* in sight: whatever block it is at, the entries before those below the   *)
(* block come before the name, and the last one below it does not unless   *)
(* it is the table's last (Aimed).  TableInv joins these.                  *)
(***************************************************************************)
EXTENDS TableLookup, FiniteSetTheorems, WellFoundedInduction, TLAPS

(***************************************************************************)
(* Numbers in order.                                                       *)
(***************************************************************************)
\* A finite set of numbers.
Numbers(S) == S \subseteq Nat /\ IsFiniteSet(S)

\* What it has below a number, and how many.
Below(S, x) == {m \in S : m < x}
RankIn(S, x) == Cardinality(Below(S, x))

LEMMA BelowFinite ==
    ASSUME NEW S, Numbers(S), NEW x
    PROVE  /\ IsFiniteSet(Below(S, x))
           /\ RankIn(S, x) \in Nat
           /\ RankIn(S, x) <= Cardinality(S)
<1>1. Below(S, x) \in SUBSET S
  BY DEF Below
<1> QED
  BY <1>1, FS_Subset, FS_CardinalityType DEF Numbers, RankIn

\* A set with all that comes before a member, and the member, has more.
LEMMA RankBelow ==
    ASSUME NEW S, Numbers(S), NEW x \in S, NEW T, IsFiniteSet(T), Below(S, x) \subseteq T, x \in T
    PROVE  RankIn(S, x) < Cardinality(T)
<1>1. Below(S, x) \in SUBSET T
  OBVIOUS
<1>2. Below(S, x) # T
  BY DEF Below, Numbers
<1>3. RankIn(S, x) <= Cardinality(T) /\ RankIn(S, x) # Cardinality(T)
  BY <1>1, <1>2, FS_Subset DEF RankIn
<1>4. RankIn(S, x) \in Nat /\ Cardinality(T) \in Nat
  BY BelowFinite, FS_CardinalityType
<1> QED
  BY <1>3, <1>4

\* A member counts for every greater number.
LEMMA RankGrows ==
    ASSUME NEW S, Numbers(S)
    PROVE  /\ \A x, y \in Nat : x <= y => RankIn(S, x) <= RankIn(S, y)
           /\ \A x \in S, y \in Nat : x < y => RankIn(S, x) < RankIn(S, y)
           /\ \A x \in S : RankIn(S, x) < Cardinality(S)
<1>s. S \subseteq Nat /\ IsFiniteSet(S)
  BY DEF Numbers
<1>1. ASSUME NEW x \in Nat, NEW y \in Nat, x <= y PROVE RankIn(S, x) <= RankIn(S, y)
  <2>1. ASSUME NEW m \in S, m < x PROVE m < y
    <3>1. m \in Nat
      BY <1>s
    <3> QED
      BY <1>1, <2>1, <3>1
  <2>2. Below(S, x) \in SUBSET Below(S, y)
    BY <2>1 DEF Below
  <2> QED
    BY <2>2, BelowFinite, FS_Subset DEF RankIn
<1>2. ASSUME NEW x \in S, NEW y \in Nat, x < y PROVE RankIn(S, x) < RankIn(S, y)
  <2>1. ASSUME NEW m \in S, m < x PROVE m < y
    <3>1. m \in Nat /\ x \in Nat
      BY <1>s
    <3> QED
      BY <1>2, <2>1, <3>1
  <2>2. Below(S, x) \subseteq Below(S, y) /\ x \in Below(S, y)
    BY <1>2, <2>1 DEF Below
  <2>3. RankIn(S, x) < Cardinality(Below(S, y))
    BY <2>2, BelowFinite, RankBelow
  <2> QED
    BY <2>3 DEF RankIn
<1>3. ASSUME NEW x \in S PROVE RankIn(S, x) < Cardinality(S)
  <2>1. Below(S, x) \subseteq S
    BY DEF Below
  <2> QED
    BY <1>s, <2>1, RankBelow
<1> QED
  BY <1>1, <1>2, <1>3

\* The ranks of the members of a set are the numbers below its size.
LEMMA RankOnto ==
    ASSUME NEW S, Numbers(S), NEW k \in 0..Cardinality(S) - 1
    PROVE  \E x \in S : RankIn(S, x) = k
<1>s. S \subseteq Nat /\ IsFiniteSet(S)
  BY DEF Numbers
<1>c. PICK c \in Nat : c = Cardinality(S)
  BY <1>s, FS_CardinalityType
<1>1. PICK f : f = [x \in S |-> RankIn(S, x)]
  OBVIOUS
<1>2. \A x \in S : RankIn(S, x) \in 0..c - 1
  BY <1>c, BelowFinite, RankGrows
<1>3. f \in [S -> 0..c - 1]
  BY <1>1, <1>2
<1>4. \A x, y \in S : f[x] = f[y] => x = y
  <2>1. ASSUME NEW x \in S, NEW y \in S, x # y PROVE RankIn(S, x) # RankIn(S, y)
    <3>1. x \in Nat /\ y \in Nat /\ RankIn(S, x) \in Nat /\ RankIn(S, y) \in Nat
      BY <1>s, BelowFinite
    <3>2. x < y \/ y < x
      BY <2>1, <3>1
    <3>3. RankIn(S, x) < RankIn(S, y) \/ RankIn(S, y) < RankIn(S, x)
      BY <3>1, <3>2, RankGrows
    <3> QED
      BY <3>1, <3>3
  <2> QED
    BY <1>1, <2>1
<1>5. f \in Injection(S, 0..c - 1)
  BY <1>3, <1>4 DEF Injection, IsInjective
<1>6. IsFiniteSet(0..c - 1) /\ Cardinality(0..c - 1) = c
  BY FS_Interval
<1>7. f \in Surjection(S, 0..c - 1)
  BY <1>c, <1>5, <1>6, FS_Injection
<1>8. \E x \in S : f[x] = k
  BY <1>c, <1>7 DEF Surjection
<1> QED
  BY <1>1, <1>8

\* Ascending lists a set of numbers in order, each at the place of its rank.
Listed(q, S) ==
    /\ q \in Seq(S) /\ Len(q) = Cardinality(S) /\ DOMAIN q = 1..Cardinality(S)
    /\ \A i \in 1..Cardinality(S) : q[i] \in S /\ RankIn(S, q[i]) = i - 1
    /\ \A i, j \in 1..Cardinality(S) : i < j => q[i] < q[j]
    /\ \A x \in S : RankIn(S, x) + 1 \in 1..Cardinality(S) /\ q[RankIn(S, x) + 1] = x

LEMMA AscendingListed ==
    ASSUME NEW S, Numbers(S)
    PROVE  Listed(Ascending(S), S)
<1>s. S \subseteq Nat /\ IsFiniteSet(S)
  BY DEF Numbers
<1>c. PICK c \in Nat : c = Cardinality(S)
  BY <1>s, FS_CardinalityType
<1>q. PICK q : q = Ascending(S)
  OBVIOUS
<1>1. q = [i \in 1..c |-> CHOOSE n \in S : RankIn(S, n) = i - 1]
  BY <1>c, <1>q DEF Ascending, RankIn, Below
<1>2. ASSUME NEW i \in 1..c PROVE q[i] \in S /\ RankIn(S, q[i]) = i - 1
  <2>1. i - 1 \in 0..Cardinality(S) - 1
    BY <1>c
  <2>2. \E n \in S : RankIn(S, n) = i - 1
    BY <2>1, RankOnto
  <2>3. q[i] = CHOOSE n \in S : RankIn(S, n) = i - 1
    BY <1>1
  <2> QED
    BY <2>2, <2>3
<1>3. q \in [1..c -> S]
  BY <1>1, <1>2
<1>4. q \in Seq(S) /\ Len(q) = c /\ DOMAIN q = 1..c
  BY <1>3
<1>5. ASSUME NEW i \in 1..c, NEW j \in 1..c, i < j PROVE q[i] < q[j]
  <2>1. q[i] \in Nat /\ q[j] \in Nat /\ RankIn(S, q[i]) = i - 1 /\ RankIn(S, q[j]) = j - 1
    BY <1>s, <1>2
  <2>2. q[j] <= q[i] => RankIn(S, q[j]) <= RankIn(S, q[i])
    BY <2>1, RankGrows
  <2> QED
    BY <1>5, <2>1, <2>2
<1>6. ASSUME NEW x \in S PROVE RankIn(S, x) + 1 \in 1..c /\ q[RankIn(S, x) + 1] = x
  <2>1. PICK i \in 1..c : i = RankIn(S, x) + 1
    BY <1>c, BelowFinite, RankGrows
  <2>2. q[i] \in S /\ RankIn(S, q[i]) = i - 1
    BY <1>2
  <2>3. RankIn(S, x) \in Nat
    BY BelowFinite
  <2>4. RankIn(S, q[i]) = RankIn(S, x)
    BY <2>1, <2>2, <2>3
  <2>5. x \in Nat /\ q[i] \in Nat
    BY <1>s, <2>2
  <2>6. ~(x < q[i]) /\ ~(q[i] < x)
    BY <2>2, <2>3, <2>4, <2>5, RankGrows
  <2> QED
    BY <2>1, <2>5, <2>6
<1> QED
  BY <1>c, <1>q, <1>2, <1>4, <1>5, <1>6 DEF Listed
(***************************************************************************)
(* Where the chunks of a multi-pack index begin.                           *)
(***************************************************************************)
\* The sum of the first numbers of a list of five.
Total(f, n) ==
    IF n = 0 THEN 0 ELSE IF n = 1 THEN f[1] ELSE IF n = 2 THEN f[1] + f[2]
    ELSE IF n = 3 THEN f[1] + f[2] + f[3] ELSE IF n = 4 THEN f[1] + f[2] + f[3] + f[4]
    ELSE f[1] + f[2] + f[3] + f[4] + f[5]

\* g satisfies the recursive definition in Sum.
IsSum(g, f, n) == g = [i \in 0..n |-> IF i = 0 THEN 0 ELSE g[i - 1] + f[i]]

LEMMA SumFacts ==
    ASSUME NEW f, f[1] \in Nat, f[2] \in Nat, f[3] \in Nat, f[4] \in Nat, f[5] \in Nat, NEW n \in 0..5
    PROVE  Sum(f, n) = Total(f, n)
<1>1. \E g : IsSum(g, f, n)
  <2>1. PICK g : g = [i \in 0..n |-> Total(f, i)]
    OBVIOUS
  <2>2. ASSUME NEW i \in 0..n PROVE g[i] = IF i = 0 THEN 0 ELSE g[i - 1] + f[i]
    <3>1. CASE i = 0
      BY <2>1, <3>1 DEF Total
    <3>2. CASE i \in 1..5
      <4>1. i - 1 \in 0..n
        BY <3>2
      <4>2. g[i] = Total(f, i) /\ g[i - 1] = Total(f, i - 1)
        BY <2>1, <4>1
      <4>3. Total(f, i) = Total(f, i - 1) + f[i]
        BY <3>2 DEF Total
      <4> QED
        BY <3>2, <4>2, <4>3
    <3> QED
      BY <3>1, <3>2
  <2>3. g = [i \in 0..n |-> IF i = 0 THEN 0 ELSE g[i - 1] + f[i]]
    BY <2>1, <2>2
  <2> QED
    BY <2>3, Zenon DEF IsSum
<1> DEFINE upTo[i \in 0..n] == IF i = 0 THEN 0 ELSE upTo[i - 1] + f[i]
<1>2. IsSum(upTo, f, n)
  BY <1>1, Zenon DEF upTo, IsSum
<1>3. Sum(f, n) = upTo[n]
  BY Zenon DEF Sum, upTo
<1> HIDE DEF upTo
<1>4. \A i \in 0..n : upTo[i] = IF i = 0 THEN 0 ELSE upTo[i - 1] + f[i]
  BY <1>2 DEF IsSum
<1>5. \A i \in 0..n : i # 0 /\ upTo[i - 1] = Total(f, i - 1) => upTo[i] = Total(f, i)
  BY <1>4 DEF Total
<1>6. upTo[0] = Total(f, 0)
  BY <1>4 DEF Total
<1>7. 1 \in 0..n => upTo[1] = Total(f, 1)
  BY <1>5, <1>6
<1>8. 2 \in 0..n => upTo[2] = Total(f, 2)
  BY <1>5, <1>7
<1>9. 3 \in 0..n => upTo[3] = Total(f, 3)
  BY <1>5, <1>8
<1>10. 4 \in 0..n => upTo[4] = Total(f, 4)
  BY <1>5, <1>9
<1>11. 5 \in 0..n => upTo[5] = Total(f, 5)
  BY <1>5, <1>10
<1> QED
  BY <1>3, <1>6, <1>7, <1>8, <1>9, <1>10, <1>11

(***************************************************************************)
(* A file as it was written.                                               *)
(***************************************************************************)
\* What an index is written from.
Indexable(objs, format, packs) ==
    /\ DOMAIN objs \subseteq Oids /\ Cardinality(DOMAIN objs) <= MaxObjects
    /\ \A o \in DOMAIN objs : objs[o].offset \in Offsets /\ objs[o].pack = o % packs
    /\ \A o, p \in DOMAIN objs : objs[o].offset = objs[p].offset => o = p
    /\ format \in Formats
    /\ packs = IF format = "midx" THEN 2 ELSE 1

OidsOf(objs) == Ascending(DOMAIN objs)
Size(objs) == Cardinality(DOMAIN objs)
OffsetAt(objs, i) == objs[OidsOf(objs)[i]].offset

\* The places of the objects whose offsets go to the table of large ones.
SpilledIn(objs, format) == {i \in 1..Size(objs) : format # "v1" /\ OffsetAt(objs, i) >= Direct}

IndexFields == {"format", "fanout", "oids", "packs", "raws", "large", "crcs", "numPacks", "names",
                "padding", "numChunks", "ids", "starts", "size"}

\* The parts of a file of either kind, but for its chunks and its size.
TablesWritten(x, objs, format, packs) ==
    /\ DOMAIN x = IndexFields /\ x.format = format
    /\ x.fanout = [p \in Prefixes |-> Cardinality({o \in DOMAIN objs : o \div Span <= p})]
    /\ x.oids = OidsOf(objs) /\ x.crcs = OidsOf(objs)
    /\ x.packs = [i \in 1..Size(objs) |-> objs[OidsOf(objs)[i]].pack]
    /\ x.numPacks = packs /\ x.names = [i \in 1..packs |-> i]

OffsetsWritten(x, objs, format) ==
    LET spilled == SpilledIn(objs, format) IN
    /\ Len(x.large) = Cardinality(spilled)
    /\ \A i \in 1..Size(objs) :
          /\ i \notin spilled => x.raws[i] = OffsetAt(objs, i)
          /\ i \in spilled =>
                /\ x.raws[i] = Direct + RankIn(spilled, i)
                /\ x.large[RankIn(spilled, i) + 1] = OffsetAt(objs, i)

LayoutWritten(x, objs, format, packs) ==
    LET lens == ChunkLens(Size(objs), packs, x.large) IN
    /\ x.ids = IF format = "midx" THEN Chunks(x.large) ELSE <<>>
    /\ x.numChunks = Len(x.ids) - 1
    /\ x.starts = [i \in 1..Len(x.ids) |-> TableEnd(Len(x.ids) - 1) + Sum(lens, i - 1)]
    /\ x.size = Ends[format]
                    + IF format = "midx" THEN TableEnd(Len(x.ids) - 1) + Sum(lens, 5)
                      ELSE Cardinality(Prefixes)
                            + IF format = "v1" THEN Size(objs) * (HashUnits + 1)
                              ELSE Size(objs) * (HashUnits + 2) + Len(x.large) * 2

LEMMA IndexableFacts ==
    ASSUME NEW objs, NEW format, NEW packs, Indexable(objs, format, packs)
    PROVE  /\ Numbers(DOMAIN objs)
           /\ Size(objs) \in Nat
           /\ Listed(OidsOf(objs), DOMAIN objs)
           /\ Len(OidsOf(objs)) = Size(objs)
           /\ Numbers(SpilledIn(objs, format))
<1>1. DOMAIN objs \in SUBSET (0..MaxOid)
  BY DEF Indexable, Oids
<1>2. MaxOid \in Int /\ 0 \in Int
  BY OidsAssumption
<1>3. IsFiniteSet(0..MaxOid)
  BY <1>2, FS_Interval
<1>4. IsFiniteSet(DOMAIN objs)
  BY <1>1, <1>3, FS_Subset
<1>5. Numbers(DOMAIN objs)
  BY <1>1, <1>4 DEF Numbers
<1>6. Size(objs) \in Nat
  BY <1>4, FS_CardinalityType DEF Size
<1>7. Listed(OidsOf(objs), DOMAIN objs)
  BY <1>5, AscendingListed DEF OidsOf
<1>8. Len(OidsOf(objs)) = Size(objs)
  BY <1>7 DEF Listed, Size
<1>9. Numbers(SpilledIn(objs, format))
  <2>1. SpilledIn(objs, format) \in SUBSET (1..Size(objs))
    BY DEF SpilledIn
  <2>2. IsFiniteSet(1..Size(objs))
    BY <1>6, FS_Interval
  <2>3. IsFiniteSet(SpilledIn(objs, format))
    BY <2>1, <2>2, FS_Subset
  <2> QED
    BY <1>6, <2>1, <2>3 DEF Numbers
<1> QED
  BY <1>5, <1>6, <1>7, <1>8, <1>9

\* WriteIndex writes these.
LEMMA IndexParts ==
    ASSUME NEW objs, NEW format, NEW packs, NEW padding, Indexable(objs, format, packs),
           NEW x, x = WriteIndex(format, objs, packs, padding)
    PROVE  /\ TablesWritten(x, objs, format, packs)
           /\ OffsetsWritten(x, objs, format)
           /\ LayoutWritten(x, objs, format, packs)
           /\ x.padding = padding
<1> DEFINE oids == Ascending(DOMAIN objs)
           n == Len(oids)
           offset == [i \in 1..n |-> objs[oids[i]].offset]
           spilled == {i \in 1..n : format # "v1" /\ offset[i] >= Direct}
           slot == [i \in 1..n |-> Cardinality({j \in spilled : j < i})]
           large == [k \in 1..Cardinality(spilled) |-> offset[CHOOSE i \in spilled : slot[i] = k - 1]]
           lens == ChunkLens(n, packs, large)
           ids == IF format = "midx" THEN Chunks(large) ELSE <<>>
           size == Ends[format]
                    + IF format = "midx" THEN TableEnd(Len(ids) - 1) + Sum(lens, 5)
                      ELSE Cardinality(Prefixes)
                            + IF format = "v1" THEN n * (HashUnits + 1)
                              ELSE n * (HashUnits + 2) + Len(large) * 2
<1>1. x = [format |-> format,
        fanout |-> [p \in Prefixes |-> Cardinality({o \in DOMAIN objs : o \div Span <= p})],
        oids |-> oids,
        packs |-> [i \in 1..n |-> objs[oids[i]].pack],
        raws |-> [i \in 1..n |-> IF i \in spilled THEN Direct + slot[i] ELSE offset[i]],
        large |-> large,
        crcs |-> oids,
        numPacks |-> packs, names |-> [i \in 1..packs |-> i], padding |-> padding,
        numChunks |-> Len(ids) - 1, ids |-> ids,
        starts |-> [i \in 1..Len(ids) |-> TableEnd(Len(ids) - 1) + Sum(lens, i - 1)],
        size |-> size]
  BY Zenon DEF WriteIndex
<1>2. oids = OidsOf(objs) /\ n = Size(objs) /\ n \in Nat
  BY IndexableFacts DEF OidsOf
<1>3. \A i \in 1..n : offset[i] = OffsetAt(objs, i)
  BY <1>2 DEF OffsetAt
<1> HIDE DEF oids, n
<1>4. spilled = SpilledIn(objs, format)
  BY <1>2, <1>3 DEF SpilledIn
<1> HIDE DEF offset
<1>5. \A i \in 1..n : slot[i] = RankIn(spilled, i)
  BY DEF RankIn, Below
<1> HIDE DEF spilled, slot
<1>6. PICK c \in Nat : c = Cardinality(spilled)
  BY <1>4, IndexableFacts, FS_CardinalityType DEF Numbers
<1>7. Len(large) = c
  BY <1>6
<1>8. ASSUME NEW i \in spilled
      PROVE  i \in 1..n /\ RankIn(spilled, i) + 1 \in 1..c /\ large[RankIn(spilled, i) + 1] = offset[i]
  <2>1. i \in 1..n
    BY <1>2, <1>4 DEF SpilledIn
  <2>2. PICK k \in 1..c : k = RankIn(spilled, i) + 1
    <3>1. Numbers(spilled)
      BY <1>4, IndexableFacts
    <3>2. RankIn(spilled, i) \in Nat /\ RankIn(spilled, i) < c
      BY <1>6, <3>1, BelowFinite, RankGrows
    <3> QED
      BY <3>2
  <2>3. slot[i] = k - 1
    <3>1. RankIn(spilled, i) \in Nat
      BY <1>4, IndexableFacts, BelowFinite
    <3> QED
      BY <1>5, <2>1, <2>2, <3>1
  <2>4. PICK j : j = CHOOSE m \in spilled : slot[m] = k - 1
    OBVIOUS
  <2>5. j \in spilled /\ slot[j] = k - 1
    BY <2>3, <2>4
  <2>6. j = i
    <3>1. j \in 1..n /\ i \in Nat /\ j \in Nat
      BY <1>2, <1>4, <2>1, <2>5 DEF SpilledIn
    <3>2. RankIn(spilled, j) = k - 1 /\ RankIn(spilled, i) = k - 1
      BY <1>5, <2>1, <2>3, <2>5, <3>1
    <3>3. ~(i < j) /\ ~(j < i)
      <4>1. Numbers(spilled)
        BY <1>4, IndexableFacts
      <4>2. ~(k - 1 < k - 1)
        BY <2>2
      <4>3. i < j => RankIn(spilled, i) < RankIn(spilled, j)
        BY <3>1, <4>1, RankGrows
      <4>4. j < i => RankIn(spilled, j) < RankIn(spilled, i)
        BY <2>5, <3>1, <4>1, RankGrows
      <4> QED
        BY <3>2, <4>2, <4>3, <4>4
    <3> QED
      BY <3>1, <3>3
  <2>7. large[k] = offset[CHOOSE m \in spilled : slot[m] = k - 1]
    BY <1>6
  <2>8. large[k] = offset[j]
    BY <2>4, <2>7
  <2> QED
    BY <2>1, <2>2, <2>6, <2>8
<1> HIDE DEF large, size
<1>9. x.large = large /\ x.ids = ids
  BY <1>1
<1>10. TablesWritten(x, objs, format, packs)
  BY <1>1, <1>2 DEF TablesWritten, IndexFields
<1>11. OffsetsWritten(x, objs, format)
  <2>1. ASSUME NEW i \in 1..n
        PROVE  x.raws[i] = IF i \in spilled THEN Direct + RankIn(spilled, i) ELSE OffsetAt(objs, i)
    BY <1>1, <1>3, <1>5
  <2>2. \A i \in spilled : x.large[RankIn(spilled, i) + 1] = OffsetAt(objs, i)
    BY <1>3, <1>8, <1>9
  <2>3. Len(x.large) = Cardinality(spilled)
    BY <1>6, <1>7, <1>9
  <2> QED
    BY <1>2, <1>4, <2>1, <2>2, <2>3 DEF OffsetsWritten
<1>12. LayoutWritten(x, objs, format, packs)
  <2>1. /\ x.starts = [i \in 1..Len(x.ids) |-> TableEnd(Len(x.ids) - 1) + Sum(lens, i - 1)]
        /\ x.numChunks = Len(x.ids) - 1
    BY <1>1, <1>9
  <2>2. x.size = size
    BY <1>1
  <2>3. lens = ChunkLens(Size(objs), packs, x.large)
    BY <1>2, <1>9
  <2> QED
    BY <1>2, <1>9, <2>1, <2>2, <2>3, Zenon DEF LayoutWritten, size
<1> QED
  BY <1>1, <1>10, <1>11, <1>12

(***************************************************************************)
(* A written file and what damage leaves of it.                            *)
(***************************************************************************)
\* One sequence behind the other.
Joined(w, s, t, C) ==
    /\ w \in Seq(C) /\ Len(w) = Len(s) + Len(t)
    /\ \A i \in 1..Len(s) : w[i] = s[i]
    /\ \A i \in 1..Len(t) : w[Len(s) + i] = t[i]

LEMMA ConcatJoined ==
    ASSUME NEW C, NEW s \in Seq(C), NEW t \in Seq(C)
    PROVE  Joined(s \o t, s, t, C)
  BY DEF Joined

\* The chunks of a multi-pack index.
ChunkIds(ids, large) ==
    /\ Len(ids) = IF large = <<>> THEN 5 ELSE 6
    /\ DOMAIN ids = 1..Len(ids)
    /\ ids[1] = "PNAM" /\ ids[2] = "OIDF" /\ ids[3] = "OIDL" /\ ids[4] = "OOFF"
    /\ large = <<>> => ids[5] = "zero"
    /\ large # <<>> => ids[5] = "LOFF" /\ ids[6] = "zero"

LEMMA ChunksFacts ==
    ASSUME NEW large, NEW ids, ids = Chunks(large)
    PROVE  ChunkIds(ids, large)
<1>1. PICK s : s = <<"PNAM", "OIDF", "OIDL", "OOFF">>
  OBVIOUS
<1>2. PICK t : t = IF large = <<>> THEN << "zero" >> ELSE << "LOFF", "zero" >>
  OBVIOUS
<1>3. PICK C : C = {"PNAM", "OIDF", "OIDL", "OOFF", "LOFF", "zero"}
  OBVIOUS
<1>4. s \in Seq(C) /\ Len(s) = 4
  BY <1>1, <1>3
<1>5. ids = s \o t
  BY <1>1, <1>2, Zenon DEF Chunks, Required
<1>6. ASSUME NEW k \in {1, 2}, t \in Seq(C), Len(t) = k
      PROVE  /\ Len(ids) = 4 + k /\ DOMAIN ids = 1..4 + k
             /\ ids[1] = "PNAM" /\ ids[2] = "OIDF" /\ ids[3] = "OIDL" /\ ids[4] = "OOFF"
             /\ \A i \in 1..k : ids[4 + i] = t[i]
  <2>1. Joined(ids, s, t, C)
    BY <1>4, <1>5, <1>6, ConcatJoined
  <2>2. /\ ids \in Seq(C) /\ Len(ids) = 4 + k
        /\ \A i \in 1..4 : ids[i] = s[i]
        /\ \A i \in 1..k : ids[4 + i] = t[i]
    BY <1>4, <1>6, <2>1 DEF Joined
  <2>3. ids[1] = s[1] /\ ids[2] = s[2] /\ ids[3] = s[3] /\ ids[4] = s[4]
    BY <2>2
  <2> QED
    BY <1>1, <2>2, <2>3
<1>7. CASE large = <<>>
  <2>1. t = << "zero" >>
    BY <1>2, <1>7
  <2>2. t \in Seq(C) /\ Len(t) = 1 /\ t[1] = "zero"
    BY <1>3, <2>1
  <2>3. /\ Len(ids) = 5 /\ DOMAIN ids = 1..5 /\ ids[5] = "zero"
        /\ ids[1] = "PNAM" /\ ids[2] = "OIDF" /\ ids[3] = "OIDL" /\ ids[4] = "OOFF"
    BY <1>6, <2>2
  <2> QED
    BY <1>7, <2>3, Zenon DEF ChunkIds
<1>8. CASE large # <<>>
  <2>1. t = << "LOFF", "zero" >>
    BY <1>2, <1>8
  <2>2. t \in Seq(C) /\ Len(t) = 2 /\ t[1] = "LOFF" /\ t[2] = "zero"
    BY <1>3, <2>1
  <2>3. /\ Len(ids) = 6 /\ DOMAIN ids = 1..6 /\ ids[5] = "LOFF" /\ ids[6] = "zero"
        /\ ids[1] = "PNAM" /\ ids[2] = "OIDF" /\ ids[3] = "OIDL" /\ ids[4] = "OOFF"
    BY <1>6, <2>2
  <2> QED
    BY <1>8, <2>3, Zenon DEF ChunkIds
<1> QED
  BY <1>7, <1>8

\* The fan-out counts objects.
LEMMA FanoutFacts ==
    ASSUME NEW objs, Numbers(DOMAIN objs), NEW p
    PROVE  /\ Cardinality({o \in DOMAIN objs : o \div Span <= p}) \in Nat
           /\ Cardinality({o \in DOMAIN objs : o \div Span <= p}) <= Size(objs)
<1>1. {o \in DOMAIN objs : o \div Span <= p} \in SUBSET DOMAIN objs
  OBVIOUS
<1> QED
  BY <1>1, FS_Subset, FS_CardinalityType DEF Numbers, Size

LEMMA PrefixesFacts ==
    /\ Cardinality(Prefixes) \in Nat
    /\ MaxOid \div Span \in Prefixes
    /\ \A o \in Oids : o \div Span \in Prefixes /\ (o \div Span # 0 => o \div Span - 1 \in Prefixes)
<1>1. MaxOid \div Span \in Nat
  BY OidsAssumption
<1>2. IsFiniteSet(Prefixes)
  BY <1>1, FS_Interval DEF Prefixes
<1>3. ASSUME NEW o \in Oids PROVE o \div Span \in Nat /\ o \div Span <= MaxOid \div Span
  BY OidsAssumption DEF Oids
<1> QED
  BY <1>1, <1>2, <1>3, FS_CardinalityType DEF Prefixes

LensAre(lens, n, packs, large) ==
    /\ \A k \in 0..5 : Sum(lens, k) = Total(lens, k)
    /\ lens[1] = packs /\ lens[2] = Cardinality(Prefixes) /\ lens[3] = n * HashUnits
    /\ lens[4] = n * 2 /\ lens[5] = Len(large) * 2

LEMMA LensFacts ==
    ASSUME NEW n \in Nat, NEW packs \in Nat, NEW large, Len(large) \in Nat,
           NEW lens, lens = ChunkLens(n, packs, large)
    PROVE  LensAre(lens, n, packs, large)
<1>1. lens[1] = packs /\ lens[2] = Cardinality(Prefixes) /\ lens[3] = n * HashUnits
      /\ lens[4] = n * 2 /\ lens[5] = Len(large) * 2
  BY DEF ChunkLens
<1>2. lens[1] \in Nat /\ lens[2] \in Nat /\ lens[3] \in Nat /\ lens[4] \in Nat /\ lens[5] \in Nat
  BY <1>1, PrefixesFacts DEF HashUnits
<1>3. \A k \in 0..5 : Sum(lens, k) = Total(lens, k)
  BY <1>2, SumFacts
<1> QED
  BY <1>1, <1>3 DEF LensAre

PacksOf(format) == IF format = "midx" THEN 2 ELSE 1

Written(x, objs) ==
    /\ Indexable(objs, x.format, PacksOf(x.format))
    /\ TablesWritten(x, objs, x.format, PacksOf(x.format))
    /\ OffsetsWritten(x, objs, x.format)
    /\ LayoutWritten(x, objs, x.format, PacksOf(x.format))
    /\ x.padding \in 0..1

\* Where a start in the chunk table points.
At(x, i) == AsInt64(x.starts[i])

\* The chunk table of a written file, b being where it ends.
StartsAt(x, b, n, c) ==
    /\ x.numChunks = Len(x.ids) - 1 /\ b = TableEnd(x.numChunks) /\ b \in {18, 21}
    /\ DOMAIN x.starts = 1..Len(x.ids)
    /\ At(x, 1) = b /\ At(x, 2) = b + 2 /\ At(x, 3) = b + 2 + c /\ At(x, 4) = b + 2 + c + n * 5
    /\ At(x, 5) = b + 2 + c + n * 5 + n * 2
    /\ x.large # <<>> => At(x, 6) = b + 2 + c + n * 5 + n * 2 + Len(x.large) * 2
    /\ x.size = 5 + (b + 2 + c + n * 5 + n * 2 + Len(x.large) * 2)

SizesAre(x, n, c, large) ==
    /\ x.numPacks = PacksOf(x.format)
    /\ x.format = "v1" => x.size = 10 + (c + n * 6)
    /\ x.format = "v2" => x.size = 12 + (c + (n * 7 + Len(large) * 2))

\* A word that is not too large is read as it is.
LEMMA SmallWord ==
    ASSUME NEW w \in Nat, w <= MaxOffset
    PROVE  AsInt64(w) = w
  BY DEF AsInt64

LEMMA WrittenSizes ==
    ASSUME NEW objs, NEW x, Written(x, objs), NEW n \in Nat, n = Size(objs),
           NEW c \in Nat, c = Cardinality(Prefixes), NEW large, large = x.large
    PROVE  /\ Len(large) \in Nat /\ x.numPacks = PacksOf(x.format)
           /\ SizesAre(x, n, c, large)
           /\ x.format = "midx" => x.ids = Chunks(large) /\ \E b \in {18, 21} : StartsAt(x, b, n, c)
<1>1. PICK m \in Nat : m = Len(large) /\ m <= n
  <2>1. PICK spilled : spilled = SpilledIn(objs, x.format)
    OBVIOUS
  <2>2. Numbers(spilled) /\ Len(large) = Cardinality(spilled)
    BY <2>1, IndexableFacts DEF Written, OffsetsWritten
  <2>3. spilled \in SUBSET (1..n)
    BY <2>1 DEF SpilledIn
  <2>4. IsFiniteSet(1..n) /\ Cardinality(1..n) = n
    BY FS_Interval
  <2>5. Cardinality(spilled) <= n /\ Cardinality(spilled) \in Nat
    BY <2>2, <2>3, <2>4, FS_Subset, FS_CardinalityType DEF Numbers
  <2> QED
    BY <2>2, <2>5
<1>2. x.numPacks = PacksOf(x.format) /\ PacksOf(x.format) \in Nat
  BY DEF Written, TablesWritten, PacksOf
<1>3. PICK p \in Nat : p = PacksOf(x.format)
  BY <1>2
<1>4. PICK lens : lens = ChunkLens(n, p, large)
  OBVIOUS
<1>5. /\ lens[1] = p /\ lens[2] = c /\ lens[3] = n * 5 /\ lens[4] = n * 2 /\ lens[5] = m * 2
  <2>1. LensAre(lens, n, p, large)
    BY <1>1, <1>4, LensFacts
  <2> QED
    BY <1>1, <2>1 DEF LensAre, HashUnits
<1>6. \A k \in 0..5 : Sum(lens, k) = Total(lens, k)
  <2>1. LensAre(lens, n, p, large)
    BY <1>1, <1>4, LensFacts
  <2> QED
    BY <2>1 DEF LensAre
<1>7. /\ Sum(lens, 0) = 0 /\ Sum(lens, 1) = p /\ Sum(lens, 2) = p + c
      /\ Sum(lens, 3) = p + c + n * 5 /\ Sum(lens, 4) = p + c + n * 5 + n * 2
      /\ Sum(lens, 5) = p + c + n * 5 + n * 2 + m * 2
  BY <1>5, <1>6 DEF Total
<1>8. /\ x.ids = IF x.format = "midx" THEN Chunks(large) ELSE <<>>
      /\ x.numChunks = Len(x.ids) - 1
      /\ x.starts = [i \in 1..Len(x.ids) |-> TableEnd(Len(x.ids) - 1) + Sum(lens, i - 1)]
      /\ x.size = Ends[x.format]
                    + IF x.format = "midx" THEN TableEnd(Len(x.ids) - 1) + Sum(lens, 5)
                      ELSE c + IF x.format = "v1" THEN n * (HashUnits + 1)
                               ELSE n * (HashUnits + 2) + Len(large) * 2
  BY <1>3, <1>4, Zenon DEF Written, LayoutWritten
<1>9. x.format = "v1" => x.size = 10 + (c + n * 6)
  BY <1>8 DEF Ends, HashUnits
<1>10. x.format = "v2" => x.size = 12 + (c + (n * 7 + Len(large) * 2))
  BY <1>1, <1>8 DEF Ends, HashUnits
<1>11. ASSUME x.format = "midx"
       PROVE  x.ids = Chunks(large) /\ \E b \in {18, 21} : StartsAt(x, b, n, c)
  <2>1. x.ids = Chunks(large) /\ p = 2
    BY <1>3, <1>8, <1>11 DEF PacksOf
  <2>2. PICK ids : ids = x.ids
    OBVIOUS
  <2>3. Len(ids) = IF large = <<>> THEN 5 ELSE 6
    <3>1. ChunkIds(ids, large)
      BY <2>1, <2>2, ChunksFacts
    <3> QED
      BY <3>1 DEF ChunkIds
  <2>4. PICK l \in Nat : l = Len(x.ids) /\ l = IF large = <<>> THEN 5 ELSE 6
    BY <2>2, <2>3
  <2>5. PICK b \in {18, 21} : b = TableEnd(l - 1)
    BY <2>4 DEF TableEnd
  <2>6. x.numChunks = l - 1 /\ x.starts = [i \in 1..l |-> b + Sum(lens, i - 1)]
        /\ x.size = 5 + (b + Sum(lens, 5))
    BY <1>8, <1>11, <2>4, <2>5 DEF Ends, HashUnits
  <2>7. /\ 1 \in 1..l /\ 2 \in 1..l /\ 3 \in 1..l /\ 4 \in 1..l /\ 5 \in 1..l
        /\ large # <<>> => 6 \in 1..l
    BY <2>4
  <2>8. /\ x.starts[1] = b + Sum(lens, 0) /\ x.starts[2] = b + Sum(lens, 1)
        /\ x.starts[3] = b + Sum(lens, 2) /\ x.starts[4] = b + Sum(lens, 3)
        /\ x.starts[5] = b + Sum(lens, 4)
        /\ large # <<>> => x.starts[6] = b + Sum(lens, 5)
    BY <2>6, <2>7
  <2>9. PICK e \in Nat : e = n * 5
    OBVIOUS
  <2>10. PICK f \in Nat : f = n * 2
    OBVIOUS
  <2>11. PICK g \in Nat : g = m * 2
    OBVIOUS
  <2>12. b + 2 + c + e + f + g <= MaxOffset
    <3>1. n <= MaxObjects
      BY DEF Written, Indexable, Size
    <3>2. PICK k \in Nat : k = MaxObjects /\ MaxOffset \in Nat
      BY OidsAssumption, OffsetsAssumption
    <3>3. 21 + 2 + c + k * 9 <= MaxOffset
      BY <3>2, FieldsAssumption DEF TableEnd, HashUnits
    <3>4. m <= k /\ n <= k
      BY <1>1, <3>1, <3>2
    <3>5. e + f + g <= k * 9
      BY <2>9, <2>10, <2>11, <3>4
    <3>6. b \in Nat /\ b <= 21
      OBVIOUS
    <3> QED
      BY <3>2, <3>3, <3>5, <3>6
  <2>13. PICK top \in Nat : top = b + 2 + c + e + f + g
    OBVIOUS
  <2>14. \A w \in Nat : w <= top => AsInt64(w) = w
    <3>1. top <= MaxOffset /\ MaxOffset \in Nat
      BY <2>12, <2>13, OffsetsAssumption
    <3>2. ASSUME NEW w \in Nat, w <= top PROVE w <= MaxOffset
      BY <3>1, <3>2
    <3> QED
      BY <3>2, SmallWord
  <2>15. /\ x.starts[1] = b /\ x.starts[2] = b + 2 /\ x.starts[3] = b + 2 + c
         /\ x.starts[4] = b + 2 + c + e /\ x.starts[5] = b + 2 + c + e + f
         /\ large # <<>> => x.starts[6] = b + 2 + c + e + f + g
    <3>1. /\ b + Sum(lens, 0) = b /\ b + Sum(lens, 1) = b + 2 /\ b + Sum(lens, 2) = b + 2 + c
          /\ b + Sum(lens, 3) = b + 2 + c + e /\ b + Sum(lens, 4) = b + 2 + c + e + f
          /\ b + Sum(lens, 5) = b + 2 + c + e + f + g
      BY <1>7, <2>1, <2>9, <2>10, <2>11
    <3> QED
      BY <2>8, <3>1, Zenon
  <2>16. /\ At(x, 1) = b /\ At(x, 2) = b + 2 /\ At(x, 3) = b + 2 + c /\ At(x, 4) = b + 2 + c + e
         /\ At(x, 5) = b + 2 + c + e + f
         /\ large # <<>> => At(x, 6) = b + 2 + c + e + f + g
    <3>1. /\ AsInt64(b) = b /\ AsInt64(b + 2) = b + 2 /\ AsInt64(b + 2 + c) = b + 2 + c
          /\ AsInt64(b + 2 + c + e) = b + 2 + c + e
          /\ AsInt64(b + 2 + c + e + f) = b + 2 + c + e + f
          /\ AsInt64(b + 2 + c + e + f + g) = b + 2 + c + e + f + g
      BY <2>13, <2>14
    <3> QED
      BY <2>15, <3>1, Zenon DEF At
  <2>17. x.size = 5 + (b + 2 + c + e + f + g)
    <3>1. b + Sum(lens, 5) = b + 2 + c + e + f + g
      BY <1>7, <2>1, <2>9, <2>10, <2>11
    <3> QED
      BY <2>6, <3>1
  <2>18. DOMAIN x.starts = 1..Len(x.ids) /\ b = TableEnd(x.numChunks) /\ x.numChunks = Len(x.ids) - 1
    BY <2>4, <2>5, <2>6
  <2>19. StartsAt(x, b, n, c)
    BY <1>1, <2>9, <2>10, <2>11, <2>16, <2>17, <2>18, Zenon DEF StartsAt
  <2> QED
    BY <2>1, <2>19
<1> QED
  BY <1>1, <1>2, <1>9, <1>10, <1>11 DEF SizesAre


\* The shape of a file, which damage does not change.
Shaped(x) ==
    /\ DOMAIN x = IndexFields /\ x.format \in Formats
    /\ x.fanout \in [Prefixes -> Nat] /\ x.size \in Int
    /\ Len(x.oids) \in Nat /\ DOMAIN x.oids = 1..Len(x.oids)
    /\ x.format = "midx" =>
          /\ DOMAIN x.packs = 1..Len(x.oids) /\ 1..5 \subseteq DOMAIN x.starts
          /\ \A i \in 1..5 : At(x, i) \in Int
          /\ Len(x.ids) \in Nat /\ DOMAIN x.ids = 1..Len(x.ids)

\* The chunk of ids has room for exactly the ids.
IdsFit(x) == At(x, 4) - At(x, 3) = Len(x.oids) * 5

\* A chunk that is where it was written, and nowhere else.
Placed(x, id, r) ==
    /\ r \in DOMAIN x.ids /\ x.ids[r] = id
    /\ \A i \in DOMAIN x.ids : x.ids[i] = id => i = r

Intact(x) ==
    /\ Shaped(x)
    /\ x.format = "midx" =>
          /\ Placed(x, "PNAM", 1) /\ Placed(x, "OIDL", 3) /\ Placed(x, "OOFF", 4)
          /\ x.numChunks \in Nat /\ x.numChunks >= 4
          /\ IdsFit(x) /\ Last(x.fanout) = Len(x.oids)

\* A chunk that is elsewhere only in a table that names it twice.
Held(x, id, r) ==
    \A i \in DOMAIN x.ids :
        x.ids[i] = id => i = r \/ (x.ids[r] = id /\ x.numChunks \in Nat /\ x.numChunks >= 4)

Near(x) ==
    /\ Shaped(x)
    /\ x.format = "midx" =>
          /\ Held(x, "PNAM", 1) /\ Held(x, "OIDL", 3) /\ Held(x, "OOFF", 4)
          /\ x.numChunks \in Nat
          /\ IdsFit(x) \/ Last(x.fanout) = Len(x.oids)

LEMMA IntactNear ==
    ASSUME NEW x, Intact(x)
    PROVE  Near(x)
  BY DEF Intact, Near, Placed, Held

\* What LookupInit and IndexWritten write.
LEMMA WrittenFrom ==
    ASSUME NEW objs, NEW format, NEW packs, NEW padding \in 0..1, Indexable(objs, format, packs),
           NEW x, x = WriteIndex(format, objs, packs, padding)
    PROVE  Written(x, objs)
<1>1. /\ TablesWritten(x, objs, format, packs) /\ OffsetsWritten(x, objs, format)
      /\ LayoutWritten(x, objs, format, packs) /\ x.padding = padding
  BY IndexParts
<1>2. x.format = format /\ packs = PacksOf(format)
  BY <1>1 DEF TablesWritten, Indexable, PacksOf
<1> QED
  BY <1>1, <1>2 DEF Written

LEMMA WrittenInit == LookupInit => Written(index, objects)
<1> SUFFICES ASSUME LookupInit PROVE Written(index, objects)
  OBVIOUS
<1>1. PICK x, objs : x = index /\ objs = objects /\ objs = <<>>
  BY DEF LookupInit
<1>2. DOMAIN objs = {} /\ Cardinality(DOMAIN objs) <= MaxObjects
  <2>1. DOMAIN objs = {}
    BY <1>1
  <2> QED
    BY <2>1, FS_EmptySet, OidsAssumption
<1>3. Indexable(objs, "v1", 1)
  BY <1>2 DEF Indexable, Formats
<1>4. x = WriteIndex("v1", objs, 1, 0)
  BY <1>1 DEF LookupInit
<1> QED
  BY <1>1, <1>3, <1>4, WrittenFrom

LEMMA WrittenNext == IndexWritten => Written(index', objects')
<1> SUFFICES ASSUME IndexWritten PROVE Written(index', objects')
  OBVIOUS
<1>1. PICK set \in SUBSET Oids :
         /\ Cardinality(set) <= MaxObjects
         /\ \E offset \in {f \in [set -> Offsets] : \A a, b \in set : f[a] = f[b] => a = b},
               format \in Formats, padding \in 0..1 :
               LET packs == IF format = "midx" THEN 2 ELSE 1 IN
               /\ objects' = [o \in set |-> [offset |-> offset[o], pack |-> o % packs]]
               /\ index' = WriteIndex(format, objects', packs, padding)
  BY DEF IndexWritten
<1>2. PICK offset \in [set -> Offsets], format \in Formats, padding \in 0..1, packs \in 1..2 :
          /\ \A a, b \in set : offset[a] = offset[b] => a = b
          /\ packs = IF format = "midx" THEN 2 ELSE 1
          /\ objects' = [o \in set |-> [offset |-> offset[o], pack |-> o % packs]]
          /\ index' = WriteIndex(format, objects', packs, padding)
  BY <1>1
<1>3. PICK objs : objs = [o \in set |-> [offset |-> offset[o], pack |-> o % packs]]
  OBVIOUS
<1>4. DOMAIN objs = set /\ \A o \in set : objs[o].offset = offset[o] /\ objs[o].pack = o % packs
  BY <1>3
<1>5. \A o \in set : offset[o] \in Offsets
  OBVIOUS
<1>6. Indexable(objs, format, packs)
  BY <1>1, <1>2, <1>4, <1>5 DEF Indexable
<1>7. objs = objects' /\ index' = WriteIndex(format, objs, packs, padding)
  BY <1>2, <1>3
<1> QED
  BY <1>6, <1>7, WrittenFrom

LEMMA WrittenMonotonic ==
    ASSUME NEW objs, NEW x, Written(x, objs)
    PROVE  Monotonic(x.fanout) /\ Last(x.fanout) = Size(objs)
<1>1. Numbers(DOMAIN objs) /\ DOMAIN objs \subseteq Oids
  BY IndexableFacts DEF Written, Indexable
<1>2. x.fanout = [p \in Prefixes |-> Cardinality({o \in DOMAIN objs : o \div Span <= p})]
  BY DEF Written, TablesWritten
<1>3. ASSUME NEW p \in Prefixes, NEW q \in Prefixes, p < q PROVE x.fanout[p] <= x.fanout[q]
  <2>1. PICK A : A = {o \in DOMAIN objs : o \div Span <= p}
    OBVIOUS
  <2>2. PICK B : B = {o \in DOMAIN objs : o \div Span <= q}
    OBVIOUS
  <2>3. A \in SUBSET B
    <3>1. ASSUME NEW o \in DOMAIN objs, o \div Span <= p PROVE o \div Span <= q
      <4>1. o \div Span \in Nat /\ p \in Int /\ q \in Int
        BY <1>1, PrefixesFacts, OidsAssumption DEF Prefixes
      <4> QED
        BY <1>3, <3>1, <4>1
    <3> QED
      BY <2>1, <2>2, <3>1
  <2>4. B \in SUBSET DOMAIN objs
    BY <2>2
  <2>5. IsFiniteSet(B)
    BY <1>1, <2>4, FS_Subset DEF Numbers
  <2>6. Cardinality(A) <= Cardinality(B)
    BY <2>3, <2>5, FS_Subset
  <2> QED
    BY <1>2, <2>1, <2>2, <2>6
<1>4. Last(x.fanout) = Size(objs)
  <2>1. {o \in DOMAIN objs : o \div Span <= MaxOid \div Span} = DOMAIN objs
    BY <1>1, OidsAssumption DEF Oids
  <2> QED
    BY <1>2, <2>1, PrefixesFacts DEF Last, Size
<1> QED
  BY <1>3, <1>4 DEF Monotonic

\* The table of a written file names each of its chunks once.
LEMMA ChunksPlaced ==
    ASSUME NEW x, NEW large, x.ids = Chunks(large)
    PROVE  /\ Placed(x, "PNAM", 1) /\ Placed(x, "OIDF", 2) /\ Placed(x, "OIDL", 3) /\ Placed(x, "OOFF", 4)
           /\ large # <<>> => Placed(x, "LOFF", 5)
<1>1. PICK ids : ids = x.ids
  OBVIOUS
<1>2. ChunkIds(ids, large)
  BY <1>1, ChunksFacts
<1>3. PICK l \in {5, 6} : l = Len(ids) /\ (large # <<>> => l = 6)
  BY <1>2 DEF ChunkIds
<1>4. /\ DOMAIN ids = 1..l
      /\ ids[1] = "PNAM" /\ ids[2] = "OIDF" /\ ids[3] = "OIDL" /\ ids[4] = "OOFF"
      /\ ids[5] = "LOFF" \/ ids[5] = "zero"
      /\ l = 6 => ids[6] = "zero"
      /\ large # <<>> => ids[5] = "LOFF"
  BY <1>2, <1>3 DEF ChunkIds
<1>5. \A i \in DOMAIN ids : i = 1 \/ i = 2 \/ i = 3 \/ i = 4 \/ i = 5 \/ (i = 6 /\ l = 6)
  BY <1>3, <1>4
<1>6. /\ 1 \in DOMAIN ids /\ 2 \in DOMAIN ids /\ 3 \in DOMAIN ids /\ 4 \in DOMAIN ids
      /\ 5 \in DOMAIN ids
  BY <1>3, <1>4
<1> QED
  BY <1>1, <1>4, <1>5, <1>6 DEF Placed

LEMMA WrittenIntact ==
    ASSUME NEW objs, NEW x, Written(x, objs)
    PROVE  Intact(x)
<1>1. PICK n \in Nat : n = Size(objs)
  BY IndexableFacts DEF Written
<1>2. PICK c \in Nat : c = Cardinality(Prefixes)
  BY PrefixesFacts
<1>3. PICK large : large = x.large
  OBVIOUS
<1>4. /\ Len(large) \in Nat /\ SizesAre(x, n, c, large)
      /\ x.format = "midx" => x.ids = Chunks(large) /\ \E b \in {18, 21} : StartsAt(x, b, n, c)
  BY <1>1, <1>2, <1>3, WrittenSizes
<1>5. PICK m \in Nat : m = Len(large)
  BY <1>4
<1>6. /\ Numbers(DOMAIN objs) /\ Listed(x.oids, DOMAIN objs) /\ Len(x.oids) = n /\ DOMAIN x.oids = 1..n
  <2>1. x.oids = OidsOf(objs)
    BY DEF Written, TablesWritten
  <2>2. Numbers(DOMAIN objs) /\ Listed(x.oids, DOMAIN objs) /\ Len(x.oids) = n
    BY <1>1, <2>1, IndexableFacts DEF Written
  <2> QED
    BY <1>1, <2>2 DEF Listed, Size
<1>7. x.fanout \in [Prefixes -> Nat]
  <2>1. \A p \in Prefixes : Cardinality({o \in DOMAIN objs : o \div Span <= p}) \in Nat
    BY <1>6, FanoutFacts
  <2> QED
    BY <2>1 DEF Written, TablesWritten
<1>8. x.format \in Formats /\ DOMAIN x = IndexFields
  BY DEF Written, Indexable, TablesWritten
<1>9. x.format = "midx" => DOMAIN x.packs = 1..n
  BY <1>1 DEF Written, TablesWritten
<1>10. CASE x.format # "midx"
  <2>1. x.size \in Int
    <3>1. x.format = "v1" \/ x.format = "v2"
      BY <1>8, <1>10 DEF Formats
    <3>2. CASE x.format = "v1"
      BY <1>4, <3>2 DEF SizesAre
    <3>3. CASE x.format = "v2"
      BY <1>4, <1>5, <3>3 DEF SizesAre
    <3> QED
      BY <3>1, <3>2, <3>3
  <2> QED
    BY <1>6, <1>7, <1>8, <1>10, <2>1 DEF Intact, Shaped
<1>11. CASE x.format = "midx"
  <2>1. PICK b \in {18, 21} : StartsAt(x, b, n, c)
    BY <1>4, <1>11
  <2>2. PICK ids : ids = x.ids
    OBVIOUS
  <2>3. ChunkIds(ids, large)
    BY <1>4, <1>11, <2>2, ChunksFacts
  <2>4. PICK l \in {5, 6} : l = Len(x.ids)
    BY <2>2, <2>3 DEF ChunkIds
  <2>5. x.numChunks \in Nat /\ x.numChunks >= 4 /\ 1..5 \subseteq DOMAIN x.starts
    <3>1. x.numChunks = l - 1 /\ DOMAIN x.starts = 1..l
      BY <2>1, <2>4, Zenon DEF StartsAt
    <3> QED
      BY <3>1
  <2>6. PICK e \in Nat : e = n * 5
    OBVIOUS
  <2>7. /\ At(x, 1) \in Int /\ At(x, 2) \in Int /\ At(x, 3) \in Int /\ At(x, 4) \in Int /\ At(x, 5) \in Int
        /\ At(x, 4) - At(x, 3) = e
    <3>1. /\ At(x, 1) = b /\ At(x, 2) = b + 2 /\ At(x, 3) = b + 2 + c /\ At(x, 4) = b + 2 + c + e
          /\ At(x, 5) = b + 2 + c + e + n * 2
      BY <2>1, <2>6, Zenon DEF StartsAt
    <3>2. b \in Nat /\ n * 2 \in Nat
      OBVIOUS
    <3> QED
      BY <3>1, <3>2
  <2>8. x.size \in Int
    <3>1. x.size = 5 + (b + 2 + c + e + n * 2 + m * 2)
      BY <1>3, <1>5, <2>1, <2>6, Zenon DEF StartsAt
    <3>2. b \in Nat /\ n * 2 \in Nat /\ m * 2 \in Nat
      OBVIOUS
    <3> QED
      BY <3>1, <3>2
  <2>9. \A i \in 1..5 : At(x, i) \in Int
    <3>1. \A i \in 1..5 : i = 1 \/ i = 2 \/ i = 3 \/ i = 4 \/ i = 5
      OBVIOUS
    <3> QED
      BY <2>7, <3>1
  <2>10. Shaped(x)
    <3>1. Len(x.ids) \in Nat /\ DOMAIN x.ids = 1..Len(x.ids)
      BY <2>2, <2>3, <2>4 DEF ChunkIds
    <3> QED
      BY <1>6, <1>7, <1>8, <1>9, <2>5, <2>8, <2>9, <3>1 DEF Shaped
  <2>11. IdsFit(x) /\ Last(x.fanout) = Len(x.oids)
    BY <1>1, <1>6, <2>6, <2>7, WrittenMonotonic DEF IdsFit
  <2> QED
    BY <1>4, <1>11, <2>5, <2>10, <2>11, ChunksPlaced DEF Intact
<1> QED
  BY <1>10, <1>11
\* The part of a file that damage changes.
LEMMA HurtFields ==
    ASSUME DOMAIN index = IndexFields, NEW field \in IndexFields, NEW value, Hurt(field, value)
    PROVE  /\ DOMAIN index' = IndexFields
           /\ \A f \in IndexFields : f # field => index'[f] = index[f]
           /\ index'[field] = value
  BY DEF Hurt

\* An index that was accepted holds the ids its count promises, and in a
\* multi-pack index the chunks that go with them.
ChunksInside ==
    /\ \E s \in Nat : s = ChunkStart("OIDL") /\ s + count * 5 <= index.size
    /\ \E s \in Nat : s = ChunkStart("OOFF") /\ s + count * 2 <= index.size

Accepted ==
    IF index.format = "midx"
    THEN /\ count = Len(index.oids) /\ ChunksInside
         /\ \A i \in DOMAIN index.packs : index.packs[i] < index.numPacks
    ELSE Need(index.format, count) <= index.size

Asked == {"search", "crc search"}
Hit == {"offset", "crc"}

SafeInv ==
    /\ damaged \in BOOLEAN
    /\ Near(index) /\ (~damaged => Intact(index))
    /\ count \in Nat
    /\ ipc \in {"open"} \cup Asked \cup Hit => Accepted
    /\ ipc \in Asked => lo \in Nat /\ hi \in Nat /\ hi <= count
    /\ ipc \in Hit => lo \in Nat /\ lo < count

\* More ids need more room.
LEMMA NeedGrows ==
    ASSUME NEW format \in Formats, NEW m \in Nat, NEW n \in Nat, m <= n
    PROVE  Need(format, m) \in Int /\ Need(format, n) \in Int /\ Need(format, m) <= Need(format, n)
<1>1. PICK e \in Nat : e = Ends[format]
  BY DEF Formats, Ends, HashUnits
<1>2. PICK c \in Nat : c = Cardinality(Prefixes)
  BY PrefixesFacts
<1>3. \A k \in Nat : Need(format, k) = e + c + k * (5 + IF format = "v1" THEN 1 ELSE 2)
  BY <1>1, <1>2 DEF Need, HashUnits
<1>4. CASE format = "v1"
  <2>1. \A k \in Nat : Need(format, k) = e + c + k * 6
    BY <1>3, <1>4
  <2> QED
    BY <2>1
<1>5. CASE format # "v1"
  <2>1. \A k \in Nat : Need(format, k) = e + c + k * 7
    BY <1>3, <1>5
  <2> QED
    BY <2>1
<1> QED
  BY <1>4, <1>5

\* What the invariant says of the reads.
LEMMA SafeReads == SafeInv => ReadsInside
<1> SUFFICES ASSUME SafeInv PROVE ReadsInside
  OBVIOUS
<1>1. index.format \in Formats /\ index.size \in Int /\ count \in Nat
      /\ (index.format = "midx" => DOMAIN index.packs = 1..Len(index.oids))
  BY DEF SafeInv, Near, Shaped
<1>2. ASSUME Searching, lo < hi
      PROVE  IF index.format = "midx" THEN Inside(ChunkStart("OIDL") + Mid * HashUnits, HashUnits)
             ELSE Need(index.format, Mid + 1) <= index.size
  <2>1. lo \in Nat /\ hi \in Nat /\ hi <= count /\ Accepted
    BY <1>2 DEF SafeInv, Searching, Asked
  <2>2. Mid \in Nat /\ Mid < count /\ Mid + 1 \in Nat /\ Mid + 1 <= count
    BY <1>1, <1>2, <2>1 DEF Mid
  <2>3. CASE index.format = "midx"
    <3>1. PICK s \in Nat : s = ChunkStart("OIDL") /\ s + count * 5 <= index.size
      BY <2>1, <2>3, Zenon DEF Accepted, ChunksInside
    <3>2. 0 <= s + Mid * 5 /\ s + Mid * 5 + 5 <= index.size
      BY <1>1, <2>2, <3>1
    <3> QED
      BY <2>3, <3>1, <3>2 DEF Inside, HashUnits
  <2>4. CASE index.format # "midx"
    <3>1. Need(index.format, count) <= index.size
      BY <2>1, <2>4 DEF Accepted
    <3>2. /\ Need(index.format, Mid + 1) \in Int /\ Need(index.format, count) \in Int
          /\ Need(index.format, Mid + 1) <= Need(index.format, count)
      BY <1>1, <2>2, NeedGrows
    <3> QED
      BY <1>1, <2>4, <3>1, <3>2
  <2> QED
    BY <2>3, <2>4
<1>3. ASSUME ipc \in {"offset", "crc"}
      PROVE  IF index.format = "midx"
             THEN Inside(ChunkStart("OOFF") + lo * 2, 2) /\ index.packs[lo + 1] < index.numPacks
             ELSE Need(index.format, count) <= index.size /\ lo < count
  <2>1. lo \in Nat /\ lo < count /\ Accepted
    BY <1>3 DEF SafeInv, Hit
  <2>2. CASE index.format = "midx"
    <3>1. count = Len(index.oids) /\ \A i \in DOMAIN index.packs : index.packs[i] < index.numPacks
      BY <2>1, <2>2, Zenon DEF Accepted
    <3>2. index.packs[lo + 1] < index.numPacks
      BY <1>1, <2>1, <2>2, <3>1
    <3>3. PICK s \in Nat : s = ChunkStart("OOFF") /\ s + count * 2 <= index.size
      BY <2>1, <2>2, Zenon DEF Accepted, ChunksInside
    <3>4. 0 <= s + lo * 2 /\ s + lo * 2 + 2 <= index.size
      BY <1>1, <2>1, <3>3
    <3> QED
      BY <2>2, <3>2, <3>3, <3>4 DEF Inside
  <2>3. CASE index.format # "midx"
    BY <2>1, <2>3 DEF Accepted
  <2> QED
    BY <2>2, <2>3
<1> QED
  BY <1>2, <1>3 DEF ReadsInside

\* Damage in one field leaves a file that is nearly as it was written.
LEMMA HurtNear ==
    ASSUME Intact(index), NEW field \in IndexFields, field # "format", NEW value, Hurt(field, value),
           field = "fanout" => value \in [Prefixes -> Nat],
           field = "size" => value \in Int,
           field = "oids" => Len(value) = Len(index.oids) /\ DOMAIN value = DOMAIN index.oids,
           field = "packs" => DOMAIN value = DOMAIN index.packs,
           field = "numChunks" => value \in Nat,
           field = "ids" => /\ Len(value) = Len(index.ids)
                            /\ \E i, id : value = [index.ids EXCEPT ![i] = id],
           field = "starts" => /\ DOMAIN value = DOMAIN index.starts
                               /\ \A i \in 1..5 : AsInt64(value[i]) \in Int
    PROVE  Near(index')
<1>x. PICK x : x = index'
  OBVIOUS
<1>1. /\ DOMAIN x = IndexFields
      /\ \A f \in IndexFields : f # field => x[f] = index[f]
      /\ x[field] = value
  <2>1. DOMAIN index = IndexFields
    BY DEF Intact, Shaped
  <2> QED
    BY <1>x, <2>1, HurtFields
<1>2. x.format = index.format
  BY <1>1 DEF IndexFields
<1>3. x.fanout = index.fanout \/ (field = "fanout" /\ x.fanout = value)
  BY <1>1 DEF IndexFields
<1>4. x.oids = index.oids \/ (field = "oids" /\ x.oids = value)
  BY <1>1 DEF IndexFields
<1>5. x.packs = index.packs \/ (field = "packs" /\ x.packs = value)
  BY <1>1 DEF IndexFields
<1>6. (x.ids = index.ids) \/ (field = "ids" /\ x.ids = value)
  BY <1>1 DEF IndexFields
<1>7. x.starts = index.starts \/ (field = "starts" /\ x.starts = value)
  BY <1>1 DEF IndexFields
<1>8. x.size = index.size \/ (field = "size" /\ x.size = value)
  BY <1>1 DEF IndexFields
<1>9. x.numChunks = index.numChunks \/ (field = "numChunks" /\ x.numChunks = value)
  BY <1>1 DEF IndexFields
<1>10. /\ x.format \in Formats /\ x.fanout \in [Prefixes -> Nat] /\ x.size \in Int
       /\ Len(x.oids) = Len(index.oids) /\ Len(x.oids) \in Nat /\ DOMAIN x.oids = 1..Len(x.oids)
  BY <1>2, <1>3, <1>4, <1>8 DEF Intact, Shaped
<1>11. ASSUME x.format = "midx"
       PROVE  /\ DOMAIN x.packs = 1..Len(x.oids) /\ 1..5 \subseteq DOMAIN x.starts
              /\ \A i \in 1..5 : At(x, i) \in Int
              /\ Len(x.ids) \in Nat /\ DOMAIN x.ids = 1..Len(x.ids)
  <2>1. /\ DOMAIN index.packs = 1..Len(index.oids) /\ 1..5 \subseteq DOMAIN index.starts
        /\ \A i \in 1..5 : AsInt64(index.starts[i]) \in Int
        /\ Len(index.ids) \in Nat /\ DOMAIN index.ids = 1..Len(index.ids)
    BY <1>2, <1>11 DEF Intact, Shaped, At
  <2>2. DOMAIN x.packs = 1..Len(x.oids)
    BY <1>5, <1>10, <2>1
  <2>3. 1..5 \subseteq DOMAIN x.starts /\ \A i \in 1..5 : AsInt64(x.starts[i]) \in Int
    BY <1>7, <2>1, Zenon
  <2>4. Len(x.ids) \in Nat /\ DOMAIN x.ids = 1..Len(x.ids)
    <3>1. Len(x.ids) = Len(index.ids) /\ DOMAIN x.ids = DOMAIN index.ids
      BY <1>6
    <3> QED
      BY <2>1, <3>1
  <2> QED
    BY <2>2, <2>3, <2>4, Zenon DEF At
<1>12. Shaped(x)
  BY <1>1, <1>10, <1>11 DEF Shaped
<1>13. ASSUME x.format = "midx", NEW id, NEW r, Placed(index, id, r)
       PROVE  Held(x, id, r)
  <2>1. index.numChunks \in Nat /\ index.numChunks >= 4
    BY <1>2, <1>13 DEF Intact
  <2>2. CASE x.ids = index.ids
    BY <1>13, <2>2, Zenon DEF Placed, Held
  <2>3. CASE field = "ids" /\ x.ids = value
    <3>1. PICK i, other : x.ids = [index.ids EXCEPT ![i] = other]
      BY <2>3
    <3>2. x.numChunks = index.numChunks
      BY <1>9, <2>3
    <3>3. DOMAIN x.ids = DOMAIN index.ids
      BY <3>1
    <3>4. ASSUME NEW j \in DOMAIN x.ids, x.ids[j] = id, j # r PROVE x.ids[r] = id
      <4>1. index.ids[j] # id /\ j \in DOMAIN index.ids
        BY <1>13, <3>3, <3>4, Zenon DEF Placed
      <4>2. j = i
        BY <3>1, <3>4, <4>1
      <4>3. r \in DOMAIN index.ids /\ index.ids[r] = id
        BY <1>13, Zenon DEF Placed
      <4> QED
        BY <3>1, <3>4, <4>2, <4>3
    <3> QED
      BY <2>1, <3>2, <3>4 DEF Held
  <2> QED
    BY <1>6, <2>2, <2>3
<1>14. ASSUME x.format = "midx"
       PROVE  /\ x.numChunks \in Nat
              /\ IdsFit(x) \/ Last(x.fanout) = Len(x.oids)
  <2>1. index.numChunks \in Nat /\ IdsFit(index) /\ Last(index.fanout) = Len(index.oids)
    BY <1>2, <1>14 DEF Intact
  <2>2. CASE field = "starts"
    <3>1. x.fanout = index.fanout
      BY <1>3, <2>2
    <3>2. x.numChunks = index.numChunks
      BY <1>9, <2>2
    <3> QED
      BY <1>10, <2>1, <3>1, <3>2
  <2>3. CASE field # "starts"
    <3>1. x.starts = index.starts
      BY <1>7, <2>3
    <3>2. IdsFit(x)
      BY <1>10, <2>1, <3>1 DEF IdsFit, At
    <3>3. x.numChunks \in Nat
      BY <1>9, <2>1
    <3> QED
      BY <3>2, <3>3
  <2> QED
    BY <2>2, <2>3
<1>15. ASSUME x.format = "midx"
       PROVE  Placed(index, "PNAM", 1) /\ Placed(index, "OIDL", 3) /\ Placed(index, "OOFF", 4)
  BY <1>2, <1>15 DEF Intact
<1> QED
  BY <1>x, <1>12, <1>13, <1>14, <1>15 DEF Near

\* Every kind of damage does.
LEMMA DamagedNear ==
    ASSUME Intact(index), IndexDamaged
    PROVE  Near(index')
<1>f. /\ index.format \in Formats /\ index.fanout \in [Prefixes -> Nat] /\ index.size \in Int
      /\ Len(index.oids) \in Nat /\ DOMAIN index.oids = 1..Len(index.oids)
  BY DEF Intact, Shaped
<1>1. ASSUME NEW p \in Prefixes, NEW n \in FieldValues, HurtAt("fanout", p, n) PROVE Near(index')
  <2>1. [index.fanout EXCEPT ![p] = n] \in [Prefixes -> Nat]
    BY <1>f, FieldsAssumption
  <2> QED
    BY <1>1, <2>1, HurtNear DEF HurtAt, IndexFields
<1>2. ASSUME NEW i \in DOMAIN index.oids, NEW o, HurtAt("oids", i, o) PROVE Near(index')
  <2>1. PICK value : value = [index.oids EXCEPT ![i] = o]
    OBVIOUS
  <2>2. DOMAIN value = DOMAIN index.oids
    BY <2>1
  <2>3. Len(value) = Len(index.oids)
    BY <1>f, <2>1
  <2> QED
    BY <1>2, <2>1, <2>2, <2>3, HurtNear DEF HurtAt, IndexFields
<1>3. ASSUME NEW field \in {"raws", "large", "numPacks", "names"}, NEW value, Hurt(field, value)
      PROVE  Near(index')
  <2>1. /\ field \in IndexFields
        /\ field \notin {"format", "fanout", "size", "oids", "packs", "numChunks", "ids", "starts"}
    BY DEF IndexFields
  <2> QED
    BY <1>3, <2>1, HurtNear
<1>4. ASSUME NEW size \in 0..index.size - 1, Hurt("size", size) PROVE Near(index')
  <2>1. size \in Int
    BY <1>f
  <2> QED
    BY <1>4, <2>1, HurtNear DEF IndexFields
<1>5. ASSUME NEW i, NEW n, HurtAt("packs", i, n) PROVE Near(index')
  <2>1. DOMAIN [index.packs EXCEPT ![i] = n] = DOMAIN index.packs
    OBVIOUS
  <2> QED
    BY <1>5, <2>1, HurtNear DEF HurtAt, IndexFields
<1>6. ASSUME NEW n \in FieldValues, Hurt("numChunks", n) PROVE Near(index')
  <2>1. n \in Nat
    BY FieldsAssumption
  <2> QED
    BY <1>6, <2>1, HurtNear DEF IndexFields
<1>7. ASSUME index.format = "midx", NEW i, NEW id, HurtAt("ids", i, id) PROVE Near(index')
  <2>1. PICK value : value = [index.ids EXCEPT ![i] = id]
    OBVIOUS
  <2>2. \E j, d : value = [index.ids EXCEPT ![j] = d]
    BY <2>1
  <2>3. Len(index.ids) \in Nat /\ DOMAIN index.ids = 1..Len(index.ids)
    BY <1>7 DEF Intact, Shaped
  <2>4. Len(value) = Len(index.ids)
    BY <2>1, <2>3
  <2> QED
    BY <1>7, <2>1, <2>2, <2>4, HurtNear DEF HurtAt, IndexFields
<1>8. ASSUME index.format = "midx", NEW i, NEW w \in WordValues, HurtAt("starts", i, w) PROVE Near(index')
  <2>1. PICK value : value = [index.starts EXCEPT ![i] = w]
    OBVIOUS
  <2>2. 1..5 \subseteq DOMAIN index.starts /\ \A j \in 1..5 : AsInt64(index.starts[j]) \in Int
    BY <1>8 DEF Intact, Shaped, At
  <2>3. DOMAIN value = DOMAIN index.starts
    BY <2>1
  <2>4. AsInt64(w) \in Int
    BY FieldsAssumption, OffsetsAssumption DEF AsInt64
  <2>5. \A j \in DOMAIN index.starts : value[j] = IF j = i THEN w ELSE index.starts[j]
    BY <2>1
  <2>6. \A j \in 1..5 : AsInt64(value[j]) \in Int
    BY <2>2, <2>4, <2>5, Zenon
  <2> QED
    BY <1>8, <2>1, <2>3, <2>6, HurtNear DEF HurtAt, IndexFields
<1>9. CASE \/ \E p \in Prefixes, n \in FieldValues : HurtAt("fanout", p, n)
           \/ \E i \in DOMAIN index.oids, o \in Oids : HurtAt("oids", i, o)
           \/ \E i \in DOMAIN index.raws, n \in FieldValues : HurtAt("raws", i, n)
           \/ \E i \in DOMAIN index.large, w \in WordValues : HurtAt("large", i, w)
           \/ \E size \in 0..index.size - 1 : Hurt("size", size)
  BY <1>1, <1>2, <1>3, <1>4, <1>9, Zenon DEF HurtAt
<1>10. CASE /\ index.format = "midx"
            /\ \/ \E i \in DOMAIN index.packs, n \in FieldValues : HurtAt("packs", i, n)
               \/ \E n \in FieldValues : Hurt("numPacks", n) \/ Hurt("numChunks", n)
               \/ \E n \in 0..3 : \E names \in [1..n -> 0..2] : Hurt("names", names)
               \/ \E i \in DOMAIN index.ids, id \in ChunkNames : HurtAt("ids", i, id)
               \/ \E i \in DOMAIN index.starts, w \in WordValues : HurtAt("starts", i, w)
  BY <1>3, <1>5, <1>6, <1>7, <1>8, <1>10, Zenon
<1> QED
  BY <1>9, <1>10, Zenon DEF IndexDamaged

LEMMA SafeInit == LookupInit => SafeInv
<1> SUFFICES ASSUME LookupInit PROVE SafeInv
  OBVIOUS
<1>1. Intact(index)
  BY WrittenInit, WrittenIntact
<1>2. Near(index)
  BY <1>1, IntactNear
<1> QED
  BY <1>1, <1>2 DEF LookupInit, SafeInv, Asked, Hit

LEMMA SafeIndexWritten == SafeInv /\ IndexWritten => SafeInv'
<1> SUFFICES ASSUME SafeInv, IndexWritten PROVE SafeInv'
  OBVIOUS
<1>1. PICK x : x = index' /\ Intact(x) /\ Near(x)
  BY WrittenNext, WrittenIntact, IntactNear
<1>2. Intact(index)' /\ Near(index)'
  BY <1>1
<1>3. ipc' = "file" /\ damaged' = damaged /\ count' = count
  BY DEF IndexWritten
<1> QED
  BY <1>2, <1>3 DEF SafeInv, Asked, Hit

LEMMA SafeIndexDamaged == SafeInv /\ IndexDamaged => SafeInv'
<1> SUFFICES ASSUME SafeInv, IndexDamaged PROVE SafeInv'
  OBVIOUS
<1>1. ~damaged /\ damaged' = TRUE /\ ipc = "file" /\ ipc' = ipc /\ count' = count
  BY DEF IndexDamaged
<1>2. Near(index)'
  BY <1>1, DamagedNear DEF SafeInv
<1> QED
  BY <1>1, <1>2 DEF SafeInv, Asked, Hit

\* In a chunk table that was accepted a chunk is where it was written.
LEMMA ChunkPlace ==
    ASSUME ChunkTableAccepted, NEW id, NEW r \in DOMAIN Required, id = Required[r], Held(index, id, r),
           DOMAIN index.ids = 1..Len(index.ids), Len(index.ids) \in Nat, index.numChunks \in Nat
    PROVE  PlaceOf(id) = r /\ r \in 1..index.numChunks
<1>k. PICK k \in Nat : k = index.numChunks
  OBVIOUS
<1>r. r \in 1..4
  BY DEF Required
<1>1. /\ k < Len(index.ids)
      /\ \A i, j \in 1..k : index.ids[i] = index.ids[j] => i = j
      /\ \E i \in 1..k : index.ids[i] = id
  BY <1>k DEF ChunkTableAccepted
<1>2. \A i \in 1..k : i \in DOMAIN index.ids
  BY <1>1
<1>3. ASSUME NEW i \in 1..k, index.ids[i] = id PROVE i = r
  <2>1. i = r \/ (index.ids[r] = id /\ k >= 4)
    BY <1>2, <1>3, <1>k DEF Held
  <2>2. ASSUME index.ids[r] = id, k >= 4 PROVE i = r
    <3>1. r \in 1..k
      BY <1>r, <2>2
    <3> QED
      BY <1>1, <1>3, <2>2, <3>1
  <2> QED
    BY <2>1, <2>2
<1>4. PICK i \in 1..k : index.ids[i] = id
  BY <1>1
<1>5. r \in 1..k /\ index.ids[r] = id
  BY <1>3, <1>4
<1>6. (CHOOSE m \in 1..k : index.ids[m] = id) = r
  BY <1>3, <1>5
<1> QED
  BY <1>k, <1>5, <1>6 DEF PlaceOf

\* And the chunks behind it lie behind its start.
LEMMA ChunksAccepted ==
    ASSUME ChunkTableAccepted, Near(index), index.format = "midx", ChunkStart("PNAM") >= 0
    PROVE  \E a \in Nat, b \in Nat, c \in Nat, d \in Nat :
              /\ a = At(index, 3) /\ b = At(index, 4) /\ a = ChunkStart("OIDL") /\ b = ChunkStart("OOFF")
              /\ ChunkLen("OIDL") = b - a /\ c = At(index, 5) /\ ChunkLen("OOFF") = c - b
              /\ a <= b /\ b <= c /\ c <= index.size
<1>1. /\ Len(index.ids) \in Nat /\ DOMAIN index.ids = 1..Len(index.ids) /\ index.size \in Int
      /\ \A i \in 1..5 : At(index, i) \in Int
      /\ Held(index, "PNAM", 1) /\ Held(index, "OIDL", 3) /\ Held(index, "OOFF", 4)
      /\ index.numChunks \in Nat
  BY DEF Near, Shaped
<1>2. /\ 1 \in DOMAIN Required /\ 3 \in DOMAIN Required /\ 4 \in DOMAIN Required
      /\ Required[1] = "PNAM" /\ Required[3] = "OIDL" /\ Required[4] = "OOFF"
  BY DEF Required
<1>3. PlaceOf("PNAM") = 1 /\ PlaceOf("OIDL") = 3 /\ PlaceOf("OOFF") = 4 /\ 4 \in 1..index.numChunks
  <2>1. PlaceOf("PNAM") = 1
    BY <1>1, <1>2, ChunkPlace
  <2>2. PlaceOf("OIDL") = 3
    BY <1>1, <1>2, ChunkPlace
  <2>3. PlaceOf("OOFF") = 4 /\ 4 \in 1..index.numChunks
    BY <1>1, <1>2, ChunkPlace
  <2> QED
    BY <2>1, <2>2, <2>3
<1>4. PICK a1 \in Int, a2 \in Int, a3 \in Int, a4 \in Int, a5 \in Int :
         /\ a1 = At(index, 1) /\ a2 = At(index, 2) /\ a3 = At(index, 3) /\ a4 = At(index, 4)
         /\ a5 = At(index, 5)
  BY <1>1
<1>5. /\ ChunkStart("PNAM") = a1 /\ ChunkStart("OIDL") = a3 /\ ChunkStart("OOFF") = a4
      /\ ChunkLen("OIDL") = a4 - a3 /\ ChunkLen("OOFF") = a5 - a4
  BY <1>3, <1>4 DEF ChunkStart, ChunkLen, Start, At
<1>6. \A i \in 1..index.numChunks : Start(i) <= Start(i + 1) /\ Start(i + 1) <= index.size - Ends.midx
  BY DEF ChunkTableAccepted
<1>7. /\ Start(1) <= Start(1 + 1) /\ Start(2) <= Start(2 + 1) /\ Start(3) <= Start(3 + 1)
      /\ Start(4) <= Start(4 + 1) /\ Start(4 + 1) <= index.size - Ends.midx
  <2>1. 1 \in 1..index.numChunks /\ 2 \in 1..index.numChunks /\ 3 \in 1..index.numChunks
    BY <1>1, <1>3
  <2> QED
    BY <1>3, <1>6, <2>1
<1>8. Start(1) = a1 /\ Start(2) = a2 /\ Start(3) = a3 /\ Start(4) = a4 /\ Start(5) = a5
  BY <1>4 DEF Start, At
<1>9. 1 + 1 = 2 /\ 2 + 1 = 3 /\ 3 + 1 = 4 /\ 4 + 1 = 5 /\ Ends.midx = 5
  BY DEF Ends, HashUnits
<1>10. a1 <= a2 /\ a2 <= a3 /\ a3 <= a4 /\ a4 <= a5 /\ a5 <= index.size - 5
  BY <1>7, <1>8, <1>9
<1>11. 0 <= a3 /\ 0 <= a4 /\ 0 <= a5 /\ a5 <= index.size
  <2>1. a1 >= 0
    BY <1>5, Zenon
  <2>2. PICK z \in Int : z = index.size
    BY <1>1
  <2>3. a1 <= a2 /\ a2 <= a3 /\ a3 <= a4 /\ a4 <= a5 /\ a5 <= z - 5
    BY <1>10, <2>2
  <2>4. 0 <= a3 /\ 0 <= a4 /\ 0 <= a5 /\ a5 <= z
    BY <2>1, <2>3
  <2> QED
    BY <2>2, <2>4
<1>12. a3 \in Nat /\ a4 \in Nat /\ a5 \in Nat
  BY <1>11
<1>13. /\ a3 = At(index, 3) /\ a4 = At(index, 4) /\ a3 = ChunkStart("OIDL") /\ a4 = ChunkStart("OOFF")
       /\ ChunkLen("OIDL") = a4 - a3 /\ a5 = At(index, 5) /\ ChunkLen("OOFF") = a5 - a4
       /\ a3 <= a4 /\ a4 <= a5 /\ a5 <= index.size
  BY <1>4, <1>5, <1>10, <1>11, Zenon
<1> QED
  BY <1>12, <1>13, Zenon

\* What was accepted stays so.
LEMMA AcceptedKept ==
    ASSUME index' = index, count' = count
    PROVE  Accepted' <=> Accepted
<1>1. ChunkStart("OIDL")' = ChunkStart("OIDL") /\ ChunkStart("OOFF")' = ChunkStart("OOFF")
  BY DEF ChunkStart, PlaceOf, Start
<1>2. ChunksInside' <=> ChunksInside
  BY <1>1 DEF ChunksInside
<1> QED
  BY <1>2 DEF Accepted, Need

LEMMA SafeOpenIndex == SafeInv /\ OpenIndex => SafeInv'
<1> SUFFICES ASSUME SafeInv, OpenIndex PROVE SafeInv'
  OBVIOUS
<1>1. index' = index /\ damaged' = damaged /\ count' = Last(index.fanout)
  BY DEF OpenIndex, indexVars
<1>2. Near(index) /\ Shaped(index)
  BY DEF SafeInv, Near
<1>3. count' \in Nat
  BY <1>1, <1>2, PrefixesFacts DEF Shaped, Last
<1>4. ipc' \in {"open", "refused", "panicked"}
  BY DEF OpenIndex, OpenedMidx
<1>5. ASSUME ipc' = "open" PROVE Accepted'
  <2>1. CASE index.format = "midx"
    <3>1. "open" \in OpenedMidx
      BY <1>5, <2>1 DEF OpenIndex
    <3>2. ChunkTableAccepted /\ ~(ChunkStart("PNAM") < 0) /\ FanoutAccepted
      BY <3>1 DEF OpenedMidx
    <3>3. ChunkStart("PNAM") >= 0
      <4>1. ChunkStart("PNAM") \in Int
        <5>1. PlaceOf("PNAM") = 1
          <6>1. /\ Len(index.ids) \in Nat /\ DOMAIN index.ids = 1..Len(index.ids)
                /\ Held(index, "PNAM", 1) /\ index.numChunks \in Nat
            BY <1>2, <2>1 DEF Near, Shaped
          <6>2. 1 \in DOMAIN Required /\ Required[1] = "PNAM"
            BY DEF Required
          <6> QED
            BY <3>2, <6>1, <6>2, ChunkPlace
        <5>2. At(index, 1) \in Int
          BY <1>2, <2>1 DEF Shaped
        <5> QED
          BY <5>1, <5>2 DEF ChunkStart, Start, At
      <4> QED
        BY <3>2, <4>1
    <3>4. PICK a \in Nat, b \in Nat, c \in Nat :
              /\ a = At(index, 3) /\ b = At(index, 4) /\ a = ChunkStart("OIDL") /\ b = ChunkStart("OOFF")
              /\ ChunkLen("OIDL") = b - a /\ ChunkLen("OOFF") = c - b
              /\ a <= b /\ b <= c /\ c <= index.size
      BY <1>2, <2>1, <3>2, <3>3, ChunksAccepted
    <3>5. PICK n \in Nat, m \in Nat : n = Last(index.fanout) /\ n = count' /\ m = Len(index.oids)
      BY <1>1, <1>2, <1>3 DEF Shaped
    <3>6. b - a = n * 5 /\ c - b = n * 2
      BY <3>2, <3>4, <3>5 DEF FanoutAccepted, HashUnits
    <3>7. n = m
      <4>1. b - a = m * 5 \/ n = m
        BY <1>2, <2>1, <3>4, <3>5 DEF Near, IdsFit
      <4> QED
        BY <3>6, <4>1
    <3>8. a + n * 5 <= index.size /\ b + n * 2 <= index.size
      <4>1. index.size \in Int
        BY <1>2 DEF Shaped
      <4> QED
        BY <3>4, <3>6, <4>1
    <3>9. ChunkStart("OIDL")' = a /\ ChunkStart("OOFF")' = b
      BY <1>1, <3>4 DEF ChunkStart, PlaceOf, Start
    <3>10. ChunksInside'
      BY <1>1, <3>5, <3>8, <3>9 DEF ChunksInside
    <3>11. \A j \in DOMAIN index.packs : index.packs[j] < index.numPacks
      BY <3>2 DEF FanoutAccepted
    <3> QED
      BY <1>1, <2>1, <3>5, <3>7, <3>10, <3>11 DEF Accepted
  <2>2. CASE index.format # "midx"
    <3>1. IdxAccepted
      BY <1>5, <2>2 DEF OpenIndex
    <3>2. index.size >= Need(index.format, Last(index.fanout))
      BY <3>1 DEF IdxAccepted
    <3>3. Need(index.format, Last(index.fanout)) <= index.size
      BY <1>1, <1>2, <1>3, <3>2, NeedGrows DEF Shaped
    <3> QED
      BY <1>1, <2>2, <3>3 DEF Accepted, Need
  <2> QED
    BY <2>1, <2>2
<1>6. damaged' \in BOOLEAN /\ Near(index)' /\ (~damaged => Intact(index))'
  BY <1>1 DEF SafeInv
<1> QED
  BY <1>3, <1>4, <1>5, <1>6 DEF SafeInv, Asked, Hit

LEMMA SafeAsk == SafeInv /\ Ask => SafeInv'
<1> SUFFICES ASSUME SafeInv, Ask PROVE SafeInv'
  OBVIOUS
<1>1. index' = index /\ damaged' = damaged /\ count' = count /\ ipc = "open"
  BY DEF Ask, indexVars
<1>2. index.fanout \in [Prefixes -> Nat] /\ Accepted /\ count \in Nat
  BY <1>1 DEF SafeInv, Near, Shaped
<1>3. want' \in Oids /\ lo' = Bucket(want').lo /\ hi' = Bucket(want').hi
  BY DEF Ask
<1>4. lo' \in Nat /\ hi' \in Nat
  <2>1. PICK w \in Oids : w = want'
    BY <1>3
  <2>2. lo' = Bucket(w).lo /\ hi' = Bucket(w).hi
    BY <1>3, <2>1
  <2>3. Bucket(w).hi = index.fanout[w \div Span]
        /\ Bucket(w).lo = IF w \div Span = 0 THEN 0 ELSE index.fanout[w \div Span - 1]
    BY DEF Bucket
  <2> QED
    BY <1>2, <2>2, <2>3, PrefixesFacts
<1>5. ipc' = "answered" \/ (ipc' \in Asked /\ hi' <= count)
  BY DEF Ask, Reply, Asked
<1>6. Accepted'
  BY <1>1, <1>2, AcceptedKept
<1> QED
  BY <1>1, <1>4, <1>5, <1>6 DEF SafeInv, Asked, Hit

LEMMA SafeSearchStep == SafeInv /\ SearchStep => SafeInv'
<1> SUFFICES ASSUME SafeInv, SearchStep PROVE SafeInv'
  OBVIOUS
<1>1. index' = index /\ damaged' = damaged /\ count' = count /\ ipc \in Asked /\ lo < hi
  BY DEF SearchStep, indexVars, Searching, Asked
<1>2. lo \in Nat /\ hi \in Nat /\ hi <= count /\ count \in Nat /\ Accepted
  BY <1>1 DEF SafeInv
<1>3. Mid \in Nat /\ Mid < hi /\ Mid < count
  BY <1>1, <1>2 DEF Mid
<1>4. \/ ipc' \in Hit /\ lo' = Mid /\ hi' = hi
      \/ ipc' = ipc /\ lo' = lo /\ hi' = Mid
      \/ ipc' = ipc /\ lo' = Mid + 1 /\ hi' = hi
  BY <1>1 DEF SearchStep, Hit, Asked
<1>5. Accepted'
  BY <1>1, <1>2, AcceptedKept
<1>6. /\ ipc' \in Asked => lo' \in Nat /\ hi' \in Nat /\ hi' <= count
      /\ ipc' \in Hit => lo' \in Nat /\ lo' < count
  <2>1. CASE ipc' \in Hit /\ lo' = Mid /\ hi' = hi
    <3>1. ipc' \notin Asked
      BY <2>1 DEF Asked, Hit
    <3> QED
      BY <1>3, <2>1, <3>1
  <2>2. CASE ipc' = ipc /\ lo' = lo /\ hi' = Mid
    <3>1. ipc' \notin Hit
      BY <1>1, <2>2 DEF Asked, Hit
    <3>2. Mid <= count
      BY <1>2, <1>3
    <3> QED
      BY <1>2, <1>3, <2>2, <3>1, <3>2
  <2>3. CASE ipc' = ipc /\ lo' = Mid + 1 /\ hi' = hi
    <3>1. ipc' \notin Hit
      BY <1>1, <2>3 DEF Asked, Hit
    <3>2. Mid + 1 \in Nat
      BY <1>3
    <3> QED
      BY <1>2, <2>3, <3>1, <3>2
  <2> QED
    BY <1>4, <2>1, <2>2, <2>3
<1> QED
  BY <1>1, <1>5, <1>6 DEF SafeInv

\* The other steps leave the file, and what is known of it, alone.
LEMMA SafeQuiet ==
    ASSUME SafeInv, UNCHANGED indexVars, count' = count,
           ipc' = "answered" \/ (ipc' = ipc /\ lo' = lo /\ hi' = hi)
    PROVE  SafeInv'
<1>1. index' = index /\ damaged' = damaged
  BY DEF indexVars
<1>2. Accepted' <=> Accepted
  BY <1>1, AcceptedKept
<1> QED
  BY <1>1, <1>2 DEF SafeInv, Asked, Hit

LEMMA SafeStep == SafeInv /\ [ReadersNext]_readerVars => SafeInv'
<1> SUFFICES ASSUME SafeInv, [ReadersNext]_readerVars PROVE SafeInv'
  OBVIOUS
<1>1. CASE IndexWritten
  BY <1>1, SafeIndexWritten
<1>2. CASE IndexDamaged
  BY <1>2, SafeIndexDamaged
<1>3. CASE OpenIndex
  BY <1>3, SafeOpenIndex
<1>4. CASE Ask
  BY <1>4, SafeAsk
<1>5. CASE SearchStep
  BY <1>5, SafeSearchStep
<1>6. CASE SearchEmpty \/ ReadOffset \/ VerifyCRC \/ VerifyCRCMisplaced
  <2>1. ipc' = "answered" /\ UNCHANGED indexVars /\ count' = count
    BY <1>6 DEF SearchEmpty, ReadOffset, VerifyCRC, VerifyCRCMisplaced, Reply
  <2> QED
    BY <2>1, SafeQuiet
<1>7. CASE UNCHANGED lookupVars
  <2>1. UNCHANGED indexVars /\ count' = count /\ ipc' = ipc /\ lo' = lo /\ hi' = hi
    BY <1>7 DEF lookupVars
  <2> QED
    BY <2>1, SafeQuiet
<1>8. IndexWritten \/ LookupNext \/ UNCHANGED lookupVars
  BY DEF ReadersNext, ReadTable, ReadIndex, ReadVarint, Read, readerVars
<1> QED
  BY <1>1, <1>2, <1>3, <1>4, <1>5, <1>6, <1>7, <1>8 DEF LookupNext

\* Whatever the objects, however many, whichever field of a file is damaged and
\* whatever it then holds, and wherever else the file ends, a lookup in a file
\* that was accepted compares ids and takes a record inside the file, and names
\* a pack that the list of names has (parseHeader, parseChunkTable, parseFanout,
\* searchV2, Find).
THEOREM ReadsInsideHolds == ReadersSpec => []ReadsInside
<1>1. ReadersInit => SafeInv
  BY SafeInit DEF ReadersInit
<1>2. SafeInv /\ [ReadersNext]_readerVars => SafeInv'
  BY SafeStep
<1>3. SafeInv => ReadsInside
  BY SafeReads
<1> QED
  BY <1>1, <1>2, <1>3, PTL DEF ReadersSpec

\* A file as it was written is accepted.
LEMMA WrittenChunks ==
    ASSUME Written(index, objects), index.format = "midx"
    PROVE  /\ ChunkTableAccepted
           /\ ChunkStart("PNAM") = TableEnd(index.numChunks) /\ ChunkStart("PNAM") \in Nat
           /\ ChunkLen("OIDF") = Cardinality(Prefixes)
           /\ ChunkLen("OIDL") = Size(objects) * HashUnits
           /\ ChunkLen("OOFF") = Size(objects) * 2
           /\ index.large # <<>> => HasChunk("LOFF") /\ ChunkLen("LOFF") = Len(index.large) * 2
<1>1. PICK n \in Nat : n = Size(objects)
  BY IndexableFacts DEF Written
<1>2. PICK c \in Nat : c = Cardinality(Prefixes)
  BY PrefixesFacts
<1>3. PICK large : large = index.large
  OBVIOUS
<1>4. /\ Len(large) \in Nat /\ index.ids = Chunks(large)
      /\ \E b \in {18, 21} : StartsAt(index, b, n, c)
  BY <1>1, <1>2, <1>3, WrittenSizes
<1>5. PICK b \in {18, 21} : StartsAt(index, b, n, c)
  BY <1>4
<1>6. PICK m \in Nat : m = Len(large)
  BY <1>4
<1>7. PICK ids : ids = index.ids
  OBVIOUS
<1>8. ChunkIds(ids, large)
  BY <1>4, <1>7, ChunksFacts
<1>9. PICK l \in {5, 6} : l = Len(ids) /\ (large # <<>> <=> l = 6)
  BY <1>8 DEF ChunkIds
<1>10. /\ DOMAIN ids = 1..l
       /\ ids[1] = "PNAM" /\ ids[2] = "OIDF" /\ ids[3] = "OIDL" /\ ids[4] = "OOFF"
       /\ l = 5 => ids[5] = "zero"
       /\ l = 6 => ids[5] = "LOFF" /\ ids[6] = "zero"
  BY <1>8, <1>9 DEF ChunkIds
<1>11. PICK k \in {4, 5} : k = l - 1
  OBVIOUS
<1>12. index.numChunks = k /\ b = TableEnd(k)
  <2>1. index.numChunks = l - 1 /\ b = TableEnd(index.numChunks)
    BY <1>5, <1>7, <1>9, Zenon DEF StartsAt
  <2> QED
    BY <1>11, <2>1
<1>13. PICK e \in Nat : e = n * 5
  OBVIOUS
<1>14. PICK f \in Nat : f = n * 2
  OBVIOUS
<1>15. PICK g \in Nat : g = m * 2
  OBVIOUS
<1>16. /\ Start(1) = b /\ Start(2) = b + 2 /\ Start(3) = b + 2 + c /\ Start(4) = b + 2 + c + e
       /\ Start(5) = b + 2 + c + e + f
       /\ l = 6 => Start(6) = b + 2 + c + e + f + g
       /\ index.size = 5 + (b + 2 + c + e + f + g)
  BY <1>3, <1>5, <1>6, <1>9, <1>13, <1>14, <1>15, Zenon DEF StartsAt, Start, At
<1>17. /\ \A i \in 1..k : i = 1 \/ i = 2 \/ i = 3 \/ i = 4 \/ (i = 5 /\ l = 6)
       /\ 1 \in 1..k /\ 2 \in 1..k /\ 3 \in 1..k /\ 4 \in 1..k /\ (l = 6 => 5 \in 1..k)
  BY <1>11
<1>18. \A i \in 1..k : /\ (ids[i] = "PNAM" <=> i = 1) /\ (ids[i] = "OIDF" <=> i = 2)
                       /\ (ids[i] = "OIDL" <=> i = 3) /\ (ids[i] = "OOFF" <=> i = 4)
                       /\ (ids[i] = "LOFF" <=> i = 5) /\ ids[i] # "zero"
                       /\ \A j \in 1..k : ids[i] = ids[j] => i = j
  BY <1>10, <1>17
<1>19. ASSUME NEW id, NEW i \in 1..k, ids[i] = id, \A j \in 1..k : ids[j] = id => j = i
       PROVE  ChunkStart(id) = Start(i) /\ ChunkLen(id) = Start(i + 1) - Start(i)
  <2>1. (CHOOSE j \in 1..index.numChunks : index.ids[j] = id) = i
    BY <1>7, <1>12, <1>19
  <2>2. PlaceOf(id) = i
    BY <2>1 DEF PlaceOf
  <2> QED
    BY <2>2 DEF ChunkStart, ChunkLen
<1>20. ChunkStart("PNAM") = b
  <2>1. ChunkStart("PNAM") = Start(1)
    BY <1>10, <1>17, <1>18, <1>19
  <2> QED
    BY <1>16, <2>1
<1>21. ChunkLen("OIDF") = c
  <2>1. ChunkLen("OIDF") = Start(2 + 1) - Start(2)
    BY <1>10, <1>17, <1>18, <1>19
  <2> QED
    BY <1>16, <2>1
<1>22. ChunkLen("OIDL") = n * HashUnits
  <2>1. ChunkLen("OIDL") = Start(3 + 1) - Start(3)
    BY <1>10, <1>17, <1>18, <1>19
  <2> QED
    BY <1>13, <1>16, <2>1 DEF HashUnits
<1>23. ChunkLen("OOFF") = n * 2
  <2>1. ChunkLen("OOFF") = Start(4 + 1) - Start(4)
    BY <1>10, <1>17, <1>18, <1>19
  <2> QED
    BY <1>14, <1>16, <2>1
<1>24. ASSUME large # <<>> PROVE HasChunk("LOFF") /\ ChunkLen("LOFF") = m * 2
  <2>0. l = 6
    BY <1>9, <1>24, Zenon
  <2>1. 5 \in 1..k /\ ids[5] = "LOFF"
    BY <1>10, <1>17, <2>0
  <2>2. ChunkLen("LOFF") = Start(5 + 1) - Start(5)
    BY <1>18, <1>19, <2>1
  <2>3. HasChunk("LOFF")
    BY <1>7, <1>12, <2>1 DEF HasChunk
  <2>4. Start(5 + 1) - Start(5) = g
    BY <1>16, <2>0
  <2> QED
    BY <1>15, <2>2, <2>3, <2>4
<1>25. ChunkTableAccepted
  <2>1. PICK bodyEnd \in Nat : bodyEnd = index.size - Ends.midx /\ bodyEnd = b + 2 + c + e + f + g
    BY <1>16 DEF Ends, HashUnits
  <2>2. k < Len(index.ids) /\ index.ids[k + 1] = "zero"
    BY <1>7, <1>9, <1>10, <1>11
  <2>3. TableEnd(k) <= bodyEnd
    BY <1>12, <2>1
  <2>5. ASSUME NEW i \in 1..k PROVE Start(i) <= Start(i + 1) /\ Start(i + 1) <= bodyEnd
    <3>1. CASE i = 1
      BY <1>16, <2>1, <3>1
    <3>2. CASE i = 2
      BY <1>16, <2>1, <3>2
    <3>3. CASE i = 3
      BY <1>16, <2>1, <3>3
    <3>4. CASE i = 4
      BY <1>16, <2>1, <3>4
    <3>5. CASE i = 5 /\ l = 6
      BY <1>16, <2>1, <3>5
    <3> QED
      BY <1>17, <3>1, <3>2, <3>3, <3>4, <3>5
  <2>6. \A r \in DOMAIN Required : \E i \in 1..k : ids[i] = Required[r]
    <3>1. \A r \in DOMAIN Required : r \in 1..k /\ ids[r] = Required[r]
      BY <1>10, <1>17 DEF Required
    <3> QED
      BY <3>1
  <2>7. \A i \in 1..k : /\ index.ids[i] # "zero"
                         /\ Start(i) <= Start(i + 1) /\ Start(i + 1) <= bodyEnd
                         /\ \A j \in 1..k : index.ids[i] = index.ids[j] => i = j
    BY <1>7, <1>18, <2>5, Zenon
  <2> QED
    <3>1. /\ index.numChunks < Len(index.ids) /\ index.ids[index.numChunks + 1] = "zero"
          /\ TableEnd(index.numChunks) <= index.size - Ends.midx
      BY <1>7, <1>12, <2>1, <2>2, <2>3, Zenon
    <3>2. \A i \in 1..index.numChunks :
             /\ index.ids[i] # "zero"
             /\ Start(i) <= Start(i + 1) /\ Start(i + 1) <= index.size - Ends.midx
             /\ \A j \in 1..index.numChunks : index.ids[i] = index.ids[j] => i = j
      BY <1>12, <2>1, <2>7, Zenon
    <3>3. \A r \in DOMAIN Required : \E i \in 1..index.numChunks : index.ids[i] = Required[r]
      BY <1>7, <1>12, <2>6, Zenon
    <3> QED
      BY <3>1, <3>2, <3>3, Zenon DEF ChunkTableAccepted
<1>26. TableEnd(index.numChunks) = b /\ b \in Nat
  BY <1>12
<1> QED
  BY <1>1, <1>2, <1>3, <1>6, <1>20, <1>21, <1>22, <1>23, <1>24, <1>25, <1>26

LEMMA WrittenAccepted ==
    ASSUME Written(index, objects)
    PROVE  IF index.format = "midx" THEN OpenedMidx = {"open"} ELSE IdxAccepted
<1>1. Monotonic(index.fanout) /\ Last(index.fanout) = Size(objects)
  BY WrittenMonotonic
<1>2. PICK n \in Nat : n = Size(objects)
  BY IndexableFacts DEF Written
<1>3. PICK c \in Nat : c = Cardinality(Prefixes)
  BY PrefixesFacts
<1>4. index.format \in Formats
  BY DEF Written, Indexable
<1>5. CASE index.format # "midx"
  <2>1. PICK large : large = index.large
    OBVIOUS
  <2>2. /\ Len(large) \in Nat
        /\ index.format = "v1" => index.size = 10 + (c + n * 6)
        /\ index.format = "v2" => index.size = 12 + (c + (n * 7 + Len(large) * 2))
    <3>1. SizesAre(index, n, c, large) /\ Len(large) \in Nat
      BY <1>2, <1>3, <2>1, WrittenSizes
    <3> QED
      BY <3>1 DEF SizesAre
  <2>3. CASE index.format = "v1"
    <3>1. Need(index.format, n) = 10 + c + n * 6
      BY <1>3, <2>3 DEF Need, Ends, HashUnits
    <3>2. index.size >= Need(index.format, n)
      BY <2>2, <2>3, <3>1
    <3> QED
      BY <1>1, <1>2, <1>5, <3>2 DEF IdxAccepted
  <2>4. CASE index.format = "v2"
    <3>1. Need(index.format, n) = 12 + c + n * 7
      BY <1>3, <2>4 DEF Need, Ends, HashUnits
    <3>2. index.size >= Need(index.format, n)
      <4>1. PICK l \in Nat : l = Len(large)
        BY <2>2
      <4> QED
        BY <2>2, <2>4, <3>1, <4>1
    <3> QED
      BY <1>1, <1>2, <1>5, <3>2 DEF IdxAccepted
  <2> QED
    BY <1>4, <1>5, <2>3, <2>4 DEF Formats
<1>6. CASE index.format = "midx"
  <2>1. ChunkTableAccepted
    BY <1>6, WrittenChunks
  <2>2. index.numPacks = 2 /\ index.names = [i \in 1..2 |-> i] /\ index.padding \in 0..1
    BY <1>6 DEF Written, TablesWritten, PacksOf
  <2>3. ASSUME NEW version PROVE PackNamesAccepted(version)
    <3>1. PICK s : s = index.names
      OBVIOUS
    <3>2. PICK t : t = [i \in 1..index.padding |-> 0]
      OBVIOUS
    <3>3. s \in Seq(Nat) /\ Len(s) = 2 /\ s[1] = 1 /\ s[2] = 2
      BY <2>2, <3>1
    <3>4. t \in Seq(Nat) /\ Len(t) \in Nat
      BY <2>2, <3>2
    <3>5. PICK w : w = s \o t
      OBVIOUS
    <3>6. Joined(w, s, t, Nat)
      BY <3>3, <3>4, <3>5, ConcatJoined
    <3>7. 2 <= Len(w) /\ w[1] = 1 /\ w[2] = 2
      BY <3>3, <3>4, <3>6 DEF Joined
    <3>8. \A i \in 2..2 : w[i - 1] < w[i]
      BY <3>7
    <3> QED
      BY <2>2, <3>1, <3>2, <3>5, <3>7, <3>8 DEF PackNamesAccepted
  <2>4. \A i \in DOMAIN index.packs : index.packs[i] < index.numPacks
    <3>1. Listed(OidsOf(objects), DOMAIN objects)
      BY IndexableFacts DEF Written
    <3>2. ASSUME NEW i \in 1..Size(objects) PROVE objects[OidsOf(objects)[i]].pack < 2
      <4>1. PICK o \in DOMAIN objects : o = OidsOf(objects)[i]
        BY <3>1 DEF Listed, Size
      <4>2. o \in Nat /\ objects[o].pack = o % 2
        BY <1>6, OidsAssumption DEF Written, Indexable, PacksOf, Oids
      <4> QED
        BY <4>1, <4>2
    <3>3. index.packs = [i \in 1..Size(objects) |-> objects[OidsOf(objects)[i]].pack]
      BY DEF Written, TablesWritten
    <3> QED
      BY <2>2, <3>2, <3>3
  <2>5. FanoutAccepted
    BY <1>1, <1>6, <2>4, WrittenChunks DEF FanoutAccepted
  <2>6. OIDLookupAccepted
    <3>1. PICK S, q : S = DOMAIN objects /\ q = index.oids
      OBVIOUS
    <3>2. Listed(q, S) /\ Len(q) = n
      BY <1>2, <3>1, IndexableFacts DEF Written, TablesWritten
    <3>3. \A i, j \in 1..n : i < j => q[i] < q[j]
      BY <3>2 DEF Listed
    <3>4. \A i \in 2..n : q[i - 1] < q[i]
      <4>1. ASSUME NEW i \in 2..n PROVE q[i - 1] < q[i]
        <5>1. i - 1 \in 1..n /\ i \in 1..n /\ i - 1 < i
          OBVIOUS
        <5> QED
          BY <3>3, <5>1
      <4> QED
        BY <4>1
    <3> QED
      BY <3>1, <3>2, <3>4 DEF OIDLookupAccepted
  <2>7. ChunkStart("PNAM") = TableEnd(index.numChunks) /\ ~(ChunkStart("PNAM") < 0)
    BY <1>6, WrittenChunks
  <2>8. NamesOutcomes(1) \cup NamesOutcomes(2) = {TRUE}
    BY <2>3, <2>7, Zenon DEF NamesOutcomes
  <2>9. OpenedMidx = {IF named /\ FanoutAccepted /\ OIDLookupAccepted THEN "open" ELSE "refused" :
                        named \in NamesOutcomes(1) \cup NamesOutcomes(2)}
    BY <2>1, <2>7, Zenon DEF OpenedMidx
  <2>10. OpenedMidx = {"open"}
    BY <2>5, <2>6, <2>8, <2>9
  <2> QED
    BY <1>6, <2>10
<1> QED
  BY <1>5, <1>6

\* Where an object's id stands in the table, and what stands there.
OidsAre(x, objs, n) ==
    /\ Numbers(DOMAIN objs) /\ DOMAIN objs \subseteq Nat
    /\ Len(x.oids) = n /\ x.oids = OidsOf(objs) /\ x.crcs = x.oids
    /\ \A i \in 1..n : x.oids[i] \in DOMAIN objs /\ RankIn(DOMAIN objs, x.oids[i]) = i - 1
    /\ \A o \in DOMAIN objs : RankIn(DOMAIN objs, o) + 1 \in 1..n /\ x.oids[RankIn(DOMAIN objs, o) + 1] = o
    /\ \A i \in 1..n : /\ x.packs[i] = objs[x.oids[i]].pack
                       /\ objs[x.oids[i]].pack = x.oids[i] % PacksOf(x.format)
                       /\ objs[x.oids[i]].offset \in Offsets

LEMMA WrittenOids ==
    ASSUME NEW objs, NEW x, Written(x, objs), NEW n \in Nat, n = Size(objs)
    PROVE  OidsAre(x, objs, n)
<1>1. Numbers(DOMAIN objs) /\ Listed(OidsOf(objs), DOMAIN objs) /\ Len(OidsOf(objs)) = n
  BY IndexableFacts DEF Written
<1>2. x.oids = OidsOf(objs) /\ x.crcs = x.oids /\ x.packs = [i \in 1..n |-> objs[OidsOf(objs)[i]].pack]
  BY DEF Written, TablesWritten
<1>3. n = Cardinality(DOMAIN objs)
  BY DEF Size
<1>4. DOMAIN objs \subseteq Nat
  BY <1>1 DEF Numbers
<1>5. /\ \A i \in 1..n : x.oids[i] \in DOMAIN objs /\ RankIn(DOMAIN objs, x.oids[i]) = i - 1
      /\ \A o \in DOMAIN objs : RankIn(DOMAIN objs, o) + 1 \in 1..n /\ x.oids[RankIn(DOMAIN objs, o) + 1] = o
  BY <1>1, <1>2, <1>3 DEF Listed
<1>6. \A o \in DOMAIN objs : objs[o].offset \in Offsets /\ objs[o].pack = o % PacksOf(x.format)
  BY DEF Written, Indexable
<1> QED
  BY <1>1, <1>2, <1>4, <1>5, <1>6 DEF OidsAre

\* What is read at an object's place is its offset, from either table.
LEMMA WrittenOffsets ==
    ASSUME Written(index, objects), count = Size(objects), NEW i \in 1..count
    PROVE  /\ OffsetAt(objects, i) \in Offsets /\ OffsetAt(objects, i) <= MaxOffset /\ ~Misplaced
           /\ OffsetIn(i) = OffsetAt(objects, i)
           /\ ~IsLarge(index.raws[i]) => index.raws[i] = OffsetAt(objects, i)
           /\ IsLarge(index.raws[i]) =>
                /\ LargeFits(index.raws[i] - Direct)
                /\ LargesAt(index.raws[i] - Direct) = {OffsetAt(objects, i)}
<1>1. PICK n \in Nat : n = Size(objects) /\ n = count
  BY IndexableFacts DEF Written
<1>2. PICK c \in Nat : c = Cardinality(Prefixes)
  BY PrefixesFacts
<1>0. OidsAre(index, objects, n)
  BY <1>1, WrittenOids
<1>3. ~Misplaced
  BY <1>0, <1>1 DEF Misplaced, OidsAre
<1>4. OffsetAt(objects, i) \in Offsets /\ OffsetAt(objects, i) <= MaxOffset /\ OffsetAt(objects, i) \in Nat
  <2>1. OffsetAt(objects, i) \in Offsets
    <3>1. OffsetAt(objects, i) = objects[index.oids[i]].offset
      BY <1>0 DEF OffsetAt, OidsAre
    <3> QED
      BY <1>0, <1>1, <3>1 DEF OidsAre
  <2>2. PICK v : v = OffsetAt(objects, i)
    OBVIOUS
  <2>3. v \in Nat /\ v <= MaxOffset
    <3>1. Offsets \subseteq 0..MaxOffset /\ MaxOffset \in Nat
      BY OffsetsAssumption
    <3>2. v \in Offsets
      BY <2>1, <2>2
    <3>3. v \in 0..MaxOffset
      BY <3>1, <3>2
    <3> QED
      BY <3>1, <3>3
  <2> QED
    BY <2>1, <2>2, <2>3
<1>5. index.format \in Formats
  BY DEF Written, Indexable
<1>6. PICK spilled, large : spilled = SpilledIn(objects, index.format) /\ large = index.large
  OBVIOUS
<1>7. Numbers(spilled) /\ Len(large) = Cardinality(spilled) /\ Len(large) \in Nat
  BY <1>6, IndexableFacts, FS_CardinalityType DEF Written, OffsetsWritten, Numbers
<1>8. /\ i \notin spilled => index.raws[i] = OffsetAt(objects, i)
      /\ i \in spilled => /\ index.raws[i] = Direct + RankIn(spilled, i)
                          /\ large[RankIn(spilled, i) + 1] = OffsetAt(objects, i)
  BY <1>1, <1>6 DEF Written, OffsetsWritten
<1>9. CASE i \notin spilled
  <2>1. ~IsLarge(index.raws[i])
    BY <1>1, <1>4, <1>6, <1>8, <1>9, OffsetsAssumption DEF IsLarge, SpilledIn
  <2> QED
    BY <1>3, <1>4, <1>8, <1>9, <2>1 DEF OffsetIn
<1>10. CASE i \in spilled
  <2>1. PICK k \in Nat : k = RankIn(spilled, i) /\ k < Len(large)
    BY <1>7, <1>10, BelowFinite, RankGrows
  <2>2. index.raws[i] = Direct + k /\ large[k + 1] = OffsetAt(objects, i) /\ index.raws[i] - Direct = k
    BY <1>8, <1>10, <2>1, OffsetsAssumption
  <2>3. index.format # "v1" /\ IsLarge(index.raws[i])
    BY <1>6, <1>10, <2>2, OffsetsAssumption DEF IsLarge, SpilledIn
  <2>4. LargeFits(k)
    <3>l. PICK l \in Nat : l = Len(large)
      BY <1>7
    <3>1. CASE index.format = "midx"
      <4>1. large # <<>>
        <5>1. Len(<<>>) = 0
          OBVIOUS
        <5> QED
          BY <1>7, <2>1, <5>1
      <4>2. HasChunk("LOFF") /\ ChunkLen("LOFF") = l * 2
        BY <1>6, <3>l, <3>1, <4>1, WrittenChunks
      <4>3. k * 2 + 2 <= l * 2
        BY <2>1, <3>l
      <4> QED
        BY <3>1, <4>2, <4>3 DEF LargeFits
    <3>2. CASE index.format = "v2"
      <4>1. index.size = 12 + (c + (n * 7 + l * 2))
        <5>1. SizesAre(index, n, c, large)
          BY <1>1, <1>2, <1>6, WrittenSizes
        <5> QED
          BY <1>6, <3>l, <3>2, <5>1 DEF SizesAre
      <4>2. Need("v2", count) = 12 + c + n * 7
        BY <1>1, <1>2 DEF Need, Ends, HashUnits
      <4>3. index.size - (Need("v2", count) - 2 * HashUnits) >= k * 2 + 2
        BY <2>1, <3>l, <4>1, <4>2 DEF HashUnits
      <4> QED
        BY <3>2, <4>3 DEF LargeFits
    <3> QED
      BY <1>5, <2>3, <3>1, <3>2 DEF Formats
  <2>5. LargesAt(k) = {OffsetAt(objects, i)}
    BY <1>3, <1>6, <2>1, <2>2 DEF LargesAt
  <2>6. OffsetIn(i) = OffsetAt(objects, i)
    <3>1. ~(index.raws[i] - Direct >= Len(index.large))
      BY <1>6, <1>7, <2>1, <2>2
    <3> QED
      BY <1>6, <2>2, <2>3, <2>4, <3>1 DEF OffsetIn
  <2> QED
    BY <1>3, <1>4, <2>2, <2>3, <2>4, <2>5, <2>6
<1> QED
  BY <1>9, <1>10


(***************************************************************************)
(* The extent of an entry's bytes.                                         *)
(***************************************************************************)
\* A set of numbers that is not empty has a least one.
LEMMA LeastNumber ==
    ASSUME NEW T, T \subseteq Nat, T # {}
    PROVE  \E m \in T : \A k \in T : m <= k
<1>r. PICK R : R = {ss \in Nat \X Nat : ss[1] < ss[2]}
  OBVIOUS
<1>1. IsWellFoundedOn({ss \in Nat \X Nat : ss[1] < ss[2]}, Nat)
  BY NatLessThanWellFounded, Zenon DEF OpToRel
<1>2. \E x \in T : \A y \in T : ~ (<<y, x>> \in R)
  BY <1>r, <1>1, WFMin
<1>3. \A x \in T, y \in T : <<y, x>> \in R <=> y < x
  BY <1>r
<1>4. PICK x \in T : \A y \in T : ~ (<<y, x>> \in R)
  BY <1>2
<1>5. ASSUME NEW y \in T PROVE x <= y
  <2>1. <<y, x>> \notin R
    BY <1>4
  <2>2. ~(y < x)
    BY <1>3, <2>1
  <2>3. x \in Nat /\ y \in Nat
    OBVIOUS
  <2> QED
    BY <2>2, <2>3
<1> QED
  BY <1>5

\* A set that has 0, and with every number the next, has them all.
LEMMA SetInduction ==
    ASSUME NEW S, 0 \in S, \A n \in Nat : n \in S => n + 1 \in S
    PROVE  Nat \subseteq S
<1> SUFFICES ASSUME ~(Nat \subseteq S) PROVE FALSE
  OBVIOUS
<1>1. PICK m \in Nat \ S : \A k \in Nat \ S : m <= k
  <2>1. Nat \ S \subseteq Nat /\ Nat \ S # {}
    OBVIOUS
  <2> QED
    BY <2>1, LeastNumber
<1>2. m # 0
  OBVIOUS
<1>3. m - 1 \in Nat
  BY <1>2
<1>4. m - 1 \in S
  <2>1. ~(m <= m - 1)
    BY <1>3
  <2> QED
    BY <1>1, <1>3, <2>1
<1>5. (m - 1) + 1 \in S /\ (m - 1) + 1 = m
  BY <1>3, <1>4
<1> QED
  BY <1>5

\* The least of the offsets behind one, among the first n of a table.
NextIn(v, vals, off, n) ==
    \/ v = -1 /\ \A j \in 1..n : ~(vals[j] > off)
    \/ /\ v \in Nat /\ v > off
       /\ \E j \in 1..n : v = vals[j]
       /\ \A j \in 1..n : vals[j] > off => v <= vals[j]

\* b satisfies the recursive definition in OffsetAfter.
IsBest(b, off) ==
    b = [i \in 0..count |->
            IF i = 0 THEN -1
            ELSE LET c == OffsetIn(i) IN
                 IF c <= MaxOffset /\ c > off /\ (b[i - 1] < 0 \/ c < b[i - 1])
                 THEN c ELSE b[i - 1]]

\* The recursive function that OffsetAfter defines exists.
LEMMA BestExists ==
    ASSUME count \in Nat, NEW off
    PROVE  \E b : IsBest(b, off)
<1> DEFINE St(f, n) == IF n = 0 THEN -1
                       ELSE LET c == OffsetIn(n) IN
                            IF c <= MaxOffset /\ c > off /\ (f[n - 1] < 0 \/ c < f[n - 1])
                            THEN c ELSE f[n - 1]
<1> DEFINE S == {l \in Nat : \E f : f = [n \in 0..l |-> St(f, n)]}
<1>0. ASSUME NEW f, NEW g, NEW d, d = 0 \/ f[d - 1] = g[d - 1] PROVE St(f, d) = St(g, d)
  <2>1. CASE d = 0
    BY <2>1
  <2>2. CASE f[d - 1] = g[d - 1]
    BY <2>2
  <2> QED
    BY <1>0, <2>1, <2>2
<1>1. 0 \in S
  <2>1. PICK f : f = [d \in 0..0 |-> -1]
    OBVIOUS
  <2>2. f = [d \in 0..0 |-> St(f, d)]
    BY <2>1
  <2> QED
    BY <2>2
<1>2. ASSUME NEW n \in Nat, n \in S PROVE n + 1 \in S
  <2>1. PICK f : f = [d \in 0..n |-> St(f, d)]
    BY <1>2
  <2> HIDE DEF St
  <2>2. PICK g : g = [d \in 0..(n + 1) |-> IF d = n + 1 THEN St(f, d) ELSE f[d]]
    OBVIOUS
  <2>3. ASSUME NEW d \in 0..(n + 1) PROVE g[d] = St(g, d)
    <3>1. CASE d = n + 1
      <4>1. d - 1 = n /\ n # n + 1 /\ n \in 0..(n + 1)
        BY <3>1
      <4>2. g[d - 1] = f[d - 1] /\ g[d] = St(f, d)
        BY <2>2, <3>1, <4>1
      <4> QED
        BY <1>0, <4>2
    <3>2. CASE d # n + 1
      <4>1. d \in 0..n
        BY <3>2
      <4>2. g[d] = f[d] /\ f[d] = St(f, d)
        BY <2>1, <2>2, <3>2, <4>1
      <4>3. d = 0 \/ (d - 1 \in 0..(n + 1) /\ d - 1 # n + 1)
        BY <4>1
      <4>4. d = 0 \/ f[d - 1] = g[d - 1]
        BY <2>2, <4>3
      <4> QED
        BY <1>0, <4>2, <4>4
    <3> QED
      BY <3>1, <3>2
  <2>4. g = [d \in 0..(n + 1) |-> St(g, d)]
    BY <2>2, <2>3
  <2> QED
    BY <2>4
<1>3. Nat \subseteq S
  <2> HIDE DEF S
  <2> QED
    BY <1>1, <1>2, SetInduction
<1>4. PICK f : f = [d \in 0..count |-> St(f, d)]
  BY <1>3
<1> QED
  BY <1>4, Zenon DEF IsBest

\* One candidate after the other is the best so far or not.
LEMMA BestNext ==
    ASSUME NEW vals, NEW off \in Nat, NEW n \in Nat, NEW b, NextIn(b, vals, off, n),
           \A j \in 1..n + 1 : vals[j] \in Nat
    PROVE  NextIn(IF vals[n + 1] > off /\ (b < 0 \/ vals[n + 1] < b) THEN vals[n + 1] ELSE b,
                  vals, off, n + 1)
<1>1. PICK c \in Nat : c = vals[n + 1]
  OBVIOUS
<1>2. \A j : j \in 1..(n + 1) <=> j \in 1..n \/ j = n + 1
  OBVIOUS
<1>3. n + 1 \in 1..(n + 1)
  OBVIOUS
<1>4. CASE b = -1 /\ \A j \in 1..n : ~(vals[j] > off)
  <2>1. CASE c > off
    <3>1. \A j \in 1..(n + 1) : vals[j] > off => j = n + 1
      BY <1>2, <1>4
    <3>2. \A j \in 1..(n + 1) : vals[j] > off => c <= vals[j]
      BY <1>1, <3>1
    <3> QED
      BY <1>1, <1>3, <1>4, <2>1, <3>2 DEF NextIn
  <2>2. CASE ~(c > off)
    <3>1. \A j \in 1..(n + 1) : ~(vals[j] > off)
      BY <1>1, <1>2, <1>4, <2>2
    <3> QED
      BY <1>1, <1>4, <2>2, <3>1 DEF NextIn
  <2> QED
    BY <2>1, <2>2
<1>5. CASE /\ b \in Nat /\ b > off
           /\ \E j \in 1..n : b = vals[j]
           /\ \A j \in 1..n : vals[j] > off => b <= vals[j]
  <2>1. CASE c > off /\ c < b
    <3>1. ASSUME NEW j \in 1..(n + 1), vals[j] > off PROVE c <= vals[j]
      <4>1. CASE j = n + 1
        BY <1>1, <4>1
      <4>2. CASE j \in 1..n
        <5>1. b <= vals[j]
          BY <1>5, <3>1, <4>2
        <5> QED
          BY <1>1, <1>2, <1>5, <2>1, <4>2, <5>1
      <4> QED
        BY <1>2, <4>1, <4>2
    <3> QED
      BY <1>1, <1>3, <2>1, <3>1 DEF NextIn
  <2>2. CASE ~(c > off /\ c < b)
    <3>1. ASSUME NEW j \in 1..(n + 1), vals[j] > off PROVE b <= vals[j]
      <4>1. CASE j = n + 1
        BY <1>1, <1>5, <2>2, <3>1, <4>1
      <4>2. CASE j \in 1..n
        BY <1>5, <3>1, <4>2
      <4> QED
        BY <1>2, <4>1, <4>2
    <3>2. \E j \in 1..(n + 1) : b = vals[j]
      BY <1>2, <1>5
    <3> QED
      BY <1>1, <1>5, <2>2, <3>1, <3>2 DEF NextIn
  <2> QED
    BY <2>1, <2>2
<1> QED
  BY <1>4, <1>5 DEF NextIn

\* OffsetAfter finds the next offset that any entry has.
LEMMA OffsetAfterNext ==
    ASSUME count \in Nat, NEW off \in Nat, NEW vals, MaxOffset \in Nat,
           \A i \in 1..count : OffsetIn(i) = vals[i] /\ vals[i] \in Nat /\ vals[i] <= MaxOffset
    PROVE  NextIn(OffsetAfter(off), vals, off, count)
<1> DEFINE best[i \in 0..count] ==
            IF i = 0 THEN -1
            ELSE LET c == OffsetIn(i) IN
                 IF c <= MaxOffset /\ c > off /\ (best[i - 1] < 0 \/ c < best[i - 1])
                 THEN c ELSE best[i - 1]
<1>1. \E b : IsBest(b, off)
  BY BestExists
<1>2. IsBest(best, off)
  BY <1>1, Zenon DEF best, IsBest
<1>3. OffsetAfter(off) = best[count]
  BY Zenon DEF OffsetAfter, best
<1> HIDE DEF best
<1>4. \A i \in 0..count : best[i] =
            IF i = 0 THEN -1
            ELSE LET c == OffsetIn(i) IN
                 IF c <= MaxOffset /\ c > off /\ (best[i - 1] < 0 \/ c < best[i - 1])
                 THEN c ELSE best[i - 1]
  BY <1>2 DEF IsBest
<1> DEFINE S == {n \in Nat : n <= count => NextIn(best[n], vals, off, n)}
<1>5. 0 \in S
  <2>1. best[0] = -1
    BY <1>4
  <2>2. \A j \in 1..0 : FALSE
    OBVIOUS
  <2>3. NextIn(best[0], vals, off, 0)
    BY <2>1, <2>2 DEF NextIn
  <2> QED
    BY <2>3
<1>6. ASSUME NEW n \in Nat, n \in S PROVE n + 1 \in S
  <2>1. SUFFICES ASSUME n + 1 <= count PROVE NextIn(best[n + 1], vals, off, n + 1)
    OBVIOUS
  <2>2. NextIn(best[n], vals, off, n)
    BY <1>6, <2>1
  <2>3. PICK e \in 1..count : e = n + 1
    BY <2>1
  <2>4. e \in 0..count /\ e # 0 /\ e - 1 = n
    BY <2>3
  <2>5. best[e] = LET c == OffsetIn(e) IN
                  IF c <= MaxOffset /\ c > off /\ (best[n] < 0 \/ c < best[n])
                  THEN c ELSE best[n]
    BY <1>4, <2>4
  <2>6. OffsetIn(e) = vals[e] /\ vals[e] \in Nat /\ vals[e] <= MaxOffset
    OBVIOUS
  <2>7. best[e] = IF vals[e] > off /\ (best[n] < 0 \/ vals[e] < best[n]) THEN vals[e] ELSE best[n]
    BY <2>5, <2>6
  <2>8. \A j \in 1..n + 1 : vals[j] \in Nat
    BY <2>1
  <2>9. NextIn(IF vals[n + 1] > off /\ (best[n] < 0 \/ vals[n + 1] < best[n]) THEN vals[n + 1] ELSE best[n],
               vals, off, n + 1)
    BY <2>2, <2>8, BestNext
  <2> QED
    BY <2>3, <2>7, <2>9
<1>7. Nat \subseteq S
  <2> HIDE DEF S
  <2> QED
    BY <1>5, <1>6, SetInduction
<1>8. count \in S
  BY <1>7
<1> QED
  BY <1>3, <1>8

(***************************************************************************)
(* A lookup in a file as it was written.                                   *)
(***************************************************************************)
\* The bucket of an id that is there brackets its place.
BucketExact(w) ==
    /\ Bucket(w).hi \in Nat /\ Bucket(w).hi <= Size(objects)
    /\ w \in DOMAIN objects => /\ Bucket(w).lo <= RankIn(DOMAIN objects, w)
                               /\ RankIn(DOMAIN objects, w) < Bucket(w).hi

LEMMA WrittenBucket ==
    ASSUME Written(index, objects), NEW w \in Oids
    PROVE  BucketExact(w)
<1> DEFINE Upto(p) == {o \in DOMAIN objects : o \div Span <= p}
<1>1. PICK S : S = DOMAIN objects
  OBVIOUS
<1>2. Numbers(S) /\ S \subseteq Oids /\ S \subseteq Nat /\ IsFiniteSet(S) /\ Size(objects) = Cardinality(S)
  BY <1>1, IndexableFacts DEF Written, Indexable, Numbers, Size
<1>3. index.fanout = [p \in Prefixes |-> Cardinality(Upto(p))]
  BY DEF Written, TablesWritten
<1>4. PICK q \in Prefixes : q = w \div Span /\ q \in Nat /\ (q = 0 \/ q - 1 \in Prefixes)
  <2>1. PICK p : p = w \div Span
    OBVIOUS
  <2>2. p \in Prefixes /\ (p # 0 => p - 1 \in Prefixes)
    BY <2>1, PrefixesFacts
  <2>3. p \in Nat
    BY <2>2 DEF Prefixes
  <2> QED
    BY <2>1, <2>2, <2>3
<1>5. \A o \in S : o \div Span \in Int /\ (o < w => o \div Span <= q)
  BY <1>2, <1>4, OidsAssumption DEF Oids
<1>6. \A o \in S : o \div Span <= q - 1 => o < w
  BY <1>2, <1>4, OidsAssumption DEF Oids
<1>7. \A p \in Prefixes : Upto(p) \in SUBSET S /\ IsFiniteSet(Upto(p)) /\ Cardinality(Upto(p)) \in Nat
                          /\ Cardinality(Upto(p)) <= Cardinality(S)
  BY <1>1, <1>2, FS_Subset, FS_CardinalityType
<1>8. PICK B : B = Bucket(w)
  OBVIOUS
<1>9. B.hi = Cardinality(Upto(q)) /\ (q # 0 => B.lo = Cardinality(Upto(q - 1))) /\ (q = 0 => B.lo = 0)
  BY <1>3, <1>4, <1>8 DEF Bucket
<1>10. B.hi \in Nat /\ B.hi <= Size(objects)
  BY <1>2, <1>7, <1>9
<1>11. ASSUME w \in S PROVE B.lo <= RankIn(S, w) /\ RankIn(S, w) < B.hi
  <2>1. PICK T : T = Upto(q)
    OBVIOUS
  <2>2. Below(S, w) \subseteq T /\ w \in T /\ IsFiniteSet(T)
    <3>1. w \div Span <= q
      BY <1>4
    <3> QED
      BY <1>1, <1>5, <1>7, <1>11, <2>1, <3>1 DEF Below
  <2>3. RankIn(S, w) < B.hi
    BY <1>2, <1>9, <1>11, <2>1, <2>2, RankBelow
  <2>4. B.lo <= RankIn(S, w)
    <3>1. CASE q = 0
      BY <1>2, <1>9, <3>1, BelowFinite
    <3>2. CASE q # 0
      <4>1. PICK U : U = Upto(q - 1)
        OBVIOUS
      <4>2. U \in SUBSET Below(S, w)
        BY <1>1, <1>6, <4>1 DEF Below
      <4>3. Cardinality(U) <= RankIn(S, w)
        BY <1>2, <4>2, BelowFinite, FS_Subset DEF RankIn
      <4> QED
        BY <1>9, <3>2, <4>1, <4>3
    <3> QED
      BY <3>1, <3>2
  <2> QED
    BY <2>3, <2>4
<1> QED
  BY <1>1, <1>8, <1>10, <1>11 DEF BucketExact

\* The id asked for, if it is there, is between the bounds of the search.
Bracketed ==
    /\ want \in Oids
    /\ want \in DOMAIN objects => /\ lo <= RankIn(DOMAIN objects, want)
                                  /\ RankIn(DOMAIN objects, want) < hi

Answered ==
    answer = Match \/ answer = IF want \in DOMAIN objects
                               THEN <<objects[want].pack, objects[want].offset>> ELSE Miss

ExactInv ==
    ~damaged =>
        /\ Written(index, objects)
        /\ ipc \notin {"refused", "panicked"}
        /\ ipc \in {"open"} \cup Asked \cup Hit => count = Size(objects)
        /\ ipc \in Asked => Bracketed
        /\ ipc \in Hit => lo < Size(objects) /\ index.oids[lo + 1] = want
        /\ IF ipc = "answered" THEN Answered ELSE answer = Miss

LEMMA ExactAnswers == ExactInv => LookupExact
<1>1. Corrupt # Match /\ Corrupt # Miss
  BY DEF Corrupt, Match, Miss
<1>2. \A a, b : << a, b >> # Corrupt
  BY DEF Corrupt
<1>3. ASSUME Answered PROVE answer # Corrupt
  BY <1>1, <1>2, <1>3 DEF Answered
<1> QED
  BY <1>1, <1>3 DEF ExactInv, LookupExact, Answered

LEMMA ExactInit == LookupInit => ExactInv
<1> SUFFICES ASSUME LookupInit PROVE ExactInv
  OBVIOUS
<1>1. Written(index, objects)
  BY WrittenInit
<1> QED
  BY <1>1 DEF LookupInit, ExactInv, Asked, Hit

LEMMA ExactIndexWritten == ExactInv /\ IndexWritten => ExactInv'
<1> SUFFICES ASSUME ExactInv, IndexWritten, ~damaged' PROVE ExactInv'
  BY DEF ExactInv
<1>1. Written(index', objects')
  BY WrittenNext
<1>2. ipc = "none" /\ ipc' = "file" /\ damaged' = damaged /\ answer' = answer
  BY DEF IndexWritten
<1> QED
  BY <1>1, <1>2 DEF ExactInv, Asked, Hit

LEMMA ExactOpenIndex == ExactInv /\ OpenIndex => ExactInv'
<1> SUFFICES ASSUME ExactInv, OpenIndex, ~damaged' PROVE ExactInv'
  BY DEF ExactInv
<1>1. index' = index /\ objects' = objects /\ damaged' = damaged /\ count' = Last(index.fanout)
      /\ ipc = "file" /\ answer' = answer
  BY DEF OpenIndex, indexVars
<1>2. Written(index, objects) /\ answer = Miss
  BY <1>1 DEF ExactInv
<1>3. IF index.format = "midx" THEN OpenedMidx = {"open"} ELSE IdxAccepted
  BY <1>2, WrittenAccepted
<1>4. ipc' = "open"
  BY <1>3 DEF OpenIndex
<1>5. count' = Size(objects)
  BY <1>1, <1>2, WrittenMonotonic
<1> QED
  BY <1>1, <1>2, <1>4, <1>5 DEF ExactInv, Asked, Hit

LEMMA ExactAsk == ExactInv /\ Ask => ExactInv'
<1> SUFFICES ASSUME ExactInv, Ask, ~damaged' PROVE ExactInv'
  BY DEF ExactInv
<1>1. index' = index /\ objects' = objects /\ damaged' = damaged /\ count' = count /\ ipc = "open"
  BY DEF Ask, indexVars
<1>2. Written(index, objects) /\ answer = Miss /\ count = Size(objects)
  BY <1>1 DEF ExactInv
<1>3. PICK w \in Oids : w = want' /\ lo' = Bucket(w).lo /\ hi' = Bucket(w).hi
  BY DEF Ask
<1>4. BucketExact(w)
  BY <1>2, WrittenBucket
<1>5. PICK n \in Nat : n = count /\ n = Cardinality(DOMAIN objects)
  BY <1>2, IndexableFacts DEF Written, Size
<1>6. CASE (count = 0 \/ hi' > count) /\ Reply(Miss)
  <2>1. w \notin DOMAIN objects
    <3>1. SUFFICES ASSUME w \in DOMAIN objects PROVE FALSE
      OBVIOUS
    <3>2. PICK r \in Nat : r = RankIn(DOMAIN objects, w) /\ r < n
      BY <1>2, <1>5, <3>1, IndexableFacts, BelowFinite, RankGrows DEF Written
    <3>3. hi' > count
      BY <1>5, <1>6, <3>2
    <3>4. hi' \in Int /\ hi' <= count
      BY <1>2, <1>3, <1>4 DEF BucketExact
    <3> QED
      BY <1>5, <3>3, <3>4
  <2>2. ipc' = "answered" /\ answer' = Miss
    BY <1>6 DEF Reply
  <2>3. Answered'
    BY <1>1, <1>3, <2>1, <2>2 DEF Answered
  <2> QED
    BY <1>1, <1>2, <2>2, <2>3 DEF ExactInv, Asked, Hit
<1>7. CASE ipc' \in Asked /\ answer' = answer
  <2>1. Bracketed'
    BY <1>1, <1>3, <1>4 DEF Bracketed, BucketExact
  <2>2. ipc' \notin {"answered", "refused", "panicked"} /\ ipc' \notin Hit
    BY <1>7 DEF Asked, Hit
  <2> QED
    BY <1>1, <1>2, <1>7, <2>1, <2>2 DEF ExactInv
<1>8. \/ (count = 0 \/ hi' > count) /\ Reply(Miss)
      \/ ipc' \in Asked /\ answer' = answer
  BY DEF Ask, Asked
<1> QED
  BY <1>6, <1>7, <1>8

LEMMA ExactSearchStep == SafeInv /\ ExactInv /\ SearchStep => ExactInv'
<1> SUFFICES ASSUME SafeInv, ExactInv, SearchStep, ~damaged' PROVE ExactInv'
  BY DEF ExactInv
<1>1. /\ index' = index /\ objects' = objects /\ damaged' = damaged /\ count' = count /\ want' = want
      /\ answer' = answer /\ ipc \in Asked /\ lo < hi
  BY DEF SearchStep, indexVars, Searching, Asked
<1>2. Written(index, objects) /\ count = Size(objects) /\ Bracketed /\ answer = Miss
  BY <1>1 DEF ExactInv, Asked
<1>3. PICK n \in Nat : n = count
  BY DEF SafeInv
<1>4. OidsAre(index, objects, n)
  BY <1>2, <1>3, WrittenOids
<1>5. lo \in Nat /\ hi \in Nat /\ hi <= n
  BY <1>1, <1>3 DEF SafeInv
<1>6. PICK m \in Nat : m = Mid /\ m < n
  BY <1>1, <1>5 DEF Mid
<1>7. PICK S : S = DOMAIN objects
  OBVIOUS
<1>8. Numbers(S) /\ S \subseteq Nat
  BY <1>4, <1>7 DEF OidsAre
<1>9. PICK got \in S : got = index.oids[m + 1] /\ RankIn(S, got) = m
  <2>1. m + 1 \in 1..n /\ (m + 1) - 1 = m
    BY <1>6
  <2> QED
    BY <1>4, <1>7, <2>1 DEF OidsAre
<1>10. OidsAt(m) = {got}
  BY <1>4, <1>6, <1>9 DEF OidsAt, OidsAre
<1>11. \/ got = want /\ lo' = m /\ hi' = hi /\ ipc' \in Hit
       \/ want < got /\ hi' = m /\ lo' = lo /\ ipc' = ipc
       \/ got < want /\ lo' = m + 1 /\ hi' = hi /\ ipc' = ipc
  BY <1>6, <1>10 DEF SearchStep, Hit
<1>12. want \in Nat
  BY <1>2, OidsAssumption DEF Bracketed, Oids
<1>13. CASE got = want /\ lo' = m /\ hi' = hi /\ ipc' \in Hit
  <2>1. ipc' \notin {"answered", "refused", "panicked"} /\ ipc' \notin Asked
    BY <1>13 DEF Asked, Hit
  <2> QED
    BY <1>1, <1>2, <1>3, <1>6, <1>9, <1>13, <2>1 DEF ExactInv
<1>14. CASE ipc' = ipc /\ Bracketed'
  <2>1. ipc' \notin {"answered", "refused", "panicked"} /\ ipc' \notin Hit
    BY <1>1, <1>14 DEF Asked, Hit
  <2> QED
    BY <1>1, <1>2, <1>14, <2>1 DEF ExactInv
<1>15. CASE want < got /\ hi' = m /\ lo' = lo /\ ipc' = ipc
  <2>1. want \in S => RankIn(S, want) < m
    BY <1>8, <1>9, <1>15, RankGrows
  <2>2. Bracketed'
    BY <1>1, <1>2, <1>7, <1>15, <2>1 DEF Bracketed
  <2> QED
    BY <1>14, <1>15, <2>2
<1>16. CASE got < want /\ lo' = m + 1 /\ hi' = hi /\ ipc' = ipc
  <2>1. want \in S => m + 1 <= RankIn(S, want)
    <3>1. m < RankIn(S, want)
      BY <1>8, <1>9, <1>12, <1>16, RankGrows
    <3>2. RankIn(S, want) \in Nat
      BY <1>8, BelowFinite
    <3> QED
      BY <3>1, <3>2
  <2>2. Bracketed'
    BY <1>1, <1>2, <1>7, <1>16, <2>1 DEF Bracketed
  <2> QED
    BY <1>14, <1>16, <2>2
<1> QED
  BY <1>11, <1>13, <1>15, <1>16

LEMMA ExactSearchEmpty == SafeInv /\ ExactInv /\ SearchEmpty => ExactInv'
<1> SUFFICES ASSUME SafeInv, ExactInv, SearchEmpty, ~damaged' PROVE ExactInv'
  BY DEF ExactInv
<1>1. /\ index' = index /\ objects' = objects /\ damaged' = damaged /\ count' = count /\ want' = want
      /\ answer' = Miss /\ ipc' = "answered" /\ ipc \in Asked /\ lo >= hi
  BY DEF SearchEmpty, indexVars, Searching, Asked, Reply
<1>2. Written(index, objects) /\ Bracketed
  BY <1>1 DEF ExactInv
<1>3. lo \in Nat /\ hi \in Nat
  BY <1>1 DEF SafeInv
<1>4. want \notin DOMAIN objects
  <2>1. SUFFICES ASSUME want \in DOMAIN objects PROVE FALSE
    OBVIOUS
  <2>2. PICK r \in Nat : r = RankIn(DOMAIN objects, want)
    BY <1>2, IndexableFacts, BelowFinite DEF Written
  <2>3. lo <= r /\ r < hi
    BY <1>2, <2>1, <2>2 DEF Bracketed
  <2> QED
    BY <1>1, <1>3, <2>3
<1>5. Answered'
  BY <1>1, <1>4 DEF Answered
<1> QED
  BY <1>1, <1>2, <1>5 DEF ExactInv, Asked, Hit

\* What stands at the place of an id that was found.
HitFacts(i) ==
    /\ i \in 1..count /\ i = lo + 1 /\ want \in DOMAIN objects /\ index.oids[i] = want
    /\ index.crcs[i] = want
    /\ OffsetAt(objects, i) = objects[want].offset
    /\ index.packs[i] = objects[want].pack /\ objects[want].pack = want % PacksOf(index.format)

LEMMA HitPlace ==
    ASSUME SafeInv, ExactInv, ~damaged, ipc \in Hit
    PROVE  \E i \in 1..count : HitFacts(i)
<1>1. Written(index, objects) /\ count = Size(objects) /\ index.oids[lo + 1] = want
  BY DEF ExactInv
<1>2. PICK n \in Nat : n = count
  BY DEF SafeInv
<1>3. PICK i \in 1..n : i = lo + 1
  BY <1>2 DEF SafeInv
<1>4. OidsAre(index, objects, n)
  BY <1>1, <1>2, WrittenOids
<1>5. index.oids[i] = want
  BY <1>1, <1>3
<1>6. want \in DOMAIN objects
  BY <1>4, <1>5 DEF OidsAre
<1>7. OffsetAt(objects, i) = objects[want].offset
  BY <1>4, <1>5 DEF OffsetAt, OidsAre
<1>8. /\ index.crcs[i] = want /\ index.packs[i] = objects[want].pack
      /\ objects[want].pack = want % PacksOf(index.format)
  BY <1>4, <1>5 DEF OidsAre
<1> QED
  BY <1>2, <1>3, <1>5, <1>6, <1>7, <1>8 DEF HitFacts

\* The offsets of a written table.
OffsetsAre(i) ==
    /\ OffsetAt(objects, i) \in Offsets /\ OffsetAt(objects, i) <= MaxOffset /\ ~Misplaced
    /\ OffsetIn(i) = OffsetAt(objects, i)
    /\ ~IsLarge(index.raws[i]) => index.raws[i] = OffsetAt(objects, i)
    /\ IsLarge(index.raws[i]) =>
         /\ LargeFits(index.raws[i] - Direct)
         /\ LargesAt(index.raws[i] - Direct) = {OffsetAt(objects, i)}

LEMMA OffsetsRead ==
    ASSUME Written(index, objects), count = Size(objects), NEW i \in 1..count
    PROVE  OffsetsAre(i)
  BY WrittenOffsets DEF OffsetsAre

LEMMA ExactReadOffset == SafeInv /\ ExactInv /\ ReadOffset => ExactInv'
<1> SUFFICES ASSUME SafeInv, ExactInv, ReadOffset, ~damaged' PROVE ExactInv'
  BY DEF ExactInv
<1>1. /\ index' = index /\ objects' = objects /\ damaged' = damaged /\ count' = count /\ want' = want
      /\ ipc \in Hit /\ ~damaged
  BY DEF ReadOffset, indexVars, Hit
<1>2. Written(index, objects) /\ count = Size(objects)
  BY <1>1 DEF ExactInv
<1>3. PICK i \in 1..count : HitFacts(i)
  BY <1>1, HitPlace
<1>4. OffsetsAre(i)
  BY <1>2, OffsetsRead
<1>5. PICK off : off = objects[want].offset
  OBVIOUS
<1>6. OffsetAt(objects, i) = off /\ off <= MaxOffset /\ i = lo + 1
  BY <1>3, <1>4, <1>5 DEF HitFacts, OffsetsAre
<1>7. PICK raw : raw = index.raws[i] /\ RawsAt(lo) = {raw}
  BY <1>4, <1>6 DEF RawsAt, OffsetsAre
<1>8. /\ ~IsLarge(raw) => raw = off
      /\ IsLarge(raw) => LargeFits(raw - Direct) /\ LargesAt(raw - Direct) = {off}
  BY <1>4, <1>6, <1>7 DEF OffsetsAre
<1>9. Located(off) = <<objects[want].pack, off>>
  <2>1. CASE index.format = "midx"
    BY <1>3, <1>6, <2>1 DEF Located, HitFacts
  <2>2. CASE index.format # "midx"
    <3>1. want \in Nat
      BY <1>2, <1>3, OidsAssumption DEF Written, Indexable, HitFacts, Oids
    <3>2. objects[want].pack = 0
      BY <1>3, <2>2, <3>1 DEF HitFacts, PacksOf
    <3> QED
      BY <2>2, <3>2 DEF Located
  <2> QED
    BY <2>1, <2>2
<1>10. Reply(Located(off))
  <2>1. CASE ~IsLarge(raw)
    <3>1. Reply(Located(raw))
      BY <1>7, <2>1 DEF ReadOffset
    <3> QED
      BY <1>8, <2>1, <3>1
  <2>2. CASE IsLarge(raw)
    <3>1. \E o \in LargesAt(raw - Direct) : Reply(IF o > MaxOffset THEN Miss ELSE Located(o))
      BY <1>7, <1>8, <2>2 DEF ReadOffset
    <3>2. Reply(IF off > MaxOffset THEN Miss ELSE Located(off))
      BY <1>8, <2>2, <3>1
    <3>3. ~(off > MaxOffset)
      <4>1. MaxOffset \in Nat /\ Offsets \subseteq 0..MaxOffset
        BY OffsetsAssumption
      <4>2. off \in Offsets
        BY <1>4, <1>6 DEF OffsetsAre
      <4>3. off \in Nat
        BY <4>1, <4>2
      <4> QED
        BY <1>6, <4>1, <4>3
    <3> QED
      BY <3>2, <3>3
  <2> QED
    BY <2>1, <2>2
<1>11. ipc' = "answered" /\ answer' = <<objects[want].pack, objects[want].offset>>
  BY <1>5, <1>9, <1>10 DEF Reply
<1>12. Answered'
  BY <1>1, <1>3, <1>11 DEF Answered, HitFacts
<1> QED
  BY <1>1, <1>2, <1>11, <1>12 DEF ExactInv, Asked, Hit

LEMMA ExactVerifyCRC == SafeInv /\ ExactInv /\ VerifyCRC => ExactInv'
<1> SUFFICES ASSUME SafeInv, ExactInv, VerifyCRC, ~damaged' PROVE ExactInv'
  BY DEF ExactInv
<1>1. /\ index' = index /\ objects' = objects /\ damaged' = damaged /\ count' = count /\ want' = want
      /\ ipc \in Hit /\ ~damaged
  BY DEF VerifyCRC, indexVars, Hit
<1>2. Written(index, objects) /\ count = Size(objects)
  BY <1>1 DEF ExactInv
<1>3. PICK n \in Nat : n = count
  BY DEF SafeInv
<1>4. PICK i \in 1..n : HitFacts(i)
  BY <1>1, <1>3, HitPlace
<1>5. /\ MaxOffset \in Nat /\ Offsets \subseteq 0..MaxOffset /\ PackEnd \in Nat
      /\ \A o \in Offsets : o < PackEnd
  BY OffsetsAssumption
<1>6. PICK vals : vals = [j \in 1..n |-> OffsetAt(objects, j)]
  OBVIOUS
<1>7. ASSUME NEW j \in 1..n
      PROVE  OffsetIn(j) = vals[j] /\ vals[j] \in Nat /\ vals[j] <= MaxOffset /\ vals[j] < PackEnd
  <2>1. OffsetsAre(j)
    BY <1>2, <1>3, OffsetsRead
  <2>2. PICK v : v = OffsetAt(objects, j)
    OBVIOUS
  <2>3. v \in Offsets /\ OffsetIn(j) = v
    BY <2>1, <2>2 DEF OffsetsAre
  <2>4. v \in 0..MaxOffset
    BY <1>5, <2>3
  <2> QED
    BY <1>5, <1>6, <2>2, <2>3, <2>4
<1>8. PICK at \in Nat : at = OffsetIn(lo + 1) /\ at = vals[i] /\ at = objects[want].offset
  <2>1. i = lo + 1 /\ vals[i] = objects[want].offset
    BY <1>4, <1>6 DEF HitFacts
  <2> QED
    BY <1>7, <2>1
<1>9. PICK after : after = OffsetAfter(at)
  OBVIOUS
<1>10. NextIn(after, vals, at, n)
  <2>1. \A j \in 1..count : OffsetIn(j) = vals[j] /\ vals[j] \in Nat /\ vals[j] <= MaxOffset
    BY <1>3, <1>7
  <2>2. NextIn(OffsetAfter(at), vals, at, count)
    BY <1>3, <1>5, <2>1, OffsetAfterNext
  <2> QED
    BY <1>3, <1>9, <2>2
<1>11. PICK end : end = IF after < 0 THEN PackEnd ELSE after
  OBVIOUS
<1>12. /\ end \in Nat /\ end > at /\ end <= PackEnd
       /\ \A j \in 1..n : vals[j] > at => end <= vals[j]
  <2>1. CASE after = -1 /\ \A j \in 1..n : ~(vals[j] > at)
    <3>1. end = PackEnd
      BY <1>11, <2>1
    <3>2. at < PackEnd
      BY <1>4, <1>7, <1>8
    <3>3. end \in Nat /\ end > at /\ end <= PackEnd
      BY <1>5, <3>1, <3>2
    <3> QED
      BY <2>1, <3>3
  <2>2. CASE /\ after \in Nat /\ after > at
             /\ \E j \in 1..n : after = vals[j]
             /\ \A j \in 1..n : vals[j] > at => after <= vals[j]
    <3>1. end = after
      BY <1>11, <2>2
    <3>2. after <= PackEnd
      BY <1>5, <1>7, <2>2
    <3> QED
      BY <2>2, <3>1, <3>2
  <2> QED
    BY <1>10, <2>1, <2>2 DEF NextIn
<1>13. {e \in {objects[o].offset : o \in DOMAIN objects} \cup {PackEnd} : at < e /\ e < end} = {}
  <2>1. ~(PackEnd < end)
    BY <1>5, <1>12
  <2>2. ASSUME NEW o \in DOMAIN objects PROVE ~(at < objects[o].offset /\ objects[o].offset < end)
    <3>1. OidsAre(index, objects, n)
      BY <1>2, <1>3, WrittenOids
    <3>2. PICK j \in 1..n : index.oids[j] = o
      BY <3>1 DEF OidsAre
    <3>3. OffsetAt(objects, j) = objects[o].offset
      BY <3>1, <3>2 DEF OffsetAt, OidsAre
    <3>4. PICK v \in Nat : v = vals[j] /\ v = objects[o].offset
      <4>1. vals[j] = OffsetAt(objects, j)
        BY <1>6
      <4>2. vals[j] \in Nat
        BY <1>7
      <4> QED
        BY <3>3, <4>1, <4>2
    <3>5. ~(at < v /\ v < end)
      <4>1. vals[j] > at => end <= vals[j]
        BY <1>12
      <4> QED
        BY <1>12, <3>4, <4>1
    <3> QED
      BY <3>4, <3>5
  <2> QED
    BY <2>1, <2>2
<1>14. index.crcs[lo + 1] = want /\ want \in DOMAIN objects
  BY <1>4 DEF HitFacts
<1>15. Reply(Match)
  <2>1. Reply(IF /\ end > at
                 /\ {e \in {objects[o].offset : o \in DOMAIN objects} \cup {PackEnd} : at < e /\ e < end} = {}
                 /\ index.crcs[lo + 1] \in DOMAIN objects
                 /\ objects[index.crcs[lo + 1]].offset = at
              THEN Match ELSE Corrupt)
    BY <1>8, <1>9, <1>11, Zenon DEF VerifyCRC
  <2> QED
    BY <1>8, <1>12, <1>13, <1>14, <2>1
<1>16. ipc' = "answered" /\ answer' = Match
  BY <1>15 DEF Reply
<1> QED
  BY <1>1, <1>2, <1>16 DEF ExactInv, Answered, Asked, Hit

LEMMA ExactStep == SafeInv /\ ExactInv /\ [ReadersNext]_readerVars => ExactInv'
<1> SUFFICES ASSUME SafeInv, ExactInv, [ReadersNext]_readerVars PROVE ExactInv'
  OBVIOUS
<1>1. CASE IndexWritten
  BY <1>1, ExactIndexWritten
<1>2. CASE IndexDamaged
  <2>1. damaged' = TRUE
    BY <1>2 DEF IndexDamaged
  <2> QED
    BY <2>1 DEF ExactInv
<1>3. CASE OpenIndex
  BY <1>3, ExactOpenIndex
<1>4. CASE Ask
  BY <1>4, ExactAsk
<1>5. CASE SearchStep
  BY <1>5, ExactSearchStep
<1>6. CASE SearchEmpty
  BY <1>6, ExactSearchEmpty
<1>7. CASE ReadOffset
  BY <1>7, ExactReadOffset
<1>8. CASE VerifyCRC
  BY <1>8, ExactVerifyCRC
<1>9. CASE VerifyCRCMisplaced
  <2>1. damaged' = damaged /\ ipc \in Hit /\ Misplaced
    BY <1>9 DEF VerifyCRCMisplaced, indexVars, Hit
  <2>2. damaged
    <3>1. SUFFICES ASSUME ~damaged PROVE FALSE
      OBVIOUS
    <3>2. Written(index, objects) /\ count = Size(objects)
      BY <2>1, <3>1 DEF ExactInv
    <3>3. PICK i \in 1..count : HitFacts(i)
      BY <2>1, <3>1, HitPlace
    <3>4. OffsetsAre(i)
      BY <3>2, OffsetsRead
    <3> QED
      BY <2>1, <3>4 DEF OffsetsAre
  <2> QED
    BY <2>1, <2>2 DEF ExactInv
<1>10. CASE UNCHANGED lookupVars
  <2>1. /\ index' = index /\ objects' = objects /\ damaged' = damaged /\ count' = count /\ want' = want
        /\ answer' = answer /\ ipc' = ipc /\ lo' = lo /\ hi' = hi
    BY <1>10 DEF lookupVars, indexVars
  <2>2. (Bracketed' <=> Bracketed) /\ (Answered' <=> Answered)
    BY <2>1 DEF Bracketed, Answered
  <2> QED
    BY <2>1, <2>2 DEF ExactInv
<1>11. IndexWritten \/ LookupNext \/ UNCHANGED lookupVars
  BY DEF ReadersNext, ReadTable, ReadIndex, ReadVarint, Read, readerVars
<1> QED
  BY <1>1, <1>2, <1>3, <1>4, <1>5, <1>6, <1>7, <1>8, <1>9, <1>10, <1>11 DEF LookupNext

\* Whatever the objects and their offsets, a file as it was written is accepted;
\* every object is then found at its pack and offset, in either kind of offset
\* table, no other id is found, and a CRC is taken over exactly the object's
\* bytes (FindOffset, searchV2, Find, searchOID, verifyPackCRC, OffsetAfter).
THEOREM LookupExactHolds == ReadersSpec => []LookupExact
<1>1. ReadersInit => SafeInv /\ ExactInv
  BY SafeInit, ExactInit DEF ReadersInit
<1>2. SafeInv /\ ExactInv /\ [ReadersNext]_readerVars => SafeInv' /\ ExactInv'
  BY SafeStep, ExactStep
<1>3. ExactInv => LookupExact
  BY ExactAnswers
<1> QED
  BY <1>1, <1>2, <1>3, PTL DEF ReadersSpec

(***************************************************************************)
(* Powers of two.  What is known of them is how many subsets a set has.    *)
(***************************************************************************)
Power(n) == 2^n

\* The number of subsets of a set with n members.
LEMMA PowerSubsets ==
    ASSUME NEW n \in Nat
    PROVE  IsFiniteSet(SUBSET (1..n)) /\ Cardinality(SUBSET (1..n)) = Power(n)
<1>1. IsFiniteSet(1..n) /\ Cardinality(1..n) = n
  BY FS_Interval
<1>2. IsFiniteSet(SUBSET (1..n)) /\ Cardinality(SUBSET (1..n)) = 2^Cardinality(1..n)
  BY <1>1, FS_SUBSET
<1> QED
  BY <1>1, <1>2 DEF Power

LEMMA PowerZero == Power(0) = 1
<1>1. SUBSET (1..0) = {{}}
  OBVIOUS
<1>2. Cardinality({{}}) = 1
  BY FS_Singleton
<1>3. Cardinality(SUBSET (1..0)) = Power(0)
  BY PowerSubsets
<1> QED
  BY <1>1, <1>2, <1>3

LEMMA PowerNat == \A n \in Nat : Power(n) \in Nat
<1>1. ASSUME NEW n \in Nat PROVE Power(n) \in Nat
  <2>1. IsFiniteSet(SUBSET (1..n)) /\ Cardinality(SUBSET (1..n)) = Power(n)
    BY PowerSubsets
  <2> QED
    BY <2>1, FS_CardinalityType
<1> QED
  BY <1>1

\* With one more member there are the same subsets without it and with it.
LEMMA PowerNext == \A n \in Nat : Power(n + 1) = 2 * Power(n)
<1> SUFFICES ASSUME NEW n \in Nat PROVE Power(n + 1) = 2 * Power(n)
  OBVIOUS
<1>1. PICK S : S = SUBSET (1..n)
  OBVIOUS
<1>2. PICK T : T = {s \cup {n + 1} : s \in S}
  OBVIOUS
<1>3. PICK U : U = SUBSET (1..(n + 1))
  OBVIOUS
<1>4. IsFiniteSet(S) /\ Cardinality(S) = Power(n)
  BY <1>1, PowerSubsets
<1>5. Cardinality(U) = Power(n + 1)
  <2>1. PICK k \in Nat : k = n + 1
    OBVIOUS
  <2>2. Cardinality(SUBSET (1..k)) = Power(k)
    BY PowerSubsets
  <2> QED
    BY <1>3, <2>1, <2>2
<1>6. \A s \in S : n + 1 \notin s
  BY <1>1
<1>7. ExistsBijection(S, T)
  <2>1. PICK f : f = [s \in S |-> s \cup {n + 1}]
    OBVIOUS
  <2>2. f \in [S -> T]
    BY <1>2, <2>1
  <2>3. \A t \in T : \E s \in S : f[s] = t
    BY <1>2, <2>1
  <2>4. ASSUME NEW s \in S, NEW t \in S, f[s] = f[t] PROVE s = t
    <3>1. s \cup {n + 1} = t \cup {n + 1}
      BY <2>1, <2>4
    <3>2. s = (s \cup {n + 1}) \ {n + 1} /\ t = (t \cup {n + 1}) \ {n + 1}
      BY <1>6
    <3> QED
      BY <3>1, <3>2
  <2>5. f \in Bijection(S, T)
    BY <2>2, <2>3, <2>4 DEF Bijection, Injection, Surjection, IsInjective
  <2> QED
    BY <2>5 DEF ExistsBijection
<1>8. IsFiniteSet(T) /\ Cardinality(T) = Cardinality(S)
  BY <1>4, <1>7, FS_Bijection
<1>9. S \cap T = {}
  BY <1>2, <1>6
<1>10. U = S \cup T
  <2>1. 1..(n + 1) = (1..n) \cup {n + 1}
    OBVIOUS
  <2>2. ASSUME NEW u \in U PROVE u \in S \cup T
    <3>1. CASE n + 1 \in u
      <4>1. u \ {n + 1} \in S
        BY <1>1, <1>3, <2>1
      <4>2. u = (u \ {n + 1}) \cup {n + 1}
        BY <3>1
      <4> QED
        BY <1>2, <4>1, <4>2
    <3>2. CASE n + 1 \notin u
      BY <1>1, <1>3, <2>1, <3>2
    <3> QED
      BY <3>1, <3>2
  <2>3. S \subseteq U /\ T \subseteq U
    BY <1>1, <1>2, <1>3, <2>1
  <2> QED
    BY <2>2, <2>3
<1>11. Cardinality(S \cup T) = Cardinality(S) + Cardinality(T) - Cardinality(S \cap T)
  BY <1>4, <1>8, FS_Union
<1>12. Cardinality(S \cap T) = 0
  BY <1>9, FS_EmptySet
<1>13. Power(n) \in Nat
  BY PowerNat
<1> QED
  BY <1>4, <1>5, <1>8, <1>10, <1>11, <1>12, <1>13

LEMMA Product == \A a, b, c \in Nat : a <= b => a * c <= b * c /\ a * c \in Nat
  OBVIOUS

LEMMA PowerSum ==
    ASSUME NEW m \in Nat, NEW n \in Nat
    PROVE  Power(m + n) = Power(m) * Power(n)
<1> DEFINE S == {k \in Nat : Power(k + n) = Power(k) * Power(n)}
<1>1. Power(n) \in Nat
  BY PowerNat
<1>2. 0 \in S
  BY <1>1, PowerZero
<1>3. ASSUME NEW k \in Nat, k \in S PROVE k + 1 \in S
  <2>1. PICK p \in Nat, q \in Nat : p = Power(n) /\ q = Power(k)
    BY PowerNat
  <2>2. Power(k + n) = q * p
    BY <1>3, <2>1
  <2>3. Power((k + n) + 1) = 2 * (q * p) /\ Power(k + 1) = 2 * q
    BY <2>1, <2>2, PowerNext
  <2>4. (k + 1) + n = (k + n) + 1
    OBVIOUS
  <2>5. 2 * (q * p) = (2 * q) * p
    OBVIOUS
  <2>6. Power((k + 1) + n) = Power(k + 1) * Power(n)
    BY <2>1, <2>3, <2>4, <2>5
  <2> QED
    BY <2>6
<1>4. Nat \subseteq S
  <2> HIDE DEF S
  <2> QED
    BY <1>2, <1>3, SetInduction
<1> QED
  BY <1>4

LEMMA PowerGrows ==
    ASSUME NEW m \in Nat, NEW n \in Nat, m <= n
    PROVE  1 <= Power(m) /\ Power(m) <= Power(n)
<1> DEFINE S == {k \in Nat : 1 <= Power(k) /\ Power(m) <= Power(m + k)}
<1>1. Power(m) \in Nat /\ \A k \in Nat : Power(k) \in Nat /\ Power(k + 1) = 2 * Power(k)
  BY PowerNat, PowerNext
<1>2. 0 \in S
  BY <1>1, PowerZero
<1>3. ASSUME NEW k \in Nat, k \in S PROVE k + 1 \in S
  <2>1. m + (k + 1) = (m + k) + 1 /\ m + k \in Nat
    OBVIOUS
  <2>2. Power((m + k) + 1) = 2 * Power(m + k) /\ Power(m + k) \in Nat
    BY <1>1, <2>1
  <2>3. Power(k + 1) = 2 * Power(k) /\ Power(k) \in Nat
    BY <1>1
  <2>4. 1 <= Power(k) /\ Power(m) <= Power(m + k)
    BY <1>3
  <2>5. 1 <= Power(k + 1)
    BY <2>3, <2>4
  <2>6. Power(m) <= Power(m + (k + 1))
    BY <1>1, <2>1, <2>2, <2>4
  <2> QED
    BY <2>5, <2>6
<1>4. Nat \subseteq S
  <2> HIDE DEF S
  <2> QED
    BY <1>2, <1>3, SetInduction
<1>5. m \in S /\ n - m \in S /\ m + (n - m) = n
  BY <1>4
<1> QED
  BY <1>5

(***************************************************************************)
(* Integers in a word.                                                     *)
(***************************************************************************)
\* What the constants say of the powers the decoders use.
WidthPowers ==
    /\ Group \in Nat /\ 1 <= Group /\ FirstGroup \in Nat /\ 1 <= FirstGroup /\ FirstGroup <= Group
    /\ Width \in Nat /\ 2 * Group < Width
    /\ Power(Group) \in Nat /\ 2 <= Power(Group)
    /\ Power(Width - 1) \in Nat /\ Power(Width) = 2 * Power(Width - 1)
    /\ 1 <= Power(Width - 1)
    /\ Power(Width - Group) \in Nat /\ Power(Width) = Power(Width - Group) * Power(Group)
    /\ Power(Width - 1 - Group) \in Nat /\ Power(Width - 1) = Power(Width - 1 - Group) * Power(Group)
    /\ 1 <= Power(Width - Group) /\ 1 <= Power(Width - 1 - Group)
    /\ Power(FirstGroup) <= Power(Group) /\ Power(FirstGroup) \in Nat
    /\ Power(Group) <= Power(Width - 1)

LEMMA WidthFacts == WidthPowers
<1>1. /\ Group \in Nat /\ 1 <= Group /\ FirstGroup \in Nat /\ 1 <= FirstGroup /\ FirstGroup <= Group
      /\ Width \in Nat /\ 2 * Group < Width
  BY GroupAssumption, WidthAssumption
<1>2. PICK a \in Nat, b \in Nat, c \in Nat : a = Width - 1 /\ b = Width - Group /\ c = Width - 1 - Group
  BY <1>1
<1>3. a + 1 = Width /\ b + Group = Width /\ c + Group = a /\ Group <= a
  BY <1>1, <1>2
<1>4. Power(a + 1) = 2 * Power(a) /\ Power(a) \in Nat /\ Power(b) \in Nat /\ Power(c) \in Nat
      /\ Power(Group) \in Nat /\ Power(FirstGroup) \in Nat
  BY <1>1, PowerNat, PowerNext
<1>5. Power(b + Group) = Power(b) * Power(Group) /\ Power(c + Group) = Power(c) * Power(Group)
  BY <1>1, PowerSum
<1>6. Power(FirstGroup) <= Power(Group) /\ Power(Group) <= Power(a)
      /\ 1 <= Power(a) /\ 1 <= Power(b) /\ 1 <= Power(c)
  BY <1>1, <1>3, PowerGrows
<1>7. 2 <= Power(Group)
  <2>1. Power(1) = 2
    <3>1. Power(0 + 1) = 2 * Power(0)
      BY PowerNext
    <3> QED
      BY <3>1, PowerZero
  <2>2. Power(1) <= Power(Group)
    BY <1>1, PowerGrows
  <2> QED
    BY <2>1, <2>2
<1> QED
  BY <1>1, <1>2, <1>3, <1>4, <1>5, <1>6, <1>7 DEF WidthPowers

\* A number that fits is itself.
LEMMA Fits ==
    ASSUME NEW n \in Nat
    PROVE  /\ n < Power(Width - 1) => Signed(n) = n
           /\ n < Power(Width) => Unsigned(n) = n
<1>1. PICK w \in Nat, h \in Nat : w = Power(Width) /\ h = Power(Width - 1) /\ w = 2 * h /\ 1 <= h
  BY WidthFacts DEF WidthPowers
<1>2. ASSUME n < w PROVE n % w = n
  BY <1>1, <1>2
<1>3. Signed(n) = LET u == n % w IN IF u < h THEN u ELSE u - w
  BY <1>1 DEF Signed, Power
<1>4. Unsigned(n) = n % w
  BY <1>1 DEF Unsigned, Power
<1> QED
  BY <1>1, <1>2, <1>3, <1>4

\* The largest number of a kind is one less than a power.
Room == IF kind = "reftable" THEN Power(Width) ELSE Power(Width - 1)

LEMMA RoomFacts == Room \in Nat /\ 1 <= Room /\ Largest = Room - 1
<1>1. Largest = Room - 1
  BY DEF Largest, Room, Power
<1> QED
  BY <1>1, WidthFacts DEF WidthPowers, Room

\* What a decoder has of a number whose lowest bits come first.
LowerRead ==
    /\ shift \in Nat /\ exact < Power(shift)
    /\ kind = "pack" => shift < Width
    /\ exact < Power(Width - 1) => val = exact

\* And of one whose highest bits come first, of which every byte but the last
\* has had one added: it has as many bits as there were bytes.
UpperRead ==
    /\ val = exact /\ exact < Room
    /\ Power(Group * (used - 1)) <= exact + 1
    /\ exact + 3 <= Power(Group * used + 1)

VarintInv ==
    /\ kind \in VarintKinds
    /\ vpc \in {"more", "done"} =>
          /\ used \in Nat \ {0} /\ exact \in Nat
          /\ IF kind \in {"pack", "delta"} THEN LowerRead ELSE UpperRead
    /\ vpc = "refused" /\ kind \in {"ofs", "reftable"} => (exact + 1) * 2^Group > Largest

LEMMA VarintAnswers == VarintInv => VarintExact
<1> SUFFICES ASSUME VarintInv PROVE VarintExact
  OBVIOUS
<1>1. ASSUME vpc = "done", kind = "delta" => exact <= Largest PROVE val = exact
  <2>1. CASE kind = "pack"
    <3>1. exact \in Nat /\ shift \in Nat /\ exact < Power(shift) /\ shift < Width
          /\ (exact < Power(Width - 1) => val = exact)
      BY <1>1, <2>1 DEF VarintInv, LowerRead
    <3>2. PICK a \in Nat : a = Width - 1 /\ shift <= a
      BY <3>1, WidthFacts DEF WidthPowers
    <3>3. Power(shift) <= Power(a) /\ Power(shift) \in Nat /\ Power(a) \in Nat
      BY <3>1, <3>2, PowerGrows, PowerNat
    <3>4. exact < Power(a)
      BY <3>1, <3>3
    <3> QED
      BY <3>1, <3>2, <3>4
  <2>2. CASE kind = "delta"
    <3>1. exact \in Nat /\ (exact < Power(Width - 1) => val = exact)
      BY <1>1, <2>2 DEF VarintInv, LowerRead
    <3>2. Largest = Power(Width - 1) - 1 /\ Power(Width - 1) \in Nat
      BY <2>2, RoomFacts DEF Room
    <3>3. exact < Power(Width - 1)
      BY <1>1, <2>2, <3>1, <3>2
    <3> QED
      BY <3>1, <3>3
  <2>3. CASE kind \notin {"pack", "delta"}
    BY <1>1, <2>3 DEF VarintInv, UpperRead
  <2> QED
    BY <2>1, <2>2, <2>3
<1> QED
  BY <1>1 DEF VarintInv, VarintExact

LEMMA VarintBegins == VarintInit => VarintInv
  BY DEF VarintInit, VarintInv, VarintKinds

LEMMA VarintFirst == VarintInv /\ FirstByte => VarintInv'
<1> SUFFICES ASSUME VarintInv, FirstByte PROVE VarintInv'
  OBVIOUS
<1>1. /\ kind' = kind /\ kind \in VarintKinds /\ used' = 1 /\ vpc' \in {"done", "more"}
      /\ shift' = IF kind = "pack" THEN FirstGroup ELSE Group
  BY DEF FirstByte, VarintInv, Continue
<1>2. PICK bits : /\ bits \in 0..2^(IF kind = "pack" THEN FirstGroup ELSE Group) - 1
                  /\ val' = bits /\ exact' = bits
  BY DEF FirstByte
<1>3. PICK s \in Nat, p \in Nat : s = shift' /\ p = Power(s) /\ 1 <= s /\ s <= Group /\ p <= Power(Group)
  BY <1>1, WidthFacts DEF WidthPowers
<1>4. bits \in 0..p - 1
  BY <1>1, <1>2, <1>3 DEF Power
<1>5. bits \in Nat /\ bits < p
  BY <1>3, <1>4
<1>6. PICK g \in Nat : g = Power(Group) /\ 2 <= g
  BY WidthFacts DEF WidthPowers
<1>7. CASE kind \in {"pack", "delta"}
  <2>1. s < Width
    BY <1>3, WidthFacts DEF WidthPowers
  <2>2. LowerRead'
    BY <1>1, <1>2, <1>3, <1>5, <2>1 DEF LowerRead
  <2> QED
    BY <1>1, <1>2, <1>5, <1>7, <2>2 DEF VarintInv
<1>8. CASE kind \notin {"pack", "delta"}
  <2>1. p = g
    BY <1>1, <1>3, <1>6, <1>8
  <2>2. bits < Room'
    <3>1. Room' = Room
      BY <1>1 DEF Room
    <3>2. g <= Room
      BY <1>6, WidthFacts DEF WidthPowers, Room
    <3> QED
      BY <1>5, <1>6, <2>1, <3>1, <3>2, RoomFacts
  <2>3. Power(Group * (1 - 1)) <= bits + 1
    <3>1. Group * (1 - 1) = 0
      BY WidthFacts DEF WidthPowers
    <3> QED
      BY <1>5, <3>1, PowerZero
  <2>4. bits + 3 <= Power(Group * 1 + 1)
    <3>1. Power(Group + 1) = 2 * g
      BY <1>6, PowerNext, WidthFacts DEF WidthPowers
    <3>2. Group * 1 + 1 = Group + 1
      BY WidthFacts DEF WidthPowers
    <3>3. bits + 3 <= 2 * g
      BY <1>5, <1>6, <2>1
    <3> QED
      BY <3>1, <3>2, <3>3
  <2>5. UpperRead'
    BY <1>1, <1>2, <2>2, <2>3, <2>4 DEF UpperRead
  <2> QED
    BY <1>1, <1>2, <1>5, <1>8, <2>5 DEF VarintInv
<1> QED
  BY <1>7, <1>8

\* One more byte above the bits there are.
LEMMA ByteAbove ==
    ASSUME NEW s \in Nat, NEW e \in Nat, e < Power(s), NEW bits \in 0..2^Group - 1
    PROVE  e + bits * 2^s \in Nat /\ e + bits * 2^s < Power(s + Group)
<1>1. PICK p \in Nat, g \in Nat : p = Power(s) /\ g = Power(Group) /\ 2 <= g
  BY PowerNat, WidthFacts DEF WidthPowers
<1>2. p = 2^s /\ g = 2^Group
  BY <1>1 DEF Power
<1>3. bits \in Nat /\ bits <= g - 1 /\ g - 1 \in Nat
  BY <1>1, <1>2
<1>4. bits * p <= (g - 1) * p /\ bits * p \in Nat
  BY <1>1, <1>3, Product
<1>5. (g - 1) * p = g * p - p /\ g * p \in Nat
  BY <1>1
<1>6. Power(s + Group) = p * g
  BY <1>1, PowerSum, WidthFacts DEF WidthPowers
<1>7. p * g = g * p
  BY <1>1
<1>8. e + bits * p < g * p
  BY <1>1, <1>4, <1>5
<1> QED
  BY <1>1, <1>2, <1>4, <1>6, <1>7, <1>8

LEMMA VarintPack == VarintInv /\ PackByte => VarintInv'
<1> SUFFICES ASSUME VarintInv, PackByte PROVE VarintInv'
  OBVIOUS
<1>1. kind = "pack" /\ kind' = kind /\ vpc = "more" /\ shift' = shift + Group /\ used' = used + 1
      /\ vpc' \in {"refused", "more", "done"} /\ (vpc' # "refused" => ~(shift' >= Width))
  BY DEF PackByte, Continue
<1>2. used \in Nat \ {0} /\ exact \in Nat /\ LowerRead
  BY <1>1 DEF VarintInv
<1>3. PICK bits \in 0..2^Group - 1 : val' = Signed(val + bits * 2^shift) /\ exact' = exact + bits * 2^shift
  BY DEF PackByte
<1>4. shift \in Nat /\ exact < Power(shift) /\ shift < Width /\ (exact < Power(Width - 1) => val = exact)
  BY <1>1, <1>2 DEF LowerRead
<1>5. val = exact
  <2>1. PICK a \in Nat : a = Width - 1 /\ shift <= a
    BY <1>4, WidthFacts DEF WidthPowers
  <2>2. Power(shift) <= Power(a) /\ Power(shift) \in Nat /\ Power(a) \in Nat
    BY <1>4, <2>1, PowerGrows, PowerNat
  <2> QED
    BY <1>2, <1>4, <2>1, <2>2
<1>6. PICK e \in Nat : e = exact' /\ e < Power(shift + Group) /\ val' = Signed(e)
  BY <1>2, <1>3, <1>4, <1>5, ByteAbove
<1>7. shift' \in Nat /\ (vpc' # "refused" => shift' < Width)
  BY <1>1, <1>4, WidthFacts DEF WidthPowers
<1>8. e < Power(Width - 1) => val' = e
  BY <1>6, Fits
<1>9. vpc' # "refused" => LowerRead'
  BY <1>1, <1>6, <1>7, <1>8 DEF LowerRead
<1> QED
  BY <1>1, <1>2, <1>6, <1>9 DEF VarintInv, VarintKinds

LEMMA VarintDelta == VarintInv /\ DeltaByte => VarintInv'
<1> SUFFICES ASSUME VarintInv, DeltaByte PROVE VarintInv'
  OBVIOUS
<1>1. kind = "delta" /\ kind' = kind /\ vpc = "more"
  BY DEF DeltaByte, Refuse
<1>2. used \in Nat \ {0} /\ exact \in Nat /\ LowerRead
  BY <1>1 DEF VarintInv
<1>3. CASE shift >= Width
  <2>1. vpc' = "refused"
    BY <1>3 DEF DeltaByte, Refuse
  <2> QED
    BY <1>1, <2>1 DEF VarintInv, VarintKinds
<1>4. CASE ~(shift >= Width)
  <2>1. PICK bits \in 0..2^Group - 1 : val' = Signed(val + bits * 2^shift) /\ exact' = exact + bits * 2^shift
    BY <1>4 DEF DeltaByte
  <2>2. shift' = shift + Group /\ used' = used + 1 /\ vpc' \in {"done", "more"}
    BY <1>4 DEF DeltaByte, Continue
  <2>3. shift \in Nat /\ exact < Power(shift) /\ shift < Width /\ (exact < Power(Width - 1) => val = exact)
    BY <1>2, <1>4, WidthFacts DEF LowerRead, WidthPowers
  <2>4. val = exact
    <3>1. PICK a \in Nat : a = Width - 1 /\ shift <= a
      BY <2>3, WidthFacts DEF WidthPowers
    <3>2. Power(shift) <= Power(a) /\ Power(shift) \in Nat /\ Power(a) \in Nat
      BY <2>3, <3>1, PowerGrows, PowerNat
    <3> QED
      BY <1>2, <2>3, <3>1, <3>2
  <2>5. PICK e \in Nat : e = exact' /\ e < Power(shift + Group) /\ val' = Signed(e)
    BY <1>2, <2>1, <2>3, <2>4, ByteAbove
  <2>6. e < Power(Width - 1) => val' = e
    BY <2>5, Fits
  <2>7. shift' \in Nat
    BY <2>2, <2>3, WidthFacts DEF WidthPowers
  <2>8. LowerRead'
    BY <1>1, <2>2, <2>5, <2>6, <2>7 DEF LowerRead
  <2> QED
    BY <1>1, <1>2, <2>2, <2>5, <2>8 DEF VarintInv, VarintKinds
<1> QED
  BY <1>3, <1>4

\* Bytes that are left before reftable's limit have their bits within the word,
\* and those up to it fill the word.
LEMMA BytesFacts ==
    ASSUME NEW u \in Nat \ {0}
    PROVE  /\ ~(u >= MaxBytes) => Group * u < Width
           /\ u >= MaxBytes => Width - Group <= Group * (u - 1)
<1>1. PICK g \in Nat \ {0}, w \in Nat : g = Group /\ w = Width
  BY WidthFacts DEF WidthPowers
<1>2. PICK n \in Nat : n = (w + g - 1) \div g
  BY <1>1
<1>3. g * n <= w + g - 1 /\ w + g - 1 < g * n + g
  BY <1>1, <1>2
<1>4. n = MaxBytes
  BY <1>1, <1>2 DEF MaxBytes
<1>5. ASSUME ~(u >= n) PROVE g * u < w
  <2>1. u <= n - 1 /\ n - 1 \in Nat
    BY <1>2, <1>5
  <2>2. u * g <= (n - 1) * g
    BY <1>1, <2>1, Product
  <2>3. (n - 1) * g = g * n - g /\ u * g = g * u /\ g * n \in Nat /\ g * u \in Nat
    BY <1>1, <1>2
  <2> QED
    BY <1>1, <1>3, <2>2, <2>3
<1>6. ASSUME u >= n PROVE w - g <= g * (u - 1)
  <2>1. n * g <= u * g
    BY <1>1, <1>2, <1>6, Product
  <2>2. u * g = g * u /\ n * g = g * n /\ g * (u - 1) = g * u - g /\ g * n \in Nat /\ g * u \in Nat
    BY <1>1, <1>2
  <2> QED
    BY <1>1, <1>3, <2>1, <2>2
<1> QED
  BY <1>1, <1>4, <1>5, <1>6

\* The decoders whose bytes go from the top refuse exactly what has no room.
LEMMA RefusedOnly ==
    ASSUME kind \in {"ofs", "reftable"}, used \in Nat \ {0}, exact \in Nat, UpperRead
    PROVE  \E q \in Nat :
             /\ Room = q * Power(Group) /\ 1 <= q
             /\ (IF kind = "ofs" THEN OfsOverflows ELSE ReftableOverflows) <=> q <= exact + 1
<1>1. CASE kind = "ofs"
  <2>1. PICK q \in Nat : q = Power(Width - 1 - Group) /\ 1 <= q /\ Room = q * Power(Group)
    BY <1>1, WidthFacts DEF WidthPowers, Room
  <2>2. OfsOverflows <=> val + 1 >= q
    BY <2>1 DEF OfsOverflows, Power
  <2>3. OfsOverflows <=> q <= exact + 1
    BY <2>1, <2>2 DEF UpperRead
  <2> QED
    BY <1>1, <2>1, <2>3
<1>2. CASE kind = "reftable"
  <2>1. PICK q \in Nat, w \in Nat : q = Power(Width - Group) /\ 1 <= q /\ Room = q * Power(Group) /\ w = Power(Width)
    BY <1>2, WidthFacts DEF WidthPowers, Room
  <2>2. PICK e \in Nat : e = exact
    OBVIOUS
  <2>3. ASSUME used >= MaxBytes PROVE q <= e + 1
    <3>1. PICK a \in Nat, b \in Nat : a = Width - Group /\ b = Group * (used - 1)
      BY Product, WidthFacts DEF WidthPowers
    <3>2. a <= b
      BY <2>3, <3>1, BytesFacts
    <3>3. Power(a) <= Power(b) /\ Power(b) \in Nat
      BY <3>1, <3>2, PowerGrows, PowerNat
    <3>4. Power(b) <= e + 1
      BY <2>2, <3>1 DEF UpperRead
    <3> QED
      BY <2>1, <3>1, <3>3, <3>4
  <2>4. ASSUME ~(used >= MaxBytes) PROVE e + 1 < w
    <3>1. PICK a \in Nat, b \in Nat : a = Group * used + 1 /\ b = Width
      BY Product, WidthFacts DEF WidthPowers
    <3>2. a <= b
      <4>1. Group * used < Width /\ Group * used \in Nat
        BY <2>4, BytesFacts, Product, WidthFacts DEF WidthPowers
      <4> QED
        BY <3>1, <4>1
    <3>3. Power(a) <= Power(b) /\ Power(a) \in Nat
      BY <3>1, <3>2, PowerGrows, PowerNat
    <3>4. e + 3 <= Power(a)
      BY <2>2, <3>1 DEF UpperRead
    <3> QED
      BY <2>1, <3>1, <3>3, <3>4
  <2>5. e + 1 < w => (Unsigned(val + 1) \div 2^(Width - Group) # 0 <=> q <= e + 1)
    <3>1. PICK n \in Nat : n = e + 1
      OBVIOUS
    <3>2. val + 1 = n
      BY <2>2, <3>1 DEF UpperRead
    <3>3. n < w => Unsigned(n) = n
      BY <2>1, Fits
    <3>4. n \div q # 0 <=> q <= n
      BY <2>1
    <3>5. q = 2^(Width - Group)
      BY <2>1 DEF Power
    <3> QED
      BY <3>1, <3>2, <3>3, <3>4, <3>5
  <2>6. ReftableOverflows <=> q <= e + 1
    BY <2>3, <2>4, <2>5 DEF ReftableOverflows
  <2> QED
    BY <1>2, <2>1, <2>2, <2>6
<1> QED
  BY <1>1, <1>2

LEMMA VarintUpper == VarintInv /\ UpperByte => VarintInv'
<1> SUFFICES ASSUME VarintInv, UpperByte PROVE VarintInv'
  OBVIOUS
<1> DEFINE Overflows == IF kind = "ofs" THEN OfsOverflows ELSE ReftableOverflows
<1>1. kind \in {"ofs", "reftable"} /\ kind' = kind /\ vpc = "more"
  BY DEF UpperByte, Refuse
<1>2. used \in Nat \ {0} /\ exact \in Nat /\ UpperRead
  BY <1>1 DEF VarintInv
<1>3. PICK q \in Nat : Room = q * Power(Group) /\ 1 <= q /\ (Overflows <=> q <= exact + 1)
  BY <1>1, <1>2, RefusedOnly
<1>4. PICK g \in Nat : g = Power(Group) /\ 2 <= g
  BY WidthFacts DEF WidthPowers
<1>5. g = 2^Group
  BY <1>4 DEF Power
<1>6. PICK e \in Nat, u \in Nat \ {0} : e = exact /\ u = used
  BY <1>2
<1>7. Room' = Room /\ Room = q * g /\ q * g \in Nat
  BY <1>1, <1>3, <1>4 DEF Room
<1>8. CASE Overflows
  <2>1. vpc' = "refused" /\ exact' = exact
    BY <1>8 DEF UpperByte, Refuse
  <2>2. Largest = q * g - 1 /\ Largest' = Largest
    BY <1>1, <1>7, RoomFacts DEF Largest
  <2>3. q * g <= (e + 1) * g /\ (e + 1) * g \in Nat
    BY <1>3, <1>4, <1>6, <1>8, Product
  <2>4. (e + 1) * g > q * g - 1
    BY <1>7, <2>3
  <2> QED
    BY <1>1, <1>5, <1>6, <2>1, <2>2, <2>4 DEF VarintInv, VarintKinds
<1>9. CASE ~Overflows
  <2>1. PICK bits \in 0..2^Group - 1 :
           /\ val' = IF kind = "ofs" THEN Signed((val + 1) * 2^Group + bits)
                     ELSE Unsigned((val + 1) * 2^Group + bits)
           /\ exact' = (exact + 1) * 2^Group + bits
    BY <1>9 DEF UpperByte
  <2>2. used' = u + 1 /\ vpc' \in {"done", "more"}
    BY <1>6, <1>9 DEF UpperByte, Continue
  <2>3. bits \in Nat /\ bits <= g - 1
    BY <1>4, <1>5
  <2>4. PICK m \in Nat : m = (e + 1) * g
    BY <1>4, Product
  <2>5. PICK n \in Nat : n = m + bits /\ n = exact'
    BY <1>5, <1>6, <2>1, <2>3, <2>4
  <2>6. n < q * g
    <3>1. e + 1 <= q - 1 /\ q - 1 \in Nat
      BY <1>3, <1>6, <1>9
    <3>2. (e + 1) * g <= (q - 1) * g
      BY <1>4, <3>1, Product
    <3>3. (q - 1) * g = q * g - g
      BY <1>3, <1>4
    <3> QED
      BY <1>4, <1>7, <2>3, <2>4, <2>5, <3>2, <3>3
  <2>7. val' = n
    <3>1. val' = IF kind = "ofs" THEN Signed(n) ELSE Unsigned(n)
      BY <1>2, <1>5, <1>6, <2>1, <2>4, <2>5 DEF UpperRead
    <3>2. n < Room
      BY <1>7, <2>6
    <3> QED
      BY <1>1, <3>1, <3>2, Fits DEF Room
  <2>8. Power(Group * u) <= n + 1
    <3>1. PICK k \in Nat : k = Group * (u - 1)
      BY <1>6, Product, WidthFacts DEF WidthPowers
    <3>2. Group * u = k + Group
      BY <3>1, WidthFacts DEF WidthPowers
    <3>3. Power(k + Group) = Power(k) * g
      BY <1>4, PowerSum, WidthFacts DEF WidthPowers
    <3>4. Power(k) <= e + 1 /\ Power(k) \in Nat
      BY <1>2, <1>6, <3>1, PowerNat DEF UpperRead
    <3>5. Power(k) * g <= (e + 1) * g /\ Power(k) * g \in Nat
      BY <1>4, <3>4, Product
    <3> QED
      BY <2>3, <2>4, <2>5, <3>2, <3>3, <3>5
  <2>9. n + 3 <= Power(Group * (u + 1) + 1)
    <3>1. PICK k \in Nat : k = Group * u + 1
      BY <1>6, Product, WidthFacts DEF WidthPowers
    <3>2. Group * (u + 1) + 1 = k + Group
      BY <3>1, WidthFacts DEF WidthPowers
    <3>3. PICK p \in Nat : p = Power(k) /\ Power(k + Group) = p * g
      BY <1>4, PowerNat, PowerSum, WidthFacts DEF WidthPowers
    <3>4. e + 3 <= p
      BY <1>2, <1>6, <3>1, <3>3 DEF UpperRead
    <3>5. (e + 3) * g <= p * g /\ p * g \in Nat
      BY <1>4, <3>3, <3>4, Product
    <3>6. (e + 3) * g = (e + 1) * g + 2 * g
      BY <1>4
    <3> QED
      BY <1>4, <2>3, <2>4, <2>5, <3>2, <3>3, <3>5, <3>6
  <2>10. UpperRead'
    <3>1. used' - 1 = u
      BY <2>2
    <3> QED
      BY <1>7, <2>2, <2>5, <2>6, <2>7, <2>8, <2>9, <3>1 DEF UpperRead
  <2> QED
    BY <1>1, <2>2, <2>5, <2>10 DEF VarintInv, VarintKinds
<1> QED
  BY <1>8, <1>9

LEMMA VarintStep == VarintInv /\ [ReadersNext]_readerVars => VarintInv'
<1> SUFFICES ASSUME VarintInv, [ReadersNext]_readerVars PROVE VarintInv'
  OBVIOUS
<1>1. CASE VarintStart
  BY <1>1 DEF VarintStart, VarintInv
<1>2. CASE FirstByte
  BY <1>2, VarintFirst
<1>3. CASE Truncated
  BY <1>3 DEF Truncated, VarintInv
<1>4. CASE PackByte
  BY <1>4, VarintPack
<1>5. CASE DeltaByte
  BY <1>5, VarintDelta
<1>6. CASE UpperByte
  BY <1>6, VarintUpper
<1>7. CASE UNCHANGED varintVars
  BY <1>7 DEF varintVars, VarintInv, LowerRead, UpperRead, Room, Largest
<1>8. VarintStart \/ VarintNext \/ UNCHANGED varintVars
  BY DEF ReadersNext, ReadTable, ReadIndex, ReadVarint, Read, readerVars
<1> QED
  BY <1>1, <1>2, <1>3, <1>4, <1>5, <1>6, <1>7, <1>8 DEF VarintNext

\* Whatever the width of a word and of a byte's group of bits, what a decoder
\* returns is what the bytes say, and the distance and reftable's integer are
\* refused only when every number that begins like this is too large
\* (ReadHeader, readOfsBase, readDeltaVarint, decodeVarint).
THEOREM VarintExactHolds == ReadersSpec => []VarintExact
<1>1. ReadersInit => VarintInv
  BY VarintBegins DEF ReadersInit
<1>2. VarintInv /\ [ReadersNext]_readerVars => VarintInv'
  BY VarintStep
<1>3. VarintInv => VarintExact
  BY VarintAnswers
<1> QED
  BY <1>1, <1>2, <1>3, PTL DEF ReadersSpec


(***************************************************************************)
(* Keys in order.                                                          *)
(***************************************************************************)
\* a and b agree in their first n bytes and no further.
PartAt(a, b, n) ==
    /\ n \in Nat /\ n <= Len(a) /\ n <= Len(b)
    /\ \A k \in 1..n : a[k] = b[k]
    /\ n = Len(a) \/ n = Len(b) \/ a[n + 1] # b[n + 1]

LEMMA PartsOnce ==
    ASSUME NEW a \in Seq(Nat), NEW b \in Seq(Nat), NEW m, NEW n, PartAt(a, b, m), PartAt(a, b, n)
    PROVE  m = n
<1>1. ASSUME NEW i, NEW j, PartAt(a, b, i), PartAt(a, b, j) PROVE ~(i < j)
  <2> SUFFICES ASSUME i < j PROVE FALSE
    OBVIOUS
  <2>1. i \in Nat /\ j \in Nat /\ i + 1 \in 1..j /\ j <= Len(a) /\ j <= Len(b)
    <3>1. i \in Nat /\ j \in Nat /\ j <= Len(a) /\ j <= Len(b)
      BY <1>1 DEF PartAt
    <3>2. i + 1 \in 1..j
      BY <3>1
    <3> QED
      BY <3>1, <3>2
  <2>2. a[i + 1] = b[i + 1]
    BY <1>1, <2>1 DEF PartAt
  <2>3. i # Len(a) /\ i # Len(b)
    BY <2>1
  <2> QED
    BY <1>1, <2>2, <2>3 DEF PartAt
<1>2. m \in Nat /\ n \in Nat
  BY DEF PartAt
<1>3. ~(m < n) /\ ~(n < m)
  BY <1>1
<1> QED
  BY <1>2, <1>3

LEMMA PartsSomewhere ==
    ASSUME NEW a \in Seq(Nat), NEW b \in Seq(Nat)
    PROVE  \E n : PartAt(a, b, n)
<1>1. PICK T : T = {n \in Nat : n >= Len(a) \/ n >= Len(b) \/ a[n + 1] # b[n + 1]}
  OBVIOUS
<1>2. T \subseteq Nat /\ Len(a) \in T
  BY <1>1
<1>3. PICK m \in T : \A k \in T : m <= k
  BY <1>2, LeastNumber
<1>4. m \in Nat /\ m <= Len(a) /\ Len(b) \in T
  BY <1>1, <1>2, <1>3
<1>5. m <= Len(b)
  BY <1>3, <1>4
<1>6. ASSUME NEW k \in 1..m PROVE a[k] = b[k]
  <2>1. k - 1 \in Nat /\ ~(m <= k - 1) /\ (k - 1) + 1 = k
    BY <1>4
  <2>2. k - 1 \notin T
    BY <1>3, <2>1
  <2>3. ~(a[(k - 1) + 1] # b[(k - 1) + 1])
    BY <1>1, <2>1, <2>2
  <2> QED
    BY <2>1, <2>3
<1>7. m = Len(a) \/ m = Len(b) \/ a[m + 1] # b[m + 1]
  BY <1>1, <1>4, <1>5
<1> QED
  BY <1>4, <1>5, <1>6, <1>7 DEF PartAt

\* CommonPrefix finds the place.
LEMMA CommonPrefixParts ==
    ASSUME NEW a \in Seq(Nat), NEW b \in Seq(Nat)
    PROVE  PartAt(a, b, CommonPrefix(a, b))
<1> DEFINE Here(n) ==
        /\ n <= Len(b) /\ SubSeq(a, 1, n) = SubSeq(b, 1, n)
        /\ n = Len(a) \/ n = Len(b) \/ a[n + 1] # b[n + 1]
<1>1. PICK m : PartAt(a, b, m)
  BY PartsSomewhere
<1>2. m \in 0..Len(a) /\ Here(m)
  <2>1. m \in Nat /\ m <= Len(a) /\ m <= Len(b) /\ \A k \in 1..m : a[k] = b[k]
    BY <1>1 DEF PartAt
  <2>2. SubSeq(a, 1, m) = [k \in 1..m |-> a[k]] /\ SubSeq(b, 1, m) = [k \in 1..m |-> b[k]]
    BY <2>1
  <2>3. SubSeq(a, 1, m) = SubSeq(b, 1, m)
    BY <2>1, <2>2
  <2> QED
    BY <1>1, <2>1, <2>3 DEF PartAt
<1>3. CommonPrefix(a, b) = CHOOSE n \in 0..Len(a) : Here(n)
  BY DEF CommonPrefix
<1>4. PICK c : c = CommonPrefix(a, b)
  OBVIOUS
<1>5. c \in 0..Len(a) /\ Here(c)
  <2> HIDE DEF Here
  <2> QED
    BY <1>2, <1>3, <1>4
<1>6. ASSUME NEW k \in 1..c PROVE a[k] = b[k]
  <2>1. c \in Nat /\ c <= Len(a) /\ c <= Len(b)
    BY <1>5
  <2>2. SubSeq(a, 1, c)[k] = a[k] /\ SubSeq(b, 1, c)[k] = b[k]
    BY <2>1
  <2> QED
    BY <1>5, <2>2
<1> QED
  BY <1>4, <1>5, <1>6 DEF PartAt

LEMMA BeforeAt ==
    ASSUME NEW a \in Seq(Nat), NEW b \in Seq(Nat), NEW n, PartAt(a, b, n)
    PROVE  Before(a, b) <=> n < Len(b) /\ (n = Len(a) \/ a[n + 1] < b[n + 1])
<1>1. n = CommonPrefix(a, b)
  BY CommonPrefixParts, PartsOnce
<1> QED
  BY <1>1 DEF Before

\* Before is an order of all keys.
LEMMA BeforeOrder ==
    /\ \A a \in Seq(Nat) : ~Before(a, a)
    /\ \A a, b \in Seq(Nat) : a # b => Before(a, b) \/ Before(b, a)
    /\ \A a, b, c \in Seq(Nat) : Before(a, b) /\ Before(b, c) => Before(a, c)
<1>1. ASSUME NEW a \in Seq(Nat) PROVE ~Before(a, a)
  <2>1. PartAt(a, a, Len(a))
    BY DEF PartAt
  <2> QED
    BY <2>1, BeforeAt
<1>2. ASSUME NEW a \in Seq(Nat), NEW b \in Seq(Nat), ~Before(a, b), ~Before(b, a) PROVE a = b
  <2>1. PICK n : PartAt(a, b, n)
    BY PartsSomewhere
  <2>2. PartAt(b, a, n)
    BY <2>1 DEF PartAt
  <2>3. /\ ~(n < Len(b) /\ (n = Len(a) \/ a[n + 1] < b[n + 1]))
        /\ ~(n < Len(a) /\ (n = Len(b) \/ b[n + 1] < a[n + 1]))
    BY <1>2, <2>1, <2>2, BeforeAt
  <2>4. n \in Nat /\ n <= Len(a) /\ n <= Len(b) /\ \A k \in 1..n : a[k] = b[k]
    BY <2>1 DEF PartAt
  <2>5. ~(n < Len(a) /\ n < Len(b))
    <3>1. ASSUME n < Len(a), n < Len(b) PROVE FALSE
      <4>1. a[n + 1] \in Nat /\ b[n + 1] \in Nat
        BY <2>4, <3>1
      <4>2. a[n + 1] # b[n + 1]
        BY <2>1, <2>4, <3>1 DEF PartAt
      <4> QED
        BY <2>3, <3>1, <4>1, <4>2
    <3> QED
      BY <3>1
  <2>6. n = Len(a) /\ n = Len(b)
    BY <2>3, <2>4, <2>5
  <2>7. PICK l \in Nat : l = n /\ Len(a) = l /\ Len(b) = l
    BY <2>4, <2>6
  <2>8. a = [k \in 1..l |-> a[k]] /\ b = [k \in 1..l |-> b[k]]
    BY <2>7
  <2>9. \A k \in 1..l : a[k] = b[k]
    BY <2>4, <2>7
  <2>10. [k \in 1..l |-> a[k]] = [k \in 1..l |-> b[k]]
    BY <2>9
  <2> QED
    BY <2>8, <2>10
<1>3. ASSUME NEW a \in Seq(Nat), NEW b \in Seq(Nat), NEW c \in Seq(Nat), Before(a, b), Before(b, c)
      PROVE  Before(a, c)
  <2>1. PICK n : PartAt(a, b, n)
    BY PartsSomewhere
  <2>2. PICK m : PartAt(b, c, m)
    BY PartsSomewhere
  <2>3. n < Len(b) /\ (n = Len(a) \/ a[n + 1] < b[n + 1])
    BY <1>3, <2>1, BeforeAt
  <2>4. m < Len(c) /\ (m = Len(b) \/ b[m + 1] < c[m + 1])
    BY <1>3, <2>2, BeforeAt
  <2>5. n \in Nat /\ n <= Len(a) /\ n <= Len(b) /\ \A k \in 1..n : a[k] = b[k]
    BY <2>1 DEF PartAt
  <2>6. m \in Nat /\ m <= Len(b) /\ m <= Len(c) /\ \A k \in 1..m : b[k] = c[k]
    BY <2>2 DEF PartAt
  <2>7. CASE n < m
    <3>1. \A k \in 1..n : a[k] = c[k]
      BY <2>5, <2>6, <2>7
    <3>2. n + 1 \in 1..m
      BY <2>5, <2>6, <2>7
    <3>3. b[n + 1] = c[n + 1]
      BY <2>6, <3>2
    <3>4. n = Len(a) \/ a[n + 1] < c[n + 1]
      BY <2>3, <3>3
    <3>5. n < Len(a) => a[n + 1] \in Nat
      BY <2>5
    <3>6. c[n + 1] \in Nat
      BY <2>5, <2>6, <3>2
    <3>7. n < Len(c)
      BY <2>5, <2>6, <2>7
    <3>8. PartAt(a, c, n)
      BY <2>5, <3>1, <3>4, <3>5, <3>6, <3>7 DEF PartAt
    <3> QED
      BY <3>4, <3>7, <3>8, BeforeAt
  <2>8. CASE n = m
    <3>1. \A k \in 1..n : a[k] = c[k]
      BY <2>5, <2>6, <2>8
    <3>2. b[n + 1] < c[n + 1] /\ n < Len(c)
      BY <2>3, <2>4, <2>8
    <3>3. b[n + 1] \in Nat /\ c[n + 1] \in Nat
      BY <2>3, <2>5, <3>2
    <3>4. n < Len(a) => a[n + 1] \in Nat
      BY <2>5
    <3>5. n = Len(a) \/ a[n + 1] < c[n + 1]
      <4>1. CASE n = Len(a)
        BY <4>1
      <4>2. CASE n # Len(a)
        <5>1. n < Len(a)
          BY <2>5, <4>2
        <5>2. a[n + 1] \in Nat /\ a[n + 1] < b[n + 1]
          BY <2>3, <3>4, <4>2, <5>1
        <5> QED
          BY <3>2, <3>3, <5>2
      <4> QED
        BY <4>1, <4>2
    <3>6. PartAt(a, c, n)
      BY <2>5, <3>1, <3>2, <3>3, <3>4, <3>5 DEF PartAt
    <3> QED
      BY <3>2, <3>5, <3>6, BeforeAt
  <2>9. CASE m < n
    <3>1. \A k \in 1..m : a[k] = c[k]
      BY <2>5, <2>6, <2>9
    <3>2. m + 1 \in 1..n
      BY <2>5, <2>6, <2>9
    <3>3. a[m + 1] = b[m + 1]
      BY <2>5, <3>2
    <3>4. b[m + 1] < c[m + 1]
      <4>1. m # Len(b)
        BY <2>5, <2>6, <2>9
      <4> QED
        BY <2>4, <4>1
    <3>5. a[m + 1] \in Nat /\ c[m + 1] \in Nat
      <4>1. m + 1 \in 1..Len(a) /\ m + 1 \in 1..Len(c)
        BY SMTT(20), <2>4, <2>5, <2>6, <2>9
      <4> QED
        BY <4>1
    <3>6. PartAt(a, c, m)
      <4>1. a[m + 1] # c[m + 1]
        BY <3>3, <3>4, <3>5
      <4>2. m <= Len(a) /\ m <= Len(c)
        BY <2>4, <2>5, <2>6, <2>9
      <4> QED
        BY <2>6, <3>1, <4>1, <4>2 DEF PartAt
    <3> QED
      BY <2>4, <3>3, <3>4, <3>6, BeforeAt
  <2> QED
    BY <2>5, <2>6, <2>7, <2>8, <2>9
<1> QED
  BY <1>1, <1>2, <1>3

(***************************************************************************)
(* The entries of a table in order.                                        *)
(***************************************************************************)
EntryOf(r) ==
    /\ r = [key |-> r.key, value |-> r.value]
    /\ r.key \in Seq(Nat) /\ r.value \in {"value", "deletion"}

\* The items of seq have keys, in order.
Ordered(seq) ==
    /\ Len(seq) \in Nat
    /\ \A i \in 1..Len(seq) : seq[i].key \in Seq(Nat)
    /\ \A i, j \in 1..Len(seq) : i < j => Before(seq[i].key, seq[j].key)

Sorted(seq) ==
    /\ Ordered(seq) /\ seq = [i \in 1..Len(seq) |-> seq[i]]
    /\ \A i \in 1..Len(seq) : EntryOf(seq[i])

\* How many keys of a set come before one.
KeysBefore(K, k) == {j \in K : Before(j, k)}
KeyRank(K, k) == Cardinality(KeysBefore(K, k))

LEMMA KeyRanks ==
    ASSUME NEW K, K \subseteq Seq(Nat), IsFiniteSet(K)
    PROVE  /\ \A k \in K : KeyRank(K, k) \in 0..Cardinality(K) - 1
           /\ \A j, k \in K : Before(j, k) => KeyRank(K, j) < KeyRank(K, k)
<1>1. ASSUME NEW k, NEW T, IsFiniteSet(T), KeysBefore(K, k) \subseteq T, k \in T, k \in K
      PROVE  KeyRank(K, k) < Cardinality(T) /\ KeyRank(K, k) \in Nat
  <2>1. KeysBefore(K, k) \in SUBSET T
    BY <1>1
  <2>2. k \notin KeysBefore(K, k)
    BY <1>1, BeforeOrder DEF KeysBefore
  <2>3. KeysBefore(K, k) # T
    BY <1>1, <2>2
  <2>4. /\ KeyRank(K, k) <= Cardinality(T) /\ KeyRank(K, k) # Cardinality(T)
        /\ IsFiniteSet(KeysBefore(K, k))
    BY <1>1, <2>1, <2>3, FS_Subset DEF KeyRank
  <2>5. KeyRank(K, k) \in Nat /\ Cardinality(T) \in Nat
    BY <1>1, <2>4, FS_CardinalityType DEF KeyRank
  <2> QED
    BY <2>4, <2>5
<1>2. ASSUME NEW k \in K PROVE KeyRank(K, k) \in 0..Cardinality(K) - 1
  <2>1. KeysBefore(K, k) \subseteq K
    BY DEF KeysBefore
  <2>2. KeyRank(K, k) < Cardinality(K) /\ KeyRank(K, k) \in Nat
    BY <1>1, <2>1
  <2>3. Cardinality(K) \in Nat
    BY FS_CardinalityType
  <2> QED
    BY <2>2, <2>3
<1>3. ASSUME NEW j \in K, NEW k \in K, Before(j, k) PROVE KeyRank(K, j) < KeyRank(K, k)
  <2>1. PICK T : T = KeysBefore(K, k)
    OBVIOUS
  <2>2. T \in SUBSET K
    BY <2>1 DEF KeysBefore
  <2>3. IsFiniteSet(T)
    BY <2>2, FS_Subset
  <2>4. \A i \in K : Before(i, j) => Before(i, k)
    BY <1>3, BeforeOrder
  <2>5. KeysBefore(K, j) \subseteq T /\ j \in T
    BY <1>3, <2>1, <2>4 DEF KeysBefore
  <2>6. KeyRank(K, j) < Cardinality(T)
    BY <1>1, <2>3, <2>5
  <2> QED
    BY <2>1, <2>6 DEF KeyRank
<1> QED
  BY <1>2, <1>3

LEMMA KeyRankOnto ==
    ASSUME NEW K, K \subseteq Seq(Nat), IsFiniteSet(K), NEW n \in 0..Cardinality(K) - 1
    PROVE  \E k \in K : KeyRank(K, k) = n
<1>c. PICK c \in Nat : c = Cardinality(K)
  BY FS_CardinalityType
<1>1. PICK f : f = [k \in K |-> KeyRank(K, k)]
  OBVIOUS
<1>2. f \in [K -> 0..c - 1]
  BY <1>c, <1>1, KeyRanks
<1>3. \A j, k \in K : f[j] = f[k] => j = k
  <2>1. ASSUME NEW j \in K, NEW k \in K, j # k PROVE KeyRank(K, j) # KeyRank(K, k)
    <3>1. Before(j, k) \/ Before(k, j)
      BY <2>1, BeforeOrder
    <3>2. KeyRank(K, j) \in 0..c - 1 /\ KeyRank(K, k) \in 0..c - 1
      BY <1>c, KeyRanks
    <3>3. KeyRank(K, j) < KeyRank(K, k) \/ KeyRank(K, k) < KeyRank(K, j)
      BY <3>1, KeyRanks
    <3> QED
      BY <3>2, <3>3
  <2> QED
    BY <1>1, <2>1
<1>4. f \in Injection(K, 0..c - 1)
  BY <1>2, <1>3 DEF Injection, IsInjective
<1>5. IsFiniteSet(0..c - 1) /\ Cardinality(0..c - 1) = c
  BY FS_Interval
<1>6. f \in Surjection(K, 0..c - 1)
  BY <1>c, <1>4, <1>5, FS_Injection
<1>7. \E k \in K : f[k] = n
  BY <1>c, <1>6 DEF Surjection
<1> QED
  BY <1>1, <1>7

LEMMA SortedEntriesSorted ==
    ASSUME NEW K, K \subseteq Seq(Nat), IsFiniteSet(K), NEW values \in [K -> {"value", "deletion"}]
    PROVE  Sorted(SortedEntries(values))
<1>c. PICK c \in Nat : c = Cardinality(K)
  BY FS_CardinalityType
<1>s. PICK s : s = SortedEntries(values)
  OBVIOUS
<1>1. PICK at : at = [i \in 1..c |-> CHOOSE k \in K : KeyRank(K, k) = i - 1]
  OBVIOUS
<1>2. s = [i \in 1..c |-> [key |-> at[i], value |-> values[at[i]]]]
  <2>1. DOMAIN values = K
    OBVIOUS
  <2>2. s = [i \in 1..c |->
               LET k == CHOOSE k \in K : Cardinality({j \in K : Before(j, k)}) = i - 1
               IN [key |-> k, value |-> values[k]]]
    BY <1>c, <1>s, <2>1, Zenon DEF SortedEntries
  <2> QED
    BY <1>1, <2>2 DEF KeyRank, KeysBefore
<1>3. ASSUME NEW i \in 1..c PROVE at[i] \in K /\ KeyRank(K, at[i]) = i - 1
  <2>1. i - 1 \in 0..Cardinality(K) - 1
    BY <1>c
  <2>2. \E k \in K : KeyRank(K, k) = i - 1
    BY <2>1, KeyRankOnto
  <2>3. at[i] = CHOOSE k \in K : KeyRank(K, k) = i - 1
    BY <1>1
  <2> QED
    BY <2>2, <2>3
<1>4. ASSUME NEW i \in 1..c, NEW j \in 1..c, i < j PROVE Before(at[i], at[j])
  <2>1. /\ at[i] \in K /\ at[j] \in K
        /\ KeyRank(K, at[i]) = i - 1 /\ KeyRank(K, at[j]) = j - 1
    BY <1>3
  <2>2. at[i] # at[j]
    BY <1>4, <2>1
  <2>3. ~Before(at[j], at[i])
    <3>1. ASSUME Before(at[j], at[i]) PROVE FALSE
      <4>1. KeyRank(K, at[j]) < KeyRank(K, at[i])
        BY <2>1, <3>1, KeyRanks
      <4> QED
        BY <1>4, <2>1, <4>1
    <3> QED
      BY <3>1
  <2> QED
    BY <2>1, <2>2, <2>3, BeforeOrder
<1>5. Len(s) = c
  BY <1>2
<1>6. ASSUME NEW i \in 1..c PROVE s[i].key = at[i] /\ EntryOf(s[i])
  <2>1. s[i] = [key |-> at[i], value |-> values[at[i]]]
    BY <1>2
  <2>2. at[i] \in Seq(Nat) /\ values[at[i]] \in {"value", "deletion"}
    BY <1>3
  <2> QED
    BY <2>1, <2>2 DEF EntryOf
<1>7. s = [i \in 1..c |-> s[i]]
  BY <1>2
<1> QED
  BY <1>s, <1>4, <1>5, <1>6, <1>7 DEF Sorted, Ordered, EntryOf

(***************************************************************************)
(* Sequences cut into parts.                                               *)
(***************************************************************************)
\* e[i] is where the i-th of n parts of l items ends.
Steps(e, n, l) ==
    /\ n \in Nat \ {0} /\ l \in Nat
    /\ e[0] = 0 /\ e[n] = l
    /\ \A i \in 0..n : e[i] \in 0..l
    /\ \A i, j \in 0..n : i < j => e[i] < e[j]

Parted(groups, seq, e, n) ==
    /\ Steps(e, n, Len(seq))
    /\ groups = [i \in 1..n |-> SubSeq(seq, e[i - 1] + 1, e[i])]

LEMMA CutParts ==
    ASSUME NEW seq, Len(seq) \in Nat \ {0}, NEW cuts, cuts \subseteq 1..Len(seq) - 1
    PROVE  \E e, n : Parted(Cut(seq, cuts), seq, e, n)
<1>l. PICK l \in Nat \ {0} : l = Len(seq)
  OBVIOUS
<1>s. PICK S : S = cuts \cup {l}
  OBVIOUS
<1>1. S \subseteq 1..l /\ l \in S
  <2>1. ASSUME NEW c \in cuts PROVE c \in 1..l
    <3>1. c \in 1..l - 1
      BY <1>l
    <3> QED
      BY <3>1
  <2> QED
    BY <1>s, <2>1
<1>2. IsFiniteSet(S) /\ Numbers(S)
  <2>1. S \in SUBSET (1..l) /\ IsFiniteSet(1..l)
    BY <1>1, FS_Interval
  <2>2. IsFiniteSet(S)
    BY <2>1, FS_Subset
  <2>3. S \subseteq Nat
    BY <1>1
  <2> QED
    BY <2>2, <2>3 DEF Numbers
<1>n. PICK n \in Nat : n = Cardinality(S)
  BY <1>2, FS_CardinalityType
<1>3. n # 0
  BY <1>1, <1>2, <1>n, FS_EmptySet
<1>q. PICK q : q = Ascending(S)
  OBVIOUS
<1>4. Listed(q, S)
  BY <1>2, <1>q, AscendingListed
<1>5. /\ DOMAIN q = 1..n
      /\ \A i \in 1..n : q[i] \in S
      /\ \A i, j \in 1..n : i < j => q[i] < q[j]
  BY <1>n, <1>4 DEF Listed
<1>6. q[n] = l
  <2>1. PICK j \in 1..n : q[j] = l
    BY <1>1, <1>n, <1>4 DEF Listed
  <2>2. q[n] \in 1..l /\ n \in 1..n
    <3>1. n \in 1..n
      BY <1>3
    <3>2. q[n] \in S
      BY <1>5, <3>1
    <3> QED
      BY <1>1, <3>1, <3>2
  <2>3. ~(j < n)
    <3>1. ASSUME j < n PROVE FALSE
      <4>1. q[j] < q[n]
        BY <1>5, <2>2, <3>1
      <4> QED
        BY <2>1, <2>2, <4>1
    <3> QED
      BY <3>1
  <2> QED
    BY <2>1, <2>3
<1>e. PICK e : e = [i \in 0..n |-> IF i = 0 THEN 0 ELSE q[i]]
  OBVIOUS
<1>7. ASSUME NEW i \in 1..n PROVE e[i] = q[i] /\ q[i] \in 1..l
  <2>1. q[i] \in S
    BY <1>5
  <2>2. i \in 0..n /\ i # 0
    OBVIOUS
  <2> QED
    BY <1>1, <1>e, <2>1, <2>2
<1>8. e[0] = 0
  BY <1>e
<1>9. \A i \in 0..n : e[i] \in 0..l
  <2>1. ASSUME NEW i \in 0..n PROVE e[i] \in 0..l
    <3>1. CASE i = 0
      BY <1>8, <3>1
    <3>2. CASE i # 0
      <4>1. i \in 1..n
        BY <3>2
      <4> QED
        BY <1>7, <4>1
    <3> QED
      BY <3>1, <3>2
  <2> QED
    BY <2>1
<1>10. \A i, j \in 0..n : i < j => e[i] < e[j]
  <2>1. ASSUME NEW i \in 0..n, NEW j \in 0..n, i < j PROVE e[i] < e[j]
    <3>1. j \in 1..n /\ e[j] = q[j] /\ q[j] \in 1..l
      BY <1>7, <2>1
    <3>2. CASE i = 0
      BY <1>8, <3>1, <3>2
    <3>3. CASE i # 0
      <4>1. i \in 1..n
        BY <3>3
      <4>2. e[i] = q[i] /\ q[i] < q[j]
        BY <1>5, <1>7, <2>1, <3>1, <4>1
      <4> QED
        BY <3>1, <4>2
    <3> QED
      BY <3>2, <3>3
  <2> QED
    BY <2>1
<1>11. Steps(e, n, l)
  <2>1. e[n] = l
    BY <1>3, <1>6, <1>7
  <2> QED
    BY <1>3, <1>8, <1>9, <1>10, <2>1 DEF Steps
<1>12. Cut(seq, cuts) = [i \in 1..n |-> SubSeq(seq, e[i - 1] + 1, e[i])]
  <2>1. Cut(seq, cuts) = [i \in 1..n |-> SubSeq(seq, IF i = 1 THEN 1 ELSE q[i - 1] + 1, q[i])]
    BY <1>l, <1>s, <1>q, <1>5 DEF Cut
  <2>2. ASSUME NEW i \in 1..n PROVE (IF i = 1 THEN 1 ELSE q[i - 1] + 1) = e[i - 1] + 1 /\ q[i] = e[i]
    <3>1. CASE i = 1
      <4>1. e[i - 1] = 0
        BY <1>8, <3>1
      <4> QED
        BY <1>7, <3>1, <4>1
    <3>2. CASE i # 1
      <4>1. i - 1 \in 1..n
        BY <3>2
      <4> QED
        BY <1>7, <3>2, <4>1
    <3> QED
      BY <3>1, <3>2
  <2>3. [i \in 1..n |-> SubSeq(seq, IF i = 1 THEN 1 ELSE q[i - 1] + 1, q[i])]
        = [i \in 1..n |-> SubSeq(seq, e[i - 1] + 1, e[i])]
    BY <2>2
  <2> QED
    BY <2>1, <2>3
<1> QED
  BY <1>l, <1>11, <1>12 DEF Parted

(***************************************************************************)
(* What a block holds.                                                     *)
(***************************************************************************)
\* A key is put together from what it shares with another and from the rest.
LEMMA KeyJoined ==
    ASSUME NEW key \in Seq(Nat), NEW before \in Seq(Nat), NEW p \in Nat,
           p <= Len(key), p <= Len(before), \A k \in 1..p : key[k] = before[k]
    PROVE  SubSeq(before, 1, p) \o SubSeq(key, p + 1, Len(key)) = key
<1>l. PICK l \in Nat : l = Len(key)
  OBVIOUS
<1>a. PICK a : a = SubSeq(before, 1, p)
  OBVIOUS
<1>b. PICK b : b = SubSeq(key, p + 1, l)
  OBVIOUS
<1>1. a \in Seq(Nat) /\ Len(a) = p /\ \A k \in 1..p : a[k] = key[k]
  BY SMTT(20), <1>a
<1>2. b \in Seq(Nat) /\ Len(b) = l - p /\ \A k \in 1..l - p : b[k] = key[p + k]
  <2>1. b = [k \in 1..((l - (p + 1)) + 1) |-> key[((p + 1) + k) - 1]]
    BY <1>l, <1>b
  <2>2. (l - (p + 1)) + 1 = l - p /\ \A k \in 1..l - p : ((p + 1) + k) - 1 = p + k
    BY <1>l
  <2>3. b = [k \in 1..l - p |-> key[p + k]]
    BY <2>1, <2>2
  <2>4. \A k \in 1..l - p : p + k \in 1..l
    OBVIOUS
  <2>5. l - p \in Nat /\ \A k \in 1..l - p : key[p + k] \in Nat
    BY <1>l, <2>4
  <2> QED
    BY <2>3, <2>5
<1>c. PICK c : c = a \o b
  OBVIOUS
<1>3. c \in Seq(Nat) /\ Len(c) = l
  <2>0. a \in Seq(Nat) /\ b \in Seq(Nat)
    BY <1>1, <1>2
  <2>1. c \in Seq(Nat) /\ Len(c) = Len(a) + Len(b)
    BY <1>c, <2>0
  <2> QED
    BY <1>l, <1>1, <1>2, <2>1
<1>4. ASSUME NEW k \in 1..l PROVE c[k] = key[k]
  <2>1. CASE k <= p
    <3>1. k \in 1..p
      BY <2>1
    <3>2. c[k] = a[k]
      BY <1>1, <1>2, <1>3, <1>c, <3>1
    <3> QED
      BY <1>1, <3>1, <3>2
  <2>2. CASE k > p
    <3>1. k - p \in 1..l - p /\ p + (k - p) = k
      BY <2>2
    <3>2. c[k] = b[k - p]
      BY <1>1, <1>2, <1>3, <1>c, <2>2
    <3>3. b[k - p] = key[p + (k - p)]
      BY <1>2, <3>1
    <3> QED
      BY <3>1, <3>2, <3>3
  <2> QED
    BY <2>1, <2>2
<1>5. c = [k \in 1..l |-> c[k]] /\ key = [k \in 1..l |-> key[k]]
  BY <1>l, <1>3
<1>6. [k \in 1..l |-> c[k]] = [k \in 1..l |-> key[k]]
  BY <1>4
<1> QED
  BY <1>l, <1>a, <1>b, <1>c, <1>5, <1>6

\* b has the items of seq behind the a-th up to the z-th: their values, their
\* keys from the restarts on, and whole keys at the restarts.
Holds(b, type, seq, a, z) ==
    /\ b.type = type /\ DOMAIN b.recs = 1..z - a /\ Len(b.recs) = z - a
    /\ b.restarts \subseteq 1..z - a /\ 1 \in b.restarts
    /\ \A i \in 1..z - a : b.recs[i].value = seq[a + i].value
    /\ \A i \in b.restarts : b.recs[i].suffix = seq[a + i].key
    /\ \A i \in b.restarts, before \in Seq(Nat) : DecodeKey(b.recs[i], before) = seq[a + i].key
    /\ \A i \in 2..z - a : DecodeKey(b.recs[i], seq[a + (i - 1)].key) = seq[a + i].key

LEMMA WriteBlockHolds ==
    ASSUME NEW type, NEW seq, NEW a \in Nat, NEW z \in Nat, a < z, z <= Len(seq), Len(seq) \in Nat,
           \A i \in 1..Len(seq) : seq[i].key \in Seq(Nat),
           NEW interval
    PROVE  Holds(WriteBlock(type, SubSeq(seq, a + 1, z), interval), type, seq, a, z)
<1>m. PICK m \in Nat \ {0} : m = z - a
  OBVIOUS
<1>t. PICK items : items = SubSeq(seq, a + 1, z)
  OBVIOUS
<1>1. items = [i \in 1..m |-> seq[a + i]]
  <2>1. items = [i \in 1..((z - (a + 1)) + 1) |-> seq[((a + 1) + i) - 1]]
    BY <1>t
  <2>2. (z - (a + 1)) + 1 = m
    BY <1>m
  <2>3. \A i \in 1..m : ((a + 1) + i) - 1 = a + i
    OBVIOUS
  <2> QED
    BY <2>1, <2>2, <2>3
<1>2. DOMAIN items = 1..m /\ \A i \in 1..m : items[i] = seq[a + i]
  BY <1>1
<1>k. PICK key : key = [i \in 1..m |-> seq[a + i].key]
  OBVIOUS
<1>3. \A i \in 1..m : key[i] \in Seq(Nat) /\ items[i].key = key[i] /\ seq[a + i].key = key[i]
  <2>1. \A i \in 1..m : a + i \in 1..Len(seq)
    BY <1>m
  <2> QED
    BY <1>2, <1>k, <2>1
<1>r. PICK R : R = {i \in 1..m : i % interval = 1 % interval}
  OBVIOUS
<1>p. PICK p : p = [i \in 1..m |-> IF i % interval = 1 % interval THEN 0
                                     ELSE CommonPrefix(items[i].key, items[i - 1].key)]
  OBVIOUS
<1>b. PICK b : b = WriteBlock(type, items, interval)
  OBVIOUS
<1>4. /\ b.type = type /\ b.restarts = R
      /\ b.recs = [i \in 1..m |-> [prefix |-> p[i], suffix |-> SubSeq(key[i], p[i] + 1, Len(key[i])),
                                   value |-> items[i].value]]
  BY <1>2, <1>3, <1>r, <1>p, <1>b DEF WriteBlock
<1>5. ASSUME NEW i \in 1..m
      PROVE  b.recs[i].prefix = p[i] /\ b.recs[i].suffix = SubSeq(key[i], p[i] + 1, Len(key[i]))
             /\ b.recs[i].value = seq[a + i].value
  BY <1>2, <1>4
<1>6. DOMAIN b.recs = 1..m /\ Len(b.recs) = m
  BY <1>4
<1>7. 1 \in R /\ R \subseteq 1..m
  BY <1>r
<1>8. ASSUME NEW i \in R
      PROVE  b.recs[i].suffix = key[i] /\ \A before \in Seq(Nat) : DecodeKey(b.recs[i], before) = key[i]
  <2>1. i \in 1..m /\ p[i] = 0
    BY <1>r, <1>p
  <2>2. key[i] \in Seq(Nat)
    BY <1>3, <2>1
  <2>3. SubSeq(key[i], p[i] + 1, Len(key[i])) = key[i]
    BY <2>1, <2>2
  <2>4. b.recs[i].prefix = 0 /\ b.recs[i].suffix = key[i]
    BY <1>5, <2>1, <2>3
  <2>5. ASSUME NEW before \in Seq(Nat) PROVE DecodeKey(b.recs[i], before) = key[i]
    <3>1. SubSeq(before, 1, 0) \o SubSeq(key[i], 0 + 1, Len(key[i])) = key[i]
      BY <2>2, KeyJoined
    <3>2. SubSeq(key[i], 0 + 1, Len(key[i])) = key[i]
      BY <2>2
    <3> QED
      BY <2>4, <3>1, <3>2 DEF DecodeKey
  <2> QED
    BY <2>4, <2>5
<1>9. ASSUME NEW i \in 2..m PROVE DecodeKey(b.recs[i], key[i - 1]) = key[i]
  <2>1. i \in 1..m /\ i - 1 \in 1..m
    OBVIOUS
  <2>2. key[i] \in Seq(Nat) /\ key[i - 1] \in Seq(Nat)
    BY <1>3, <2>1
  <2>3. CASE i \in R
    BY <1>8, <2>2, <2>3
  <2>4. CASE i \notin R
    <3>1. p[i] = CommonPrefix(key[i], key[i - 1])
      BY <1>3, <1>r, <1>p, <2>1, <2>4
    <3>2. PartAt(key[i], key[i - 1], p[i])
      BY <2>2, <3>1, CommonPrefixParts
    <3>3. SubSeq(key[i - 1], 1, p[i]) \o SubSeq(key[i], p[i] + 1, Len(key[i])) = key[i]
      <4>1. /\ p[i] \in Nat /\ p[i] <= Len(key[i]) /\ p[i] <= Len(key[i - 1])
            /\ \A k \in 1..p[i] : key[i][k] = key[i - 1][k]
        BY <3>2 DEF PartAt
      <4> QED
        BY <2>2, <4>1, KeyJoined
    <3> QED
      BY <1>5, <2>1, <3>3 DEF DecodeKey
  <2> QED
    BY <2>3, <2>4
<1>10. \A i \in 2..m : seq[a + (i - 1)].key = key[i - 1] /\ seq[a + i].key = key[i]
  <2>1. \A i \in 2..m : i \in 1..m /\ i - 1 \in 1..m
    OBVIOUS
  <2> QED
    BY <1>3, <2>1
<1>11. \A i \in 1..m : b.recs[i].value = seq[a + i].value
  BY <1>5
<1>12. \A i \in R : seq[a + i].key = key[i]
  BY <1>3, <1>7
<1>13. \A i \in R : b.recs[i].suffix = seq[a + i].key
  BY <1>8, <1>12
<1>14. \A i \in R, before \in Seq(Nat) : DecodeKey(b.recs[i], before) = seq[a + i].key
  BY <1>8, <1>12
<1>15. \A i \in 2..m : DecodeKey(b.recs[i], seq[a + (i - 1)].key) = seq[a + i].key
  BY <1>9, <1>10
<1>16. Holds(b, type, seq, a, z)
  BY <1>m, <1>4, <1>6, <1>7, <1>11, <1>13, <1>14, <1>15 DEF Holds
<1> QED
  BY <1>t, <1>b, <1>16

(***************************************************************************)
(* Searches in a block.                                                    *)
(***************************************************************************)
LEMMA GreatestNumber ==
    ASSUME NEW l \in Nat, NEW T, T \subseteq 1..l, T # {}
    PROVE  \E m \in T : \A k \in T : k <= m
<1>1. PICK U : U = {l - k : k \in T}
  OBVIOUS
<1>2. U \subseteq Nat /\ U # {}
  <2>1. \A k \in T : k \in 1..l
    OBVIOUS
  <2>2. \A k \in T : l - k \in Nat
    BY <2>1
  <2> QED
    BY <1>1, <2>2
<1>3. PICK u \in U : \A k \in U : u <= k
  BY <1>2, LeastNumber
<1>4. PICK m \in T : u = l - m
  BY <1>1, <1>3
<1>5. ASSUME NEW k \in T PROVE k <= m
  <2>1. l - k \in U /\ k \in 1..l /\ m \in 1..l
    BY <1>1
  <2>2. u <= l - k
    BY <1>3, <2>1
  <2> QED
    BY <1>4, <2>1, <2>2
<1> QED
  BY <1>5

\* f satisfies the recursive definition in KeysFrom.
IsKeys(f, b, s) ==
    f = [i \in s..Len(b.recs) |-> DecodeKey(b.recs[i], IF i = s THEN <<>> ELSE f[i - 1])]

\* f has the keys of the items of seq behind the a-th, from the s-th of them on.
KeyedFrom(f, seq, a, s, l) == DOMAIN f = s..l /\ \A i \in s..l : f[i] = seq[a + i].key

\* From a restart on the keys are the items'.
LEMMA KeysFromHeld ==
    ASSUME NEW b, NEW type, NEW seq, NEW a \in Nat, NEW z \in Nat, a < z,
           Holds(b, type, seq, a, z), NEW s \in b.restarts
    PROVE  KeyedFrom(KeysFrom(b, s), seq, a, s, z - a)
<1>l. PICK l \in Nat \ {0} : l = z - a
  OBVIOUS
<1>1. s \in 1..l /\ Len(b.recs) = l
  BY <1>l DEF Holds
<1>2. DecodeKey(b.recs[s], <<>>) = seq[a + s].key
  <2>1. \A before \in Seq(Nat) : DecodeKey(b.recs[s], before) = seq[a + s].key
    BY DEF Holds
  <2>2. <<>> \in Seq(Nat)
    OBVIOUS
  <2> QED
    BY <2>1, <2>2
<1>3. \A i \in s + 1..l : DecodeKey(b.recs[i], seq[a + (i - 1)].key) = seq[a + i].key
  <2>1. \A i \in s + 1..l : i \in 2..l
    BY <1>1
  <2> QED
    BY <1>l, <2>1 DEF Holds
<1>4. \E f : IsKeys(f, b, s)
  <2>1. PICK g : g = [i \in s..l |-> seq[a + i].key]
    OBVIOUS
  <2>2. ASSUME NEW i \in s..l PROVE g[i] = DecodeKey(b.recs[i], IF i = s THEN <<>> ELSE g[i - 1])
    <3>1. CASE i = s
      BY <1>1, <1>2, <2>1, <3>1
    <3>2. CASE i # s
      <4>1. i \in s + 1..l /\ i - 1 \in s..l
        BY <1>1, <3>2
      <4>2. g[i - 1] = seq[a + (i - 1)].key
        BY <2>1, <4>1
      <4>3. DecodeKey(b.recs[i], g[i - 1]) = seq[a + i].key
        BY <1>3, <4>1, <4>2
      <4> QED
        BY <2>1, <3>2, <4>3
    <3> QED
      BY <3>1, <3>2
  <2>3. g = [i \in s..l |-> DecodeKey(b.recs[i], IF i = s THEN <<>> ELSE g[i - 1])]
    BY <2>1, <2>2
  <2> QED
    BY <1>1, <2>3 DEF IsKeys
<1>f. PICK f : f = KeysFrom(b, s)
  OBVIOUS
<1>5. IsKeys(f, b, s)
  BY <1>4, <1>f, Zenon DEF IsKeys, KeysFrom
<1>6. f = [i \in s..l |-> DecodeKey(b.recs[i], IF i = s THEN <<>> ELSE f[i - 1])]
  BY <1>1, <1>5 DEF IsKeys
<1>S. PICK S : S = {n \in Nat : s + n <= l => f[s + n] = seq[a + (s + n)].key}
  OBVIOUS
<1>7. 0 \in S
  <2>1. f[s] = seq[a + s].key
    <3>1. s \in s..l
      BY <1>1
    <3> QED
      BY <1>2, <1>6, <3>1
  <2>2. s + 0 = s
    BY <1>1
  <2> QED
    BY <1>S, <2>1, <2>2
<1>8. ASSUME NEW n \in Nat, n \in S PROVE n + 1 \in S
  <2>1. ASSUME s + (n + 1) <= l PROVE f[s + (n + 1)] = seq[a + (s + (n + 1))].key
    <3>1. PICK i \in s + 1..l : i = s + (n + 1) /\ i - 1 = s + n
      BY <1>1, <2>1
    <3>2. i - 1 <= l /\ i \in s..l /\ i # s
      BY <1>1, <3>1
    <3>3. f[i - 1] = seq[a + (i - 1)].key
      BY <1>S, <1>8, <3>1, <3>2
    <3>4. f[i] = DecodeKey(b.recs[i], f[i - 1])
      BY <1>6, <3>2
    <3> QED
      BY <1>3, <3>1, <3>3, <3>4
  <2> QED
    BY <1>S, <2>1
<1>9. Nat \subseteq S
  BY <1>7, <1>8, SetInduction
<1>10. ASSUME NEW i \in s..l PROVE f[i] = seq[a + i].key
  <2>1. PICK n \in Nat : s + n = i
    <3>1. i - s \in Nat /\ s + (i - s) = i
      BY <1>1
    <3> QED
      BY <3>1
  <2>2. n \in S
    BY <1>9
  <2> QED
    BY <1>S, <2>1, <2>2
<1> QED
  BY <1>l, <1>f, <1>6, <1>10 DEF KeyedFrom

\* The scan starts at a restart, the first one or one that is not past the name.
LEMMA ScanFromHeld ==
    ASSUME NEW b, NEW type, NEW seq, NEW a \in Nat, NEW z \in Nat, a < z,
           Holds(b, type, seq, a, z)
    PROVE  /\ ScanFrom(b) \in b.restarts
           /\ ScanFrom(b) = 1 \/ ~Before(probe, seq[a + ScanFrom(b)].key)
<1>1. /\ b.restarts \subseteq 1..z - a /\ 1 \in b.restarts /\ z - a \in Nat
      /\ \A i \in b.restarts : b.recs[i].suffix = seq[a + i].key
  BY DEF Holds
<1>u. PICK U : U = {i \in b.restarts : ~Before(probe, b.recs[i].suffix)}
  OBVIOUS
<1>2. ScanFrom(b) = IF U = {} THEN 1 ELSE CHOOSE i \in U : \A j \in U : j <= i
  BY <1>u DEF ScanFrom
<1>3. CASE U = {}
  BY <1>1, <1>2, <1>3
<1>4. CASE U # {}
  <2>1. U \subseteq 1..z - a
    BY <1>1, <1>u
  <2>2. \E i \in U : \A j \in U : j <= i
    BY <1>1, <1>4, <2>1, GreatestNumber
  <2>3. ScanFrom(b) \in U
    BY <1>2, <1>4, <2>2
  <2> QED
    BY <1>1, <1>u, <2>3
<1> QED
  BY <1>3, <1>4

\* descendIndex takes the first item that is not before the name, or the last.
LEMMA Descends ==
    ASSUME NEW b, NEW type, NEW seq, NEW a \in Nat, NEW z \in Nat, a < z, z <= Len(seq),
           Ordered(seq), Holds(b, type, seq, a, z), probe \in Seq(Nat)
    PROVE  \E k \in a + 1..z :
              /\ DescendIndex(b) = seq[k].value
              /\ \A i \in a + 1..k - 1 : Before(seq[i].key, probe)
              /\ k = z \/ ~Before(seq[k].key, probe)
<1>l. PICK l \in Nat \ {0} : l = z - a
  OBVIOUS
<1>s. PICK s : s = ScanFrom(b)
  OBVIOUS
<1>1. s \in b.restarts /\ (s = 1 \/ ~Before(probe, seq[a + s].key))
  BY <1>s, ScanFromHeld
<1>2. s \in 1..l /\ Len(b.recs) = l /\ \A i \in 1..l : b.recs[i].value = seq[a + i].value
  BY <1>l, <1>1 DEF Holds
<1>f. PICK f : f = KeysFrom(b, s)
  OBVIOUS
<1>3. DOMAIN f = s..l /\ \A i \in s..l : f[i] = seq[a + i].key
  <2>1. KeyedFrom(KeysFrom(b, s), seq, a, s, z - a)
    BY <1>1, KeysFromHeld
  <2> QED
    BY <1>l, <1>f, <2>1 DEF KeyedFrom
<1>k. \A i \in 1..l : seq[a + i].key \in Seq(Nat)
  <2>1. \A i \in 1..l : a + i \in 1..Len(seq)
    BY <1>l DEF Ordered
  <2> QED
    BY <2>1 DEF Ordered
<1>4. ASSUME NEW i \in 1..s - 1 PROVE Before(seq[a + i].key, probe)
  <2>1. a + i \in 1..Len(seq) /\ a + s \in 1..Len(seq) /\ a + i < a + s
    BY <1>l, <1>2 DEF Ordered
  <2>2. Before(seq[a + i].key, seq[a + s].key)
    BY <2>1 DEF Ordered
  <2>3. ~Before(probe, seq[a + s].key)
    BY <1>1, <1>2
  <2>4. seq[a + i].key \in Seq(Nat) /\ seq[a + s].key \in Seq(Nat)
    BY <2>1 DEF Ordered
  <2>5. seq[a + s].key = probe \/ Before(seq[a + s].key, probe)
    BY <2>3, <2>4, BeforeOrder
  <2> QED
    BY <2>2, <2>4, <2>5, BeforeOrder
<1>F. PICK F : F = {i \in s..l : ~Before(f[i], probe)}
  OBVIOUS
<1> DEFINE J == IF F = {} THEN l ELSE CHOOSE i \in F : \A k \in F : i <= k
<1> HIDE DEF J
<1>j. PICK j : j = J
  OBVIOUS
<1>5. DescendIndex(b) = b.recs[j].value
  BY <1>s, <1>f, <1>2, <1>3, <1>F, <1>j DEF DescendIndex, J
<1>6. j \in s..l /\ (j = l \/ ~Before(seq[a + j].key, probe)) /\ \A i \in s..j - 1 : Before(seq[a + i].key, probe)
  <2>1. CASE F = {}
    <3>1. j = l
      BY <1>j, <2>1 DEF J
    <3>2. \A i \in s..j - 1 : i \in s..l /\ i \notin F
      BY <1>2, <2>1, <3>1
    <3>3. l \in s..l
      BY <1>2
    <3> QED
      BY <1>3, <1>F, <3>1, <3>2, <3>3
  <2>2. CASE F # {}
    <3>1. F \subseteq Nat
      BY <1>2, <1>F
    <3>2. \E i \in F : \A k \in F : i <= k
      BY <2>2, <3>1, LeastNumber
    <3>3. j \in F /\ \A k \in F : j <= k
      BY <1>j, <2>2, <3>2 DEF J
    <3>4. j \in s..l /\ ~Before(seq[a + j].key, probe)
      BY <1>3, <1>F, <3>3
    <3>5. ASSUME NEW i \in s..j - 1 PROVE Before(seq[a + i].key, probe)
      <4>1. i \in s..l /\ ~(j <= i)
        BY SMTT(20), <1>2, <3>4
      <4>2. i \notin F
        BY <3>3, <4>1
      <4> QED
        BY <1>3, <1>F, <4>1, <4>2
    <3> QED
      BY <3>4, <3>5
  <2> QED
    BY <2>1, <2>2
<1>7. ASSUME NEW i \in 1..j - 1 PROVE Before(seq[a + i].key, probe)
  <2>1. i \in 1..s - 1 \/ i \in s..j - 1
    BY <1>2, <1>6
  <2> QED
    BY <1>4, <1>6, <2>1
<1>8. PICK k \in a + 1..z : k = a + j
  BY <1>l, <1>2, <1>6
<1>9. ASSUME NEW i \in a + 1..k - 1 PROVE Before(seq[i].key, probe)
  <2>1. i - a \in 1..j - 1 /\ a + (i - a) = i
    BY <1>2, <1>6, <1>8
  <2>2. Before(seq[a + (i - a)].key, probe)
    BY <1>7, <2>1
  <2> QED
    BY <2>1, <2>2
<1>10. k = z \/ ~Before(seq[k].key, probe)
  BY <1>l, <1>6, <1>8
<1>11. DescendIndex(b) = seq[k].value
  <2>1. j \in 1..l
    BY <1>2, <1>6
  <2> QED
    BY <1>2, <1>5, <1>8, <2>1
<1> QED
  BY <1>9, <1>10, <1>11

(***************************************************************************)
(* Where the blocks of a table lie.                                        *)
(***************************************************************************)
Sized ==
    /\ blockSize \in Nat /\ blockLen \in Nat \ {0}
    /\ IF blockSize = 0 THEN blockLen = 1 ELSE blockLen <= blockSize

Place(i) == Position(Stride, i)

LEMMA Times == \A a, b, c \in Nat : a <= b => a * c <= b * c /\ a * c \in Nat
  OBVIOUS

\* Rounding up from within a block finds the next one.
LEMMA RoundedUp ==
    ASSUME NEW q \in Nat, NEW m \in Nat \ {0}, NEW r \in 1..m
    PROVE  RoundUp(q * m + r, m) = (q + 1) * m
<1>x. PICK x \in Nat : x = q * m
  BY Times
<1>n. PICK n \in Nat : n = (x + r + m - 1) \div m
  OBVIOUS
<1>1. m * n <= x + r + m - 1 /\ x + r + m - 1 < m * n + m
  BY <1>n
<1>2. (q + 1) * m = x + m /\ (q + 2) * m = x + m + m /\ m * n = n * m /\ n * m \in Nat
  BY <1>x, Times
<1>3. ~(n <= q)
  <2>1. ASSUME n <= q PROVE FALSE
    <3>1. n * m <= q * m
      BY <2>1, Times
    <3> QED
      BY <1>1, <1>2, <1>x, <3>1
  <2> QED
    BY <2>1
<1>4. ~(q + 2 <= n)
  <2>1. ASSUME q + 2 <= n PROVE FALSE
    <3>1. (q + 2) * m <= n * m
      BY <2>1, Times
    <3> QED
      BY <1>1, <1>2, <3>1
  <2> QED
    BY <2>1
<1>5. n = q + 1
  BY <1>3, <1>4
<1> QED
  BY <1>x, <1>n, <1>5 DEF RoundUp

\* The stride is the space of a block; positions go up by it.
PlaceFacts ==
    /\ Stride \in Nat \ {0} /\ blockLen <= Stride
    /\ Place(1) = 0
    /\ \A i \in Nat \ {0} : Place(i) \in Nat
    /\ \A i \in Nat \ {0} : Place(i + 1) = Place(i) + Stride
    /\ \A i \in Nat \ {0} : NextBlock(Place(i)) = Place(i + 1)
    /\ \A i, j \in Nat \ {0} : i < j => Place(i) + Stride <= Place(j)

LEMMA Places == Sized => PlaceFacts
<1> SUFFICES ASSUME Sized PROVE PlaceFacts
  OBVIOUS
<1>b. PICK bs \in Nat, bl \in Nat \ {0} : bs = blockSize /\ bl = blockLen
  BY DEF Sized
<1>s. PICK s : s = Stride
  OBVIOUS
<1>1. s \in Nat \ {0} /\ bl <= s /\ (bs = 0 => s = 1 /\ bl = 1) /\ (bs # 0 => s = bs)
  <2>1. CASE bs = 0
    BY <1>b, <1>s, <2>1 DEF Sized, Stride, RoundUp
  <2>2. CASE bs # 0
    <3>1. bs \in Nat \ {0} /\ bl \in 1..bs
      BY <1>b, <2>2 DEF Sized
    <3>2. RoundUp(0 * bs + bl, bs) = (0 + 1) * bs
      BY <3>1, RoundedUp
    <3>3. 0 * bs + bl = bl /\ (0 + 1) * bs = bs
      BY <3>1
    <3> QED
      BY <1>b, <1>s, <2>2, <3>1, <3>2, <3>3 DEF Stride
  <2> QED
    BY <2>1, <2>2
<1>2. \A i : Place(i) = (i - 1) * s
  BY <1>s DEF Place, Position
<1>3. ASSUME NEW i \in Nat \ {0}
      PROVE  Place(i) \in Nat /\ Place(i + 1) = Place(i) + s /\ NextBlock(Place(i)) = Place(i + 1)
  <2>1. PICK q \in Nat : q = i - 1 /\ i = q + 1
    OBVIOUS
  <2>2. Place(i) = q * s /\ Place(i + 1) = (q + 1) * s
    BY <1>2, <2>1
  <2>3. PICK x \in Nat : x = q * s
    BY <1>1, Times
  <2>4. (q + 1) * s = x + s
    BY <1>1, <2>3
  <2>5. NextBlock(Place(i)) = (q + 1) * s
    <3>1. NextBlock(Place(i)) = RoundUp(q * s + bl, bs)
      BY <1>b, <2>2 DEF NextBlock
    <3>2. CASE bs = 0
      BY <1>1, <2>3, <2>4, <3>1, <3>2 DEF RoundUp
    <3>3. CASE bs # 0
      <4>1. bl \in 1..s
        BY <1>1
      <4>2. RoundUp(q * s + bl, s) = (q + 1) * s
        BY <1>1, <4>1, RoundedUp
      <4> QED
        BY <1>1, <3>1, <3>3, <4>2
    <3> QED
      BY <3>2, <3>3
  <2> QED
    BY <2>2, <2>3, <2>4, <2>5
<1>4. ASSUME NEW i \in Nat \ {0}, NEW j \in Nat \ {0}, i < j PROVE Place(i) + s <= Place(j)
  <2>1. i \in Nat /\ j - 1 \in Nat /\ i <= j - 1
    BY <1>4
  <2>2. i * s <= (j - 1) * s
    BY <1>1, <2>1, Times
  <2>3. Place(i + 1) = i * s
    <3>1. (i + 1) - 1 = i
      OBVIOUS
    <3> QED
      BY <1>2, <3>1
  <2> QED
    BY <1>2, <1>3, <2>2, <2>3
<1>5. Place(1) = 0
  BY <1>1, <1>2
<1> QED
  BY <1>b, <1>s, <1>1, <1>3, <1>4, <1>5 DEF PlaceFacts

\* What is found where a block begins, and behind the last one.
ReadFacts ==
    /\ \A i \in 1..Len(blocks) :
          /\ BlockAt(Place(i)) = i /\ TypeAt(Place(i)) = blocks[i].type
          /\ Place(i) < FooterAt /\ Place(i) < FileLen
    /\ FooterAt \in Nat /\ FileLen \in Nat
    /\ ~(Place(Len(blocks) + 1) < FooterAt)
    /\ Place(Len(blocks) + 1) < FileLen /\ TypeAt(Place(Len(blocks) + 1)) = "r" => FooterMisread
    /\ Place(Len(blocks) + 1) < FileLen => TypeAt(Place(Len(blocks) + 1)) \in {"R", "r", "x"}

LEMMA Reads ==
    ASSUME Sized, Len(blocks) \in Nat \ {0}, DOMAIN blocks = 1..Len(blocks), footer \in {"r", "x"}
    PROVE  ReadFacts
<1>p. PlaceFacts
  BY Places
<1>n. PICK n \in Nat \ {0} : n = Len(blocks)
  OBVIOUS
<1>b. PICK bl \in Nat \ {0}, s \in Nat \ {0} : bl = blockLen /\ s = Stride /\ bl <= s
  BY <1>p DEF PlaceFacts, Sized
<1>P. PICK P : P = [i \in Nat |-> Place(i)]
  OBVIOUS
<1>1. /\ \A i \in Nat \ {0} : Place(i) = P[i] /\ P[i] \in Nat /\ P[i + 1] = P[i] + s
      /\ \A i, j \in Nat \ {0} : i < j => P[i] + s <= P[j]
  <2>1. \A i \in Nat \ {0} : Place(i) = P[i]
    BY <1>P
  <2>2. \A i \in Nat \ {0} : Place(i) \in Nat /\ Place(i + 1) = Place(i) + s
    BY <1>p, <1>b DEF PlaceFacts
  <2>3. \A i, j \in Nat \ {0} : i < j => Place(i) + s <= Place(j)
    BY <1>p, <1>b DEF PlaceFacts
  <2>4. \A i \in Nat \ {0} : i + 1 \in Nat \ {0}
    OBVIOUS
  <2>5. \A i \in Nat \ {0} : P[i] \in Nat /\ P[i + 1] = P[i] + s
    BY <2>1, <2>2, <2>4
  <2>6. \A i, j \in Nat \ {0} : i < j => P[i] + s <= P[j]
    BY <2>1, <2>3
  <2> QED
    BY <2>1, <2>5, <2>6
<1>2. blocks # <<>>
  BY <1>n
<1>3. FooterAt = P[n] + bl
  BY <1>n, <1>b, <1>1, <1>2 DEF FooterAt, Place
<1>l. PICK l \in Nat \ {0} : l = FooterLen
  BY FooterLenAssumption
<1>4. FileLen = P[n] + bl + l
  BY <1>3, <1>l DEF FileLen
<1>5. ASSUME NEW i \in 1..n
      PROVE  /\ BlockAt(Place(i)) = i /\ TypeAt(Place(i)) = blocks[i].type
             /\ Place(i) < FooterAt /\ Place(i) < FileLen
  <2>0. i \in Nat \ {0}
    OBVIOUS
  <2>1. i \in Nat \ {0} /\ P[i] \in Nat /\ P[n] \in Nat /\ Place(i) = P[i]
    BY <1>1, <2>0
  <2>2. P[i] <= P[n]
    <3>1. CASE i = n
      BY <2>1, <3>1
    <3>2. CASE i # n
      <4>1. i < n
        BY <3>2
      <4>2. P[i] + s <= P[n]
        BY <1>1, <2>1, <4>1
      <4> QED
        BY <2>1, <4>2
    <3> QED
      BY <3>1, <3>2
  <2>3. Place(i) < FooterAt /\ Place(i) < FileLen
    BY <1>b, <1>3, <1>4, <1>l, <2>1, <2>2
  <2>4. BlockAt(Place(i)) = i
    <3>1. BlockAt(Place(i)) = CHOOSE j \in 1..n : Place(j) = Place(i)
      BY <1>n DEF BlockAt, Place
    <3>2. ASSUME NEW j \in 1..n, j # i PROVE Place(j) # Place(i)
      <4>0. j \in Nat \ {0}
        OBVIOUS
      <4>1. j \in Nat \ {0} /\ P[j] \in Nat /\ Place(j) = P[j]
        BY <1>1, <4>0
      <4>2. j < i \/ i < j
        BY <3>2
      <4>3. P[j] + s <= P[i] \/ P[i] + s <= P[j]
        BY <1>1, <2>1, <4>1, <4>2
      <4> QED
        BY <1>b, <2>1, <4>1, <4>3
    <3> QED
      BY <3>1, <3>2
  <2>5. TypeAt(Place(i)) = blocks[i].type
    <3>1. Place(i) # FooterAt /\ ~(Place(i) > FooterAt)
      BY <1>b, <1>3, <2>1, <2>3
    <3> QED
      BY <1>2, <2>4, <3>1 DEF TypeAt
  <2> QED
    BY <2>3, <2>4, <2>5
<1>6. PICK q \in Nat : q = Place(n + 1) /\ q = P[n] + s
  <2>1. n + 1 \in Nat \ {0}
    OBVIOUS
  <2>2. Place(n + 1) = P[n + 1] /\ P[n + 1] \in Nat
    BY <1>1, <2>1
  <2>3. P[n + 1] = P[n] + s
    BY <1>1
  <2> QED
    BY <2>2, <2>3
<1>7. P[n] \in Nat
  BY <1>1
<1>8. ~(q < FooterAt)
  BY <1>b, <1>3, <1>6, <1>7
<1>t. FooterAt \in Nat /\ FileLen \in Nat
  BY <1>b, <1>3, <1>4, <1>l, <1>7
<1>9. CASE q = FooterAt
  <2>1. TypeAt(q) = "R"
    BY <1>9 DEF TypeAt
  <2> QED
    BY <1>n, <1>t, <1>5, <1>6, <1>8, <2>1 DEF ReadFacts
<1>10. CASE q # FooterAt
  <2>1. q > FooterAt
    BY <1>3, <1>7, <1>8, <1>10
  <2>2. TypeAt(q) = footer
    BY <1>2, <1>10, <2>1 DEF TypeAt
  <2>3. blockSize > 0
    <3>1. ASSUME blockSize = 0 PROVE FALSE
      <4>1. bl = 1 /\ s = 1
        BY <1>b, <3>1 DEF Sized, Stride, RoundUp
      <4> QED
        BY <1>3, <1>6, <1>10, <4>1
    <3> QED
      BY <3>1 DEF Sized
  <2>4. RoundUp(FooterAt, blockSize) = q
    <3>1. NextBlock(Place(n)) = q
      BY <1>p, <1>6 DEF PlaceFacts
    <3>2. Place(n) + blockLen = FooterAt
      BY <1>b, <1>1, <1>3
    <3> QED
      BY <3>1, <3>2 DEF NextBlock
  <2>5. ASSUME q < FileLen, footer = "r" PROVE FooterMisread
    <3>1. FooterAt \in Nat /\ FileLen \in Nat
      BY <1>3, <1>4, <1>7
    <3>2. q \in FooterAt + 1..FileLen - 1
      BY <2>1, <2>5, <3>1
    <3> QED
      BY <2>3, <2>4, <2>5, <3>2 DEF FooterMisread
  <2> QED
    BY <1>n, <1>t, <1>5, <1>6, <1>8, <2>2, <2>5 DEF ReadFacts
<1> QED
  BY <1>9, <1>10

(***************************************************************************)
(* What Git has written.                                                   *)
(***************************************************************************)
\* The items of one level of index over the n blocks of the entries: the k-th
\* has the last key of the p[k]-th block, and leads to the k-th block behind
\* the first ones.
LevelOver(seq, en, e, n, p, m, first, s) ==
    /\ Steps(p, m, n) /\ Len(seq) = m
    /\ \A k \in 1..m : seq[k].key = en[e[p[k]]].key
    /\ \A k \in 1..m : seq[k].value = Position(s, first + k)

Same(n) == [i \in 0..n |-> i]

\* b is an index of the blocks left..right.
PartOver(b, left, right, en, e, n, s) ==
    /\ left \in 1..n /\ right \in left..n
    /\ \E low : /\ LevelOver(low, en, e, n, Same(n), n, 0, s)
                /\ Holds(b, "i", low, left - 1, right)

\* The block at j is an index of m such indexes.
TopOver(bl, j, en, e, n, s) ==
    \E top, f, m :
        /\ LevelOver(top, en, e, n, f, m, n, s) /\ Holds(bl[j], "i", top, 0, m) /\ n + m < j
        /\ \A k \in 1..m : PartOver(bl[n + k], f[k - 1] + 1, f[k], en, e, n, s)

\* bl is a table of the entries, which n blocks hold, with its root at rt.
Filed(en, bl, rt, s, e, n) ==
    /\ Steps(e, n, Len(en))
    /\ Len(bl) \in Nat /\ n <= Len(bl) /\ DOMAIN bl = 1..Len(bl)
    /\ \A i \in 1..n : Holds(bl[i], "r", en, e[i - 1], e[i])
    /\ \A i \in n + 1..Len(bl) : bl[i].type = "i"
    /\ \/ rt = 0 /\ Len(bl) = n
       \/ /\ rt = Position(s, Len(bl)) /\ rt # 0 /\ n < Len(bl)
          /\ PartOver(bl[Len(bl)], 1, n, en, e, n, s) \/ TopOver(bl, Len(bl), en, e, n, s)

\* What follows from Steps about one part.
LEMMA StepsFacts ==
    ASSUME NEW e, NEW n, NEW l, Steps(e, n, l), NEW i \in 1..n
    PROVE  /\ i \in Nat /\ i - 1 \in Nat /\ i - 1 \in 0..n /\ i \in 0..n
           /\ e[i - 1] \in Nat /\ e[i] \in Nat /\ e[i - 1] < e[i] /\ e[i] <= l
           /\ e[i] \in 1..l
<1>1. n \in Nat /\ i - 1 \in 0..n /\ i \in 0..n /\ i - 1 < i
  BY DEF Steps
<1>2. e[i - 1] \in 0..l /\ e[i] \in 0..l /\ e[i - 1] < e[i] /\ l \in Nat
  BY <1>1 DEF Steps
<1> QED
  BY <1>1, <1>2

LEMMA LevelOrdered ==
    ASSUME NEW seq, NEW en, NEW e, NEW n, NEW p, NEW m, NEW first, NEW s,
           LevelOver(seq, en, e, n, p, m, first, s), Steps(e, n, Len(en)), Ordered(en)
    PROVE  Ordered(seq)
<1>1. Steps(p, m, n) /\ Len(seq) = m /\ m \in Nat /\ n \in Nat
  BY DEF LevelOver, Steps
<1>2. ASSUME NEW k \in 1..m PROVE p[k] \in 1..n /\ e[p[k]] \in 1..Len(en) /\ seq[k].key = en[e[p[k]]].key
  <2>1. p[k] \in 1..n
    BY <1>1, StepsFacts
  <2>2. e[p[k]] \in 1..Len(en)
    BY <2>1, StepsFacts
  <2> QED
    BY <2>1, <2>2 DEF LevelOver
<1>3. ASSUME NEW j \in 1..m, NEW k \in 1..m, j < k PROVE Before(seq[j].key, seq[k].key)
  <2>1. p[j] < p[k]
    <3>1. j \in 0..m /\ k \in 0..m
      BY <1>1
    <3> QED
      BY <1>1, <1>3, <3>1 DEF Steps
  <2>2. p[j] \in 0..n /\ p[k] \in 0..n
    BY <1>2
  <2>3. e[p[j]] < e[p[k]]
    BY <2>1, <2>2 DEF Steps
  <2>4. Before(en[e[p[j]]].key, en[e[p[k]]].key)
    BY <1>2, <2>3 DEF Ordered
  <2> QED
    BY <1>2, <2>4
<1>4. \A k \in 1..m : seq[k].key \in Seq(Nat)
  BY <1>2 DEF Ordered
<1> QED
  BY <1>1, <1>3, <1>4 DEF Ordered

\* The items written for the parts of a sequence.
ItemsOver(x, seq, e, n, s, first) ==
    /\ Len(x) = n /\ DOMAIN x = 1..n
    /\ \A k \in 1..n : x[k].key = seq[e[k]].key
    /\ \A k \in 1..n : x[k].value = Position(s, first + k - 1)

LEMMA IndexItemsOver ==
    ASSUME NEW groups, NEW seq, NEW e, NEW n, Parted(groups, seq, e, n), NEW s, NEW first
    PROVE  ItemsOver(IndexItems(groups, s, first), seq, e, n, s, first)
<1>1. n \in Nat \ {0} /\ DOMAIN groups = 1..n
  BY DEF Parted, Steps
<1>x. PICK x : x = IndexItems(groups, s, first)
  OBVIOUS
<1>2. x = [k \in 1..n |->
              [key |-> groups[k][Len(groups[k])].key, value |-> Position(s, first + k - 1)]]
  BY <1>x, <1>1 DEF IndexItems
<1>3. ASSUME NEW k \in 1..n PROVE groups[k][Len(groups[k])] = seq[e[k]]
  <2>1. Steps(e, n, Len(seq))
    BY DEF Parted
  <2>2. PICK a \in Nat, z \in Nat : a = e[k - 1] /\ z = e[k] /\ a < z
    BY <2>1, StepsFacts
  <2>3. groups[k] = SubSeq(seq, a + 1, z)
    BY <2>2 DEF Parted
  <2>4. groups[k] = [i \in 1..((z - (a + 1)) + 1) |-> seq[((a + 1) + i) - 1]]
    BY <2>3
  <2>5. PICK l \in Nat \ {0} : l = (z - (a + 1)) + 1 /\ ((a + 1) + l) - 1 = z
    BY <2>2
  <2>6. Len(groups[k]) = l
    BY <2>4, <2>5
  <2>7. groups[k][l] = seq[z]
    BY <2>4, <2>5
  <2> QED
    BY <2>2, <2>6, <2>7
<1>4. Len(x) = n /\ DOMAIN x = 1..n
  BY <1>1, <1>2
<1>5. \A k \in 1..n : x[k].key = seq[e[k]].key /\ x[k].value = Position(s, first + k - 1)
  BY <1>2, <1>3
<1> QED
  BY <1>x, <1>4, <1>5 DEF ItemsOver

LEMMA LowLevel ==
    ASSUME NEW low, NEW en, NEW e, NEW n, Steps(e, n, Len(en)), NEW s, ItemsOver(low, en, e, n, s, 1)
    PROVE  LevelOver(low, en, e, n, Same(n), n, 0, s)
<1>1. n \in Nat \ {0}
  BY DEF Steps
<1>p. PICK p : p = Same(n)
  OBVIOUS
<1>2. \A i \in 0..n : p[i] = i
  BY <1>p DEF Same
<1>3. Steps(p, n, n)
  BY <1>1, <1>2 DEF Steps
<1>4. ASSUME NEW k \in 1..n PROVE low[k].key = en[e[p[k]]].key /\ low[k].value = Position(s, 0 + k)
  <2>1. p[k] = k /\ 1 + k - 1 = 0 + k
    BY <1>1, <1>2
  <2> QED
    BY <2>1 DEF ItemsOver
<1>5. Len(low) = n
  BY DEF ItemsOver
<1> QED
  BY <1>p, <1>3, <1>4, <1>5 DEF LevelOver

LEMMA TopLevel ==
    ASSUME NEW low, NEW en, NEW e, NEW n, NEW s, ItemsOver(low, en, e, n, s, 1),
           NEW top, NEW f, NEW m, Steps(f, m, n), ItemsOver(top, low, f, m, s, n + 1), n \in Nat
    PROVE  LevelOver(top, en, e, n, f, m, n, s)
<1>1. m \in Nat
  BY DEF Steps
<1>2. ASSUME NEW k \in 1..m PROVE top[k].key = en[e[f[k]]].key /\ top[k].value = Position(s, n + k)
  <2>1. f[k] \in 1..n
    BY StepsFacts
  <2>2. low[f[k]].key = en[e[f[k]]].key
    BY <2>1 DEF ItemsOver
  <2>3. top[k].key = low[f[k]].key /\ top[k].value = Position(s, (n + 1) + k - 1)
    BY DEF ItemsOver
  <2>4. (n + 1) + k - 1 = n + k
    BY <1>1
  <2> QED
    BY <2>2, <2>3, <2>4
<1>3. Len(top) = m
  BY DEF ItemsOver
<1> QED
  BY <1>2, <1>3 DEF LevelOver

\* Parts written as blocks hold the items.
LEMMA PartsHold ==
    ASSUME NEW groups, NEW seq, NEW e, NEW n, Parted(groups, seq, e, n), Ordered(seq),
           NEW type, NEW interval, NEW i \in 1..n
    PROVE  Holds(WriteBlock(type, groups[i], interval), type, seq, e[i - 1], e[i])
<1>1. Steps(e, n, Len(seq))
  BY DEF Parted
<1>2. e[i - 1] \in Nat /\ e[i] \in Nat /\ e[i - 1] < e[i] /\ e[i] <= Len(seq)
  BY <1>1, StepsFacts
<1>3. groups[i] = SubSeq(seq, e[i - 1] + 1, e[i])
  BY DEF Parted
<1>4. Len(seq) \in Nat /\ \A k \in 1..Len(seq) : seq[k].key \in Seq(Nat)
  BY DEF Ordered
<1>5. Holds(WriteBlock(type, SubSeq(seq, e[i - 1] + 1, e[i]), interval), type, seq, e[i - 1], e[i])
  BY <1>2, <1>4, WriteBlockHolds
<1> QED
  BY <1>3, <1>5

\* A sequence and one more.
Extended(w, q, n, b) == Len(w) = n + 1 /\ DOMAIN w = 1..n + 1 /\ (\A i \in 1..n : w[i] = q[i]) /\ w[n + 1] = b

LEMMA ConcatOne ==
    ASSUME NEW C, NEW q \in Seq(C), NEW n \in Nat, Len(q) = n, NEW b \in C
    PROVE  Extended(q \o << b >>, q, n, b)
<1>t. PICK t : t = << b >>
  OBVIOUS
<1>1. t \in Seq(C) /\ Len(t) = 1 /\ t[1] = b
  BY <1>t
<1>w. PICK w : w = q \o t
  OBVIOUS
<1>2. Joined(w, q, t, C)
  BY <1>1, <1>w, ConcatJoined
<1>3. w \in Seq(C) /\ Len(w) = n + 1 /\ \A i \in 1..n : w[i] = q[i]
  BY <1>1, <1>2 DEF Joined
<1>4. w[n + 1] = b
  <2>1. 1 \in 1..Len(t)
    BY <1>1
  <2>2. w[Len(q) + 1] = t[1]
    BY <1>2, <2>1 DEF Joined
  <2> QED
    BY <1>1, <2>2
<1>5. DOMAIN w = 1..n + 1
  BY <1>3
<1> QED
  BY <1>t, <1>w, <1>3, <1>4, <1>5 DEF Extended

\* The root block holds all items of its level.
LEMMA RootHolds ==
    ASSUME NEW x, NEW n \in Nat \ {0}, Len(x) = n, x = [k \in 1..n |-> x[k]], Ordered(x), NEW interval
    PROVE  Holds(WriteBlock("i", x, interval), "i", x, 0, n)
<1>1. SubSeq(x, 0 + 1, n) = x
  <2>1. SubSeq(x, 0 + 1, n) = [i \in 1..((n - (0 + 1)) + 1) |-> x[((0 + 1) + i) - 1]]
    OBVIOUS
  <2>2. (n - (0 + 1)) + 1 = n /\ \A i \in 1..n : ((0 + 1) + i) - 1 = i
    OBVIOUS
  <2> QED
    BY <2>1, <2>2
<1>2. Holds(WriteBlock("i", SubSeq(x, 0 + 1, n), interval), "i", x, 0, n)
  <2>1. 0 < n /\ n <= Len(x) /\ Len(x) \in Nat /\ \A i \in 1..Len(x) : x[i].key \in Seq(Nat)
    BY DEF Ordered
  <2> QED
    BY <2>1, WriteBlockHolds
<1> QED
  BY <1>1, <1>2

\* Whatever the cuts, the levels of index and the restarts, the table is filed.
LEMMA TableFiled ==
    ASSUME NEW en, Ordered(en), Len(en) \in Nat \ {0}, NEW cuts, cuts \subseteq 1..Len(en) - 1,
           NEW levels \in 0..2, NEW interval, NEW s \in Nat \ {0},
           NEW bl, bl = WriteTable(en, cuts, levels, interval, s),
           NEW rt, rt = IF levels = 0 THEN 0 ELSE Position(s, Len(bl))
    PROVE  \E e, n : Filed(en, bl, rt, s, e, n)
<1>g. PICK groups : groups = Cut(en, cuts)
  OBVIOUS
<1>e. PICK e, n : Parted(groups, en, e, n)
  BY <1>g, CutParts
<1>1. Steps(e, n, Len(en)) /\ n \in Nat \ {0} /\ DOMAIN groups = 1..n
  BY <1>e DEF Parted, Steps
<1>r. PICK refs : refs = [g \in 1..n |-> WriteBlock("r", groups[g], interval)]
  OBVIOUS
<1>w. PICK low : low = IndexItems(groups, s, 1)
  OBVIOUS
<1>2. ItemsOver(low, en, e, n, s, 1)
  BY <1>e, <1>w, IndexItemsOver
<1>3. LevelOver(low, en, e, n, Same(n), n, 0, s)
  BY <1>1, <1>2, LowLevel
<1>4. Ordered(low) /\ Len(low) = n /\ DOMAIN low = 1..n
  BY <1>1, <1>2, <1>3, LevelOrdered DEF ItemsOver
<1>5. low = [k \in 1..n |-> low[k]]
  BY <1>1, <1>w DEF IndexItems
<1>p. PICK pairs : pairs = Cut(low, {i \in DOMAIN low : i % 2 = 0 /\ i < Len(low)})
  OBVIOUS
<1>f. PICK f, m : Parted(pairs, low, f, m)
  <2>1. {i \in DOMAIN low : i % 2 = 0 /\ i < Len(low)} \subseteq 1..Len(low) - 1
    BY <1>1, <1>4
  <2>2. Len(low) \in Nat \ {0}
    BY <1>1, <1>4
  <2> QED
    BY <1>p, <2>1, <2>2, CutParts
<1>6. Steps(f, m, n) /\ m \in Nat \ {0} /\ DOMAIN pairs = 1..m
  BY <1>4, <1>f DEF Parted, Steps
<1>d. PICK middle : middle = [g \in 1..m |-> WriteBlock("i", pairs[g], interval)]
  OBVIOUS
<1>t. PICK top : top = IndexItems(pairs, s, n + 1)
  OBVIOUS
<1>7. ItemsOver(top, low, f, m, s, n + 1)
  BY <1>f, <1>t, IndexItemsOver
<1>8. LevelOver(top, en, e, n, f, m, n, s)
  BY <1>1, <1>2, <1>6, <1>7, TopLevel
<1>9. Ordered(top) /\ Len(top) = m /\ top = [k \in 1..m |-> top[k]]
  <2>1. Ordered(top)
    BY <1>1, <1>8, LevelOrdered
  <2>2. Len(top) = m
    BY <1>7 DEF ItemsOver
  <2>3. top = [k \in 1..m |-> top[k]]
    BY <1>6, <1>t DEF IndexItems
  <2> QED
    BY <2>1, <2>2, <2>3
<1>lb. PICK lowBlock : lowBlock = WriteBlock("i", low, interval)
  OBVIOUS
<1>tb. PICK topBlock : topBlock = WriteBlock("i", top, interval)
  OBVIOUS
<1>10. bl = IF levels = 0 THEN refs
            ELSE IF levels = 1 THEN refs \o << lowBlock >>
            ELSE refs \o middle \o << topBlock >>
  <2> DEFINE G == Cut(en, cuts)
             R == [g \in DOMAIN G |-> WriteBlock("r", G[g], interval)]
             L == IndexItems(G, s, 1)
             P == Cut(L, {i \in DOMAIN L : i % 2 = 0 /\ i < Len(L)})
             M == [g \in DOMAIN P |-> WriteBlock("i", P[g], interval)]
             T == IndexItems(P, s, Len(R) + 1)
  <2>1. bl = IF levels = 0 THEN R
             ELSE IF levels = 1 THEN R \o << WriteBlock("i", L, interval) >>
             ELSE R \o M \o << WriteBlock("i", T, interval) >>
    BY Zenon DEF WriteTable
  <2>2. G = groups
    BY <1>g
  <2> HIDE DEF G
  <2>3. R = refs
    BY <1>1, <1>r, <2>2
  <2>4. L = low
    BY <1>w, <2>2
  <2> HIDE DEF R, L
  <2>5. P = pairs
    BY <1>p, <2>4
  <2> HIDE DEF P
  <2>6. M = middle
    BY <1>6, <1>d, <2>5
  <2>7. T = top
    <3>1. Len(refs) + 1 = n + 1
      BY <1>1, <1>r
    <3> QED
      BY <1>t, <2>3, <2>5, <3>1
  <2> HIDE DEF M, T
  <2> QED
    BY <1>lb, <1>tb, <2>1, <2>3, <2>4, <2>6, <2>7
<1>11. \A i \in 1..n : Holds(refs[i], "r", en, e[i - 1], e[i])
  BY <1>e, <1>r, PartsHold
<1>12. \A i \in 1..m : Holds(middle[i], "i", low, f[i - 1], f[i])
  BY <1>4, <1>f, <1>d, PartsHold
<1>13. Holds(lowBlock, "i", low, 0, n) /\ lowBlock.type = "i"
  <2>1. Holds(lowBlock, "i", low, 0, n)
    BY <1>1, <1>4, <1>5, <1>lb, RootHolds
  <2> QED
    BY <2>1 DEF Holds
<1>14. Holds(topBlock, "i", top, 0, m) /\ topBlock.type = "i"
  <2>1. Holds(topBlock, "i", top, 0, m)
    BY <1>6, <1>9, <1>tb, RootHolds
  <2> QED
    BY <2>1 DEF Holds
<1>C. PICK C : C = {refs[i] : i \in 1..n} \cup {middle[i] : i \in 1..m} \cup {lowBlock, topBlock}
  OBVIOUS
<1>15. /\ refs \in Seq(C) /\ Len(refs) = n /\ DOMAIN refs = 1..n
       /\ middle \in Seq(C) /\ Len(middle) = m
       /\ lowBlock \in C /\ topBlock \in C
  <2>1. \A i \in 1..n : refs[i] \in C
    BY <1>C
  <2>2. \A i \in 1..m : middle[i] \in C
    BY <1>C
  <2>3. refs \in Seq(C) /\ Len(refs) = n /\ DOMAIN refs = 1..n
    BY <1>1, <1>r, <2>1
  <2>4. middle \in Seq(C) /\ Len(middle) = m
    BY <1>6, <1>d, <2>2
  <2> QED
    BY <1>C, <2>3, <2>4
<1>16. CASE levels = 0
  <2>1. bl = refs /\ rt = 0
    BY <1>10, <1>16
  <2>2. \A i \in n + 1..Len(bl) : bl[i].type = "i"
    BY <1>1, <1>15, <2>1
  <2>3. Filed(en, bl, rt, s, e, n)
    BY <1>1, <1>11, <1>15, <2>1, <2>2 DEF Filed
  <2> QED
    BY <2>3
<1>17. CASE levels = 1
  <2>1. bl = refs \o << lowBlock >>
    BY <1>10, <1>17
  <2>2. Extended(bl, refs, n, lowBlock)
    BY <1>1, <1>15, <2>1, ConcatOne
  <2>3. Len(bl) = n + 1 /\ DOMAIN bl = 1..n + 1 /\ (\A i \in 1..n : bl[i] = refs[i]) /\ bl[n + 1] = lowBlock
    BY <2>2 DEF Extended
  <2>4. rt = Position(s, n + 1) /\ rt # 0
    <3>1. rt = Position(s, n + 1)
      BY <1>17, <2>3
    <3>2. (n + 1) - 1 = n /\ n * s # 0
      <4>1. 1 <= n
        BY <1>1
      <4>2. 1 * s <= n * s
        BY <1>1, <4>1, Times
      <4>3. 1 * s = s
        OBVIOUS
      <4> QED
        BY <1>1, <4>2, <4>3
    <3> QED
      BY <3>1, <3>2 DEF Position
  <2>5. PartOver(lowBlock, 1, n, en, e, n, s)
    <3>1. 1 - 1 = 0 /\ 1 \in 1..n /\ n \in 1..n
      BY <1>1
    <3> QED
      BY <1>3, <1>13, <3>1 DEF PartOver
  <2>6. \A i \in n + 1..Len(bl) : bl[i].type = "i"
    <3>1. \A i \in n + 1..Len(bl) : i = n + 1
      BY <1>1, <2>3
    <3> QED
      BY <1>13, <2>3, <3>1
  <2>7. Filed(en, bl, rt, s, e, n)
    <3>1. \A i \in 1..n : Holds(bl[i], "r", en, e[i - 1], e[i])
      BY <1>11, <2>3
    <3>2. Len(bl) \in Nat /\ n <= Len(bl) /\ DOMAIN bl = 1..Len(bl) /\ n < Len(bl)
      BY <1>1, <2>3
    <3>3. rt = Position(s, Len(bl)) /\ PartOver(bl[Len(bl)], 1, n, en, e, n, s)
      BY <2>3, <2>4, <2>5
    <3> QED
      BY <1>1, <2>4, <2>6, <3>1, <3>2, <3>3 DEF Filed
  <2> QED
    BY <2>7
<1>18. CASE levels = 2
  <2>0. PICK both : both = refs \o middle
    OBVIOUS
  <2>1. bl = both \o << topBlock >>
    BY <1>10, <1>18, <2>0
  <2>2. Joined(both, refs, middle, C)
    BY <1>15, <2>0, ConcatJoined
  <2>3. /\ both \in Seq(C) /\ Len(both) = n + m
        /\ (\A i \in 1..n : both[i] = refs[i]) /\ (\A i \in 1..m : both[n + i] = middle[i])
    BY <1>15, <2>2 DEF Joined
  <2>n. PICK l \in Nat : l = n + m /\ n + 1 <= l
    BY <1>1, <1>6
  <2>4. Extended(bl, both, l, topBlock)
    BY <1>15, <2>1, <2>3, <2>n, ConcatOne
  <2>5. Len(bl) = l + 1 /\ DOMAIN bl = 1..l + 1 /\ (\A i \in 1..l : bl[i] = both[i]) /\ bl[l + 1] = topBlock
    BY <2>4 DEF Extended
  <2>6. \A i \in 1..n : bl[i] = refs[i]
    <3>1. \A i \in 1..n : i \in 1..l
      BY <1>1, <2>n
    <3> QED
      BY <2>3, <2>5, <3>1
  <2>7. \A i \in 1..m : bl[n + i] = middle[i]
    <3>1. \A i \in 1..m : n + i \in 1..l
      <4>1. m \in Nat /\ n \in Nat
        BY <1>1, <1>6
      <4> QED
        BY <2>n, <4>1
    <3> QED
      BY <2>3, <2>5, <3>1
  <2>8. rt = Position(s, l + 1) /\ rt # 0
    <3>1. rt = Position(s, l + 1)
      BY <1>18, <2>5
    <3>2. (l + 1) - 1 = l /\ l * s # 0
      <4>1. 1 <= l
        BY <1>1, <2>n
      <4>2. 1 * s <= l * s
        BY <4>1, Times
      <4>3. 1 * s = s
        OBVIOUS
      <4> QED
        BY <4>2, <4>3
    <3> QED
      BY <3>1, <3>2 DEF Position
  <2>9. ASSUME NEW k \in 1..m PROVE PartOver(bl[n + k], f[k - 1] + 1, f[k], en, e, n, s)
    <3>1. f[k - 1] \in Nat /\ f[k] \in Nat /\ f[k - 1] < f[k] /\ f[k] <= n
      BY <1>6, StepsFacts
    <3>2. f[k - 1] + 1 \in 1..n /\ f[k] \in f[k - 1] + 1..n /\ (f[k - 1] + 1) - 1 = f[k - 1]
      BY SMTT(20), <1>1, <3>1
    <3>3. Holds(bl[n + k], "i", low, f[k - 1], f[k])
      BY <1>12, <2>7
    <3> QED
      BY <1>3, <3>2, <3>3 DEF PartOver
  <2>10. TopOver(bl, l + 1, en, e, n, s)
    <3>1. Holds(bl[l + 1], "i", top, 0, m) /\ n + m < l + 1
      BY <1>14, <2>5, <2>n
    <3> QED
      BY <1>8, <2>9, <3>1 DEF TopOver
  <2>11. ASSUME NEW i \in n + 1..l + 1 PROVE bl[i].type = "i"
    <3>1. CASE i = l + 1
      BY <1>14, <2>5, <3>1
    <3>2. CASE i # l + 1
      <4>1. PICK k \in 1..m : i = n + k
        <5>1. i - n \in 1..m /\ i = n + (i - n)
          BY <1>1, <1>6, <2>n, <3>2
        <5> QED
          BY <5>1
      <4>2. bl[i] = middle[k]
        BY <2>7, <4>1
      <4> QED
        BY <1>12, <4>2 DEF Holds
    <3> QED
      BY <3>1, <3>2
  <2>12. Filed(en, bl, rt, s, e, n)
    <3>1. \A i \in 1..n : Holds(bl[i], "r", en, e[i - 1], e[i])
      BY <1>11, <2>6
    <3>2. Len(bl) \in Nat /\ n <= Len(bl) /\ DOMAIN bl = 1..Len(bl) /\ n < Len(bl)
      BY <1>1, <2>5, <2>n
    <3>3. rt = Position(s, Len(bl)) /\ TopOver(bl, Len(bl), en, e, n, s)
      BY <2>5, <2>8, <2>10
    <3>4. \A i \in n + 1..Len(bl) : bl[i].type = "i"
      BY <2>5, <2>11
    <3> QED
      BY <1>1, <2>8, <3>1, <3>2, <3>3, <3>4 DEF Filed
  <2> QED
    BY <2>12
<1> QED
  BY <1>16, <1>17, <1>18

(***************************************************************************)
(* Where a name can be.                                                    *)
(***************************************************************************)
\* The name is in none of the blocks but left..right: the last keys of
\* the blocks before left are before it, that of right is not.
Aimed(left, right, e, n) ==
    /\ left \in 1..n /\ right \in left..n
    /\ \A i \in 1..left - 1 : Before(entries[e[i]].key, probe)
    /\ right = n \/ ~Before(entries[e[right]].key, probe)

\* A step down the index keeps the name in sight.
LEMMA AimNarrows ==
    ASSUME Ordered(entries), probe \in Seq(Nat),
           NEW e, NEW n, Steps(e, n, Len(entries)),
           NEW seq, NEW p, NEW m, NEW first, LevelOver(seq, entries, e, n, p, m, first, Stride),
           NEW a \in Nat, NEW z \in Nat, a < z, z <= m, NEW b, Holds(b, "i", seq, a, z),
           Aimed(p[a] + 1, p[z], e, n)
    PROVE  \E k \in a + 1..z : DescendIndex(b) = Place(first + k) /\ Aimed(p[k - 1] + 1, p[k], e, n)
<1>1. Ordered(seq)
  BY LevelOrdered
<1>2. Steps(p, m, n) /\ Len(seq) = m /\ m \in Nat /\ n \in Nat
  BY DEF LevelOver, Steps
<1>3. PICK k \in a + 1..z : /\ DescendIndex(b) = seq[k].value
                            /\ \A i \in a + 1..k - 1 : Before(seq[i].key, probe)
                            /\ k = z \/ ~Before(seq[k].key, probe)
  BY <1>1, <1>2, Descends
<1>4. k \in 1..m
  BY <1>2
<1>5. /\ p[k - 1] \in Nat /\ p[k] \in Nat /\ p[k - 1] < p[k] /\ p[k] <= n /\ k - 1 \in 0..m
  BY <1>2, <1>4, StepsFacts
<1>6. DescendIndex(b) = Place(first + k)
  BY <1>3, <1>4 DEF LevelOver, Place
<1>7. ASSUME NEW i \in 1..(p[k - 1] + 1) - 1 PROVE Before(entries[e[i]].key, probe)
  <2>1. CASE k = a + 1
    <3>1. p[k - 1] = p[a]
      <4>1. k - 1 = a
        BY <2>1
      <4> QED
        BY <4>1
    <3> QED
      BY <3>1 DEF Aimed
  <2>2. CASE k # a + 1
    <3>1. k - 1 \in a + 1..k - 1 /\ k - 1 \in 1..m
      BY <1>2, <2>2
    <3>2. Before(seq[k - 1].key, probe)
      BY <1>3, <3>1
    <3>3. seq[k - 1].key = entries[e[p[k - 1]]].key
      BY <3>1 DEF LevelOver
    <3>4. i \in 1..p[k - 1] /\ p[k - 1] \in 1..n
      <4>1. PICK x \in Nat : x = p[k - 1] /\ x < p[k]
        BY <1>5
      <4>2. i \in 1..(x + 1) - 1 /\ p[k] \in Nat /\ p[k] <= n
        BY <1>5, <4>1
      <4>3. i \in 1..x /\ x \in 1..n
        BY SMTT(20), <1>2, <4>1, <4>2
      <4> QED
        BY <4>1, <4>3
    <3>5. i \in 1..n
      BY <1>2, <3>4
    <3>6. e[i] \in 1..Len(entries) /\ e[p[k - 1]] \in 1..Len(entries)
      BY <3>4, <3>5, StepsFacts
    <3>7. CASE i = p[k - 1]
      BY <3>2, <3>3, <3>7
    <3>8. CASE i # p[k - 1]
      <4>1. i < p[k - 1] /\ i \in 0..n /\ p[k - 1] \in 0..n
        BY <1>2, <3>4, <3>5, <3>8
      <4>2. e[i] < e[p[k - 1]]
        BY <4>1 DEF Steps
      <4>3. Before(entries[e[i]].key, entries[e[p[k - 1]]].key)
        BY <3>6, <4>2 DEF Ordered
      <4>4. entries[e[i]].key \in Seq(Nat) /\ entries[e[p[k - 1]]].key \in Seq(Nat)
        BY <3>6 DEF Ordered
      <4> QED
        BY <3>2, <3>3, <4>3, <4>4, BeforeOrder
    <3> QED
      BY <3>7, <3>8
  <2> QED
    BY <2>1, <2>2
<1>8. p[k] = n \/ ~Before(entries[e[p[k]]].key, probe)
  <2>1. CASE k = z
    BY <2>1 DEF Aimed
  <2>2. CASE k # z
    BY <1>3, <1>4, <2>2 DEF LevelOver
  <2> QED
    BY <2>1, <2>2
<1>9. p[k - 1] + 1 \in 1..n /\ p[k] \in p[k - 1] + 1..n
  BY SMTT(20), <1>2, <1>5
<1> QED
  BY <1>6, <1>7, <1>8, <1>9 DEF Aimed

\* The entry of the name, if there is one, is in the t-th block, at or behind
\* the c-th record of it.
LeftIn(t, c, e) ==
    \A j \in 1..Len(entries) : entries[j].key = probe => e[t - 1] + c <= j /\ j <= e[t]

LEMMA AimedLeft ==
    ASSUME Ordered(entries), probe \in Seq(Nat), NEW e, NEW n, Steps(e, n, Len(entries)),
           NEW t, Aimed(t, t, e, n)
    PROVE  LeftIn(t, 1, e)
<1>1. t \in 1..n /\ n \in Nat
  BY DEF Aimed, Steps
<1>2. e[t - 1] \in Nat /\ e[t] \in Nat /\ e[t] \in 1..Len(entries) /\ t - 1 \in 0..n
  BY <1>1, StepsFacts
<1> SUFFICES ASSUME NEW j \in 1..Len(entries), entries[j].key = probe
             PROVE  e[t - 1] + 1 <= j /\ j <= e[t]
  BY DEF LeftIn
<1>3. ~(j <= e[t - 1])
  <2> SUFFICES ASSUME j <= e[t - 1] PROVE FALSE
    OBVIOUS
  <2>1. t - 1 \in 1..n /\ t - 1 \in 1..t - 1
    <3>1. t # 1
      <4>1. ASSUME t = 1 PROVE FALSE
        <5>1. t - 1 = 0 /\ e[0] = 0
          BY <4>1 DEF Steps
        <5> QED
          BY <5>1
      <4> QED
        BY <4>1
    <3> QED
      BY <1>1, <3>1
  <2>2. Before(entries[e[t - 1]].key, probe)
    BY <2>1 DEF Aimed
  <2>3. e[t - 1] \in 1..Len(entries)
    BY <2>1, StepsFacts
  <2>4. entries[e[t - 1]].key \in Seq(Nat) /\ e[t - 1] # j
    BY <2>2, <2>3, BeforeOrder DEF Ordered
  <2>5. j < e[t - 1]
    BY <2>3, <2>4
  <2>6. Before(probe, entries[e[t - 1]].key)
    BY <2>3, <2>5 DEF Ordered
  <2> QED
    BY <2>2, <2>4, <2>6, BeforeOrder
<1>4. ~(e[t] < j)
  <2> SUFFICES ASSUME e[t] < j PROVE FALSE
    OBVIOUS
  <2>1. t # n
    <3>1. ASSUME t = n PROVE FALSE
      <4>1. e[t] = Len(entries)
        BY <3>1 DEF Steps
      <4> QED
        BY <1>2, <4>1
    <3> QED
      BY <3>1
  <2>2. ~Before(entries[e[t]].key, probe)
    BY <2>1 DEF Aimed
  <2>3. Before(entries[e[t]].key, probe)
    BY <1>2 DEF Ordered
  <2> QED
    BY <2>2, <2>3
<1> QED
  BY <1>2, <1>3, <1>4

\* The same from the first keys of blocks, by which seekLinear goes.
LEMMA BetweenLeft ==
    ASSUME Ordered(entries), probe \in Seq(Nat), NEW e, NEW n, Steps(e, n, Len(entries)),
           NEW t \in 1..n, t = 1 \/ ~Before(probe, entries[e[t - 1] + 1].key),
           t = n \/ Before(probe, entries[e[t] + 1].key)
    PROVE  LeftIn(t, 1, e)
<1>1. n \in Nat /\ e[t - 1] \in Nat /\ e[t] \in Nat /\ e[t - 1] < e[t] /\ e[t] <= Len(entries)
  BY StepsFacts DEF Steps
<1>l. Len(entries) \in Nat
  BY DEF Steps
<1> SUFFICES ASSUME NEW j \in 1..Len(entries), entries[j].key = probe
             PROVE  e[t - 1] + 1 <= j /\ j <= e[t]
  BY DEF LeftIn
<1>2. ~(j <= e[t - 1])
  <2> SUFFICES ASSUME j <= e[t - 1] PROVE FALSE
    OBVIOUS
  <2>1. t # 1
    <3>1. ASSUME t = 1 PROVE FALSE
      <4>1. t - 1 = 0 /\ e[0] = 0
        BY <3>1 DEF Steps
      <4> QED
        BY <4>1
    <3> QED
      BY <3>1
  <2>2. PICK k \in 1..Len(entries) : k = e[t - 1] + 1 /\ j < k
    BY <1>1, <1>l
  <2>3. Before(probe, entries[k].key)
    BY <2>2 DEF Ordered
  <2> QED
    BY <2>1, <2>2, <2>3
<1>3. ~(e[t] < j)
  <2> SUFFICES ASSUME e[t] < j PROVE FALSE
    OBVIOUS
  <2>1. t # n
    <3>1. ASSUME t = n PROVE FALSE
      <4>1. e[t] = Len(entries)
        BY <3>1 DEF Steps
      <4> QED
        BY <1>l, <4>1
    <3> QED
      BY <3>1
  <2>2. PICK k \in 1..Len(entries) : k = e[t] + 1 /\ (k = j \/ k < j)
    BY <1>1, <1>l
  <2>3. Before(probe, entries[k].key) /\ entries[k].key \in Seq(Nat)
    BY <2>1, <2>2 DEF Ordered
  <2>4. k # j
    BY <2>3, BeforeOrder
  <2>5. Before(entries[k].key, probe)
    BY <2>2, <2>4 DEF Ordered
  <2> QED
    BY <2>3, <2>5, BeforeOrder
<1> QED
  BY <1>1, <1>2, <1>3

(***************************************************************************)
(* The walk and the lookup of a table.                                     *)
(***************************************************************************)
\* The walk is about to read the i-th block.
WalkAt(i, e) ==
    /\ pos = Place(i) /\ prev \in Seq(Nat)
    /\ out = [k \in 1..e[i - 1] |-> entries[k]]

\* The record at cur of the i-th block is next; the one before it left its key.
RecordNext(i, e) ==
    /\ pos = Place(i) /\ prev \in Seq(Nat)
    /\ cur \in 1..(e[i] - e[i - 1]) + 1
    /\ cur > 1 => prev = entries[e[i - 1] + (cur - 1)].key

RecordsAt(i, e) == RecordNext(i, e) /\ out = [k \in 1..e[i - 1] + (cur - 1) |-> entries[k]]

LeafAt(i, e) == RecordNext(i, e) /\ LeftIn(i, cur, e)

\* seekLinear is about to read the i-th block, and the name is not before the
\* one before it.
LinearAt(i, e) ==
    /\ pos = Place(i) /\ cur = 1 /\ prev = <<>>
    /\ i # 1 => last = Place(i - 1)
    /\ i > 2 => ~Before(probe, entries[e[(i - 1) - 1] + 1].key)

\* seekIndexed is at the j-th block, below which are those in left..right.
IndexAt(j, left, right, e, n) ==
    /\ pos = Place(j) /\ cur = 1 /\ prev = <<>>
    /\ Aimed(left, right, e, n)
    /\ \/ depth = 0 /\ j = Len(blocks) /\ left = 1 /\ right = n /\ TopOver(blocks, j, entries, e, n, Stride)
       \/ depth \in {0, 1} /\ j \in n + 1..Len(blocks) /\ PartOver(blocks[j], left, right, entries, e, n, Stride)
       \/ depth \in {0, 1, 2} /\ j = left /\ j = right

Progress(e, n) ==
    /\ rpc = "walk" => \E i \in 1..n + 1 : WalkAt(i, e)
    /\ rpc = "records" => \E i \in 1..n : RecordsAt(i, e)
    /\ rpc = "seek" /\ root = 0 => \E i \in 1..n + 1 : LinearAt(i, e)
    /\ rpc = "seek" /\ root # 0 => \E j, left, right : IndexAt(j, left, right, e, n)
    /\ rpc = "leaf" => \E i \in 1..n : LeafAt(i, e)
    /\ rpc = "walked" => out = entries
    /\ rpc = "failed" => FooterMisread
    /\ rpc # "no ref blocks"
    /\ rpc = "found" =>
        out = IF \E i \in 1..Len(entries) : entries[i].key = probe /\ entries[i].value = "value"
              THEN << probe >> ELSE <<>>

\* A table without records.
Empty ==
    /\ entries = <<>> /\ blocks = <<>> /\ root = 0 /\ out = <<>>
    /\ rpc \in {"walk", "seek"} => pos = 0
    /\ rpc \in {"walk", "seek", "walked", "no ref blocks"}

TableInv ==
    /\ probe \in Seq(Nat) /\ footer \in {"r", "x"}
    /\ rpc = "none" => cur = 1 /\ prev = <<>> /\ depth = 0 /\ out = <<>>
    /\ rpc # "none" =>
          /\ Sized /\ Sorted(entries)
          /\ Empty \/ \E e, n : Filed(entries, blocks, root, Stride, e, n) /\ Progress(e, n)

LEMMA TableAnswers == TableInv => TableExact
<1> SUFFICES ASSUME TableInv PROVE TableExact
  OBVIOUS
<1>1. CASE rpc = "none"
  BY <1>1 DEF TableExact
<1>2. CASE rpc # "none" /\ Empty
  <2>1. DOMAIN entries = {}
    <3>1. entries = <<>>
      BY <1>2 DEF Empty
    <3>2. DOMAIN <<>> = 1..0 /\ 1..0 = {}
      OBVIOUS
    <3> QED
      BY <3>1, <3>2
  <2>2. rpc = "walked" => IterRefs = ItemsAt(entries, {i \in DOMAIN entries : entries[i].value = "value"})
    <3>1. out = entries
      BY <1>2 DEF Empty
    <3>2. {i \in DOMAIN out : out[i].value # "deletion"} = {i \in DOMAIN entries : entries[i].value = "value"}
      BY <2>1, <3>1
    <3> QED
      BY <3>1, <3>2 DEF IterRefs
  <2> QED
    BY <1>2, <2>1, <2>2 DEF Empty, TableExact
<1>3. ASSUME rpc # "none", NEW e, NEW n, Filed(entries, blocks, root, Stride, e, n), Progress(e, n)
      PROVE  TableExact
  <2>1. Sorted(entries)
    BY <1>3 DEF TableInv
  <2>2. DOMAIN entries = 1..Len(entries) /\ \A i \in 1..Len(entries) : entries[i].value \in {"value", "deletion"}
    BY <2>1 DEF Sorted, EntryOf
  <2>3. rpc = "walked" => /\ out = entries
                          /\ IterRefs = ItemsAt(entries, {i \in DOMAIN entries : entries[i].value = "value"})
    <3> SUFFICES ASSUME rpc = "walked" PROVE /\ out = entries
                          /\ IterRefs = ItemsAt(entries, {i \in DOMAIN entries : entries[i].value = "value"})
      OBVIOUS
    <3>1. out = entries
      BY <1>3 DEF Progress
    <3>2. {i \in DOMAIN out : out[i].value # "deletion"} = {i \in DOMAIN entries : entries[i].value = "value"}
      BY <2>2, <3>1
    <3> QED
      BY <3>1, <3>2 DEF IterRefs
  <2>4. rpc = "failed" => FooterMisread
    BY <1>3 DEF Progress
  <2>5. rpc # "no ref blocks"
    BY <1>3 DEF Progress
  <2>6. rpc = "found" =>
          out = IF \E i \in DOMAIN entries : entries[i].key = probe /\ entries[i].value = "value"
                THEN << probe >> ELSE <<>>
    BY <1>3, <2>2 DEF Progress
  <2> QED
    BY <2>3, <2>4, <2>5, <2>6 DEF TableExact
<1> QED
  BY <1>1, <1>2, <1>3 DEF TableInv

LEMMA TableBegins == RefTableInit => TableInv
<1> SUFFICES ASSUME RefTableInit PROVE TableInv
  OBVIOUS
<1>1. <<>> \in Seq(Nat)
  OBVIOUS
<1> QED
  BY <1>1 DEF RefTableInit, TableInv

\* What an action of the reader leaves as it was.
LEMMA TableKept ==
    ASSUME TableInv, UNCHANGED fileVars, rpc # "none", rpc' # "none",
           NEW e, NEW n, Filed(entries, blocks, root, Stride, e, n), Progress(e, n)'
    PROVE  TableInv'
<1>1. /\ entries' = entries /\ blocks' = blocks /\ blockSize' = blockSize /\ blockLen' = blockLen
      /\ root' = root /\ footer' = footer /\ probe' = probe
  BY DEF fileVars
<1>2. Stride' = Stride
  BY <1>1 DEF Stride
<1>3. Filed(entries', blocks', root', Stride', e, n)
  BY <1>1, <1>2
<1>4. Sized' /\ Sorted(entries')
  BY <1>1 DEF TableInv, Sized
<1>5. probe' \in Seq(Nat) /\ footer' \in {"r", "x"}
  BY <1>1 DEF TableInv
<1> QED
  BY <1>3, <1>4, <1>5 DEF TableInv

\* What is known of a table that is being read.
Reading(e, n) ==
    /\ rpc # "none" /\ Filed(entries, blocks, root, Stride, e, n) /\ Progress(e, n)
    /\ PlaceFacts /\ ReadFacts
    /\ Sized /\ Sorted(entries) /\ Ordered(entries) /\ probe \in Seq(Nat)
    /\ n \in Nat \ {0} /\ Steps(e, n, Len(entries)) /\ Len(blocks) \in Nat /\ n <= Len(blocks)

LEMMA BeingRead ==
    ASSUME TableInv, rpc # "none"
    PROVE  Empty \/ \E e, n : Reading(e, n)
<1> SUFFICES ASSUME NEW e, NEW n, Filed(entries, blocks, root, Stride, e, n), Progress(e, n)
             PROVE  Reading(e, n)
  BY DEF TableInv
<1>1. Sized /\ Sorted(entries) /\ probe \in Seq(Nat) /\ footer \in {"r", "x"}
  BY DEF TableInv
<1>2. n \in Nat \ {0} /\ Steps(e, n, Len(entries)) /\ Len(blocks) \in Nat /\ n <= Len(blocks)
      /\ DOMAIN blocks = 1..Len(blocks)
  BY DEF Filed, Steps
<1>3. Len(blocks) \in Nat \ {0}
  BY <1>2
<1>4. PlaceFacts /\ ReadFacts
  BY <1>1, <1>2, <1>3, Places, Reads
<1>5. Ordered(entries)
  BY <1>1 DEF Sorted
<1> QED
  BY <1>1, <1>2, <1>4, <1>5 DEF Reading

\* The record that is read is an entry.
LEMMA RecordRead ==
    ASSUME NEW e, NEW n, Reading(e, n), NEW i \in 1..n, RecordNext(i, e)
    PROVE  /\ DOMAIN blocks[BlockAt(pos)].recs = 1..e[i] - e[i - 1]
           /\ cur \in 1..e[i] - e[i - 1] =>
                /\ DecodeKey(Record(cur), prev) = entries[e[i - 1] + cur].key
                /\ Record(cur).value = entries[e[i - 1] + cur].value
                /\ e[i - 1] + cur \in 1..Len(entries)
<1>1. i \in 1..Len(blocks) /\ Steps(e, n, Len(entries)) /\ Len(entries) \in Nat
  BY DEF Reading, Ordered
<1>2. BlockAt(pos) = i
  BY <1>1 DEF RecordNext, Reading, ReadFacts
<1>a. PICK a \in Nat, z \in Nat : a = e[i - 1] /\ z = e[i] /\ a < z /\ z <= Len(entries)
  BY <1>1, StepsFacts
<1>b. PICK b : b = blocks[i]
  OBVIOUS
<1>3. Holds(b, "r", entries, a, z)
  BY <1>a, <1>b DEF Reading, Filed
<1>4. DOMAIN b.recs = 1..z - a
  BY <1>3 DEF Holds
<1>5. ASSUME cur \in 1..z - a
      PROVE  DecodeKey(b.recs[cur], prev) = entries[a + cur].key /\ b.recs[cur].value = entries[a + cur].value
  <2>1. b.recs[cur].value = entries[a + cur].value
    BY <1>3, <1>5 DEF Holds
  <2>2. CASE cur = 1
    <3>1. prev \in Seq(Nat)
      BY DEF RecordNext
    <3>2. 1 \in b.restarts
      BY <1>3 DEF Holds
    <3>3. \A before \in Seq(Nat) : DecodeKey(b.recs[1], before) = entries[a + 1].key
      BY <1>3, <3>2 DEF Holds
    <3> QED
      BY <2>1, <2>2, <3>1, <3>3
  <2>3. CASE cur # 1
    <3>1. cur \in 2..z - a /\ cur > 1
      BY <1>5, <2>3
    <3>2. prev = entries[a + (cur - 1)].key
      BY <1>a, <3>1 DEF RecordNext
    <3>3. DecodeKey(b.recs[cur], entries[a + (cur - 1)].key) = entries[a + cur].key
      BY <1>3, <3>1 DEF Holds
    <3> QED
      BY <2>1, <3>2, <3>3
  <2> QED
    BY <2>2, <2>3
<1>6. ASSUME cur \in 1..z - a PROVE a + cur \in 1..Len(entries)
  BY <1>1, <1>a, <1>6
<1> QED
  BY <1>2, <1>a, <1>b, <1>4, <1>5, <1>6 DEF Record

\* Where a block is not a ref block, all of them are behind; and the other way.
LEMMA RefBlocks ==
    ASSUME NEW e, NEW n, Reading(e, n), NEW i \in 1..n + 1, pos = Place(i)
    PROVE  /\ pos >= FileLen => i = n + 1
           /\ TypeAt(pos) # "r" => i = n + 1
           /\ pos < FileLen /\ TypeAt(pos) = "r" /\ pos > FooterAt => FooterMisread
           /\ pos < FooterAt /\ TypeAt(pos) = "r" => i \in 1..n
<1>1. n \in Nat \ {0} /\ n <= Len(blocks) /\ Len(blocks) \in Nat
  BY DEF Reading
<1>2. FooterAt \in Nat /\ FileLen \in Nat
  BY DEF Reading, ReadFacts
<1>3. CASE i \in 1..Len(blocks)
  <2>1. Place(i) < FooterAt /\ Place(i) < FileLen /\ TypeAt(Place(i)) = blocks[i].type
    BY <1>3 DEF Reading, ReadFacts
  <2>2. Place(i) \in Nat
    <3>1. i \in Nat \ {0}
      BY <1>3
    <3> QED
      BY <3>1 DEF Reading, PlaceFacts
  <2>3. i \in 1..n => blocks[i].type = "r"
    BY DEF Reading, Filed, Holds
  <2>4. i \notin 1..n => i = n + 1 /\ blocks[i].type = "i"
    <3>1. i \notin 1..n => i = n + 1 /\ i \in n + 1..Len(blocks)
      BY <1>1, <1>3
    <3> QED
      BY <3>1 DEF Reading, Filed
  <2> QED
    BY <1>2, <2>1, <2>2, <2>3, <2>4
<1>4. CASE i \notin 1..Len(blocks)
  <2>1. i = n + 1 /\ i = Len(blocks) + 1
    BY <1>1, <1>4
  <2>2. /\ ~(pos < FooterAt)
        /\ pos < FileLen /\ TypeAt(pos) = "r" => FooterMisread
    BY <2>1 DEF Reading, ReadFacts
  <2> QED
    BY <2>1, <2>2
<1> QED
  BY <1>3, <1>4

LEMMA FooterKept == UNCHANGED fileVars => (FooterMisread' <=> FooterMisread)
  BY DEF fileVars, FooterMisread, FooterAt, FileLen, Stride

LEMMA PlaceKept == UNCHANGED fileVars => \A i : Place(i)' = Place(i)
  BY DEF fileVars, Place, Stride

LEMMA TableWalkBlock == TableInv /\ WalkBlock => TableInv'
<1> SUFFICES ASSUME TableInv, WalkBlock PROVE TableInv'
  OBVIOUS
<1>1. /\ rpc = "walk" /\ rpc' \in {"walked", "failed", "records"} /\ cur' = 1
      /\ UNCHANGED fileVars /\ pos' = pos /\ prev' = prev /\ out' = out
  BY DEF WalkBlock, Goto
<1>2. CASE Empty
  <2>1. blocks = <<>> /\ pos = 0 /\ TypeAt(pos) = "R"
    BY <1>1, <1>2 DEF Empty, TypeAt
  <2>2. rpc' = "walked"
    <3>1. pos < FileLen /\ TypeAt(pos) # "r" => rpc' = "walked"
      BY <2>1 DEF WalkBlock, Goto
    <3>2. FileLen \in Nat \ {0}
      BY <1>1, <2>1, FooterLenAssumption DEF FileLen, FooterAt, TableInv, Sized
    <3> QED
      BY <2>1, <3>1, <3>2
  <2>3. Empty'
    BY <1>1, <1>2, <2>2 DEF Empty, fileVars
  <2> QED
    BY <1>1, <2>2, <2>3 DEF TableInv, fileVars, Sized
<1>3. ASSUME NEW e, NEW n, Reading(e, n) PROVE TableInv'
  <2>1. PICK i \in 1..n + 1 : WalkAt(i, e)
    BY <1>1, <1>3 DEF Reading, Progress
  <2>2. pos = Place(i) /\ prev \in Seq(Nat) /\ out = [k \in 1..e[i - 1] |-> entries[k]]
    BY <2>1 DEF WalkAt
  <2>3. /\ pos >= FileLen => i = n + 1
        /\ TypeAt(pos) # "r" => i = n + 1
        /\ pos < FileLen /\ TypeAt(pos) = "r" /\ pos > FooterAt => FooterMisread
        /\ pos < FooterAt /\ TypeAt(pos) = "r" => i \in 1..n
    BY <1>3, <2>2, RefBlocks
  <2>4. Progress(e, n)'
    <3>1. CASE rpc' = "walked"
      <4>1. i = n + 1
        BY <2>3, <3>1 DEF WalkBlock, Goto
      <4>2. i - 1 = n /\ e[n] = Len(entries) /\ entries = [k \in 1..Len(entries) |-> entries[k]]
        BY <1>3, <4>1 DEF Reading, Steps, Sorted
      <4>3. out = entries
        BY <2>2, <4>2
      <4> QED
        BY <1>1, <3>1, <4>3 DEF Progress, fileVars
    <3>2. CASE rpc' = "failed"
      <4>1. FooterMisread
        BY <2>3, <3>2 DEF WalkBlock, Goto
      <4> QED
        BY <1>1, <3>2, <4>1, FooterKept DEF Progress
    <3>3. CASE rpc' = "records"
      <4>1. i \in 1..n
        BY <2>3, <3>3 DEF WalkBlock, Goto
      <4>2. e[i] \in Nat /\ e[i - 1] \in Nat /\ e[i - 1] < e[i]
        BY <1>3, <4>1, StepsFacts DEF Reading
      <4>3. RecordNext(i, e)'
        <5>1. 1 \in 1..(e[i] - e[i - 1]) + 1 /\ ~(1 > 1)
          BY <4>2
        <5> QED
          BY <1>1, <2>2, <5>1, PlaceKept DEF RecordNext
      <4>4. RecordsAt(i, e)'
        <5>1. e[i - 1] + (1 - 1) = e[i - 1]
          BY <4>2
        <5> QED
          BY <1>1, <2>2, <4>3, <5>1 DEF RecordsAt, fileVars
      <4> QED
        BY <3>3, <4>1, <4>4 DEF Progress
    <3> QED
      BY <1>1, <3>1, <3>2, <3>3
  <2> QED
    BY <1>1, <1>3, <2>4, TableKept DEF Reading
<1> QED
  BY <1>1, <1>2, <1>3, BeingRead

LEMMA TableWalkRecord == TableInv /\ WalkRecord => TableInv'
<1> SUFFICES ASSUME TableInv, WalkRecord PROVE TableInv'
  OBVIOUS
<1>1. /\ rpc = "records" /\ rpc' = rpc /\ UNCHANGED fileVars /\ pos' = pos /\ cur' = cur + 1
      /\ cur \in DOMAIN blocks[BlockAt(pos)].recs
      /\ prev' = DecodeKey(Record(cur), prev)
      /\ out' = Append(out, [key |-> DecodeKey(Record(cur), prev), value |-> Record(cur).value])
  BY DEF WalkRecord
<1>2. PICK e, n : Reading(e, n)
  BY <1>1, BeingRead DEF Empty
<1>3. PICK i \in 1..n : RecordsAt(i, e)
  BY <1>1, <1>2 DEF Reading, Progress
<1>4. RecordNext(i, e)
  BY <1>3 DEF RecordsAt
<1>5. PICK a \in Nat, l \in Nat \ {0} : a = e[i - 1] /\ l = e[i] - e[i - 1]
  <2>1. e[i - 1] \in Nat /\ e[i] \in Nat /\ e[i - 1] < e[i]
    BY <1>2, StepsFacts DEF Reading
  <2> QED
    BY <2>1
<1>6. /\ cur \in 1..l
      /\ DecodeKey(Record(cur), prev) = entries[a + cur].key
      /\ Record(cur).value = entries[a + cur].value
      /\ a + cur \in 1..Len(entries)
  BY <1>1, <1>2, <1>4, <1>5, RecordRead
<1>7. entries[a + cur] = [key |-> entries[a + cur].key, value |-> entries[a + cur].value]
      /\ entries[a + cur].key \in Seq(Nat)
  BY <1>2, <1>6 DEF Reading, Sorted, EntryOf
<1>8. out' = [k \in 1..a + ((cur + 1) - 1) |-> entries[k]]
  <2>1. out = [k \in 1..a + (cur - 1) |-> entries[k]]
    BY <1>3, <1>5 DEF RecordsAt
  <2>2. PICK x \in Nat : x = a + (cur - 1) /\ x + 1 = a + cur /\ a + ((cur + 1) - 1) = x + 1
    BY <1>6
  <2>3. out' = Append(out, entries[x + 1])
    BY <1>1, <1>6, <1>7, <2>2
  <2>4. out = [k \in 1..x |-> entries[k]]
    BY <2>1, <2>2
  <2>5. Append([k \in 1..x |-> entries[k]], entries[x + 1]) = [k \in 1..x + 1 |-> entries[k]]
    OBVIOUS
  <2> QED
    BY <2>2, <2>3, <2>4, <2>5
<1>9. RecordNext(i, e)'
  <2>1. cur + 1 \in 1..l + 1 /\ (cur + 1) - 1 = cur
    BY <1>6
  <2>2. prev' = entries[a + ((cur + 1) - 1)].key /\ prev' \in Seq(Nat)
    BY <1>1, <1>6, <1>7, <2>1
  <2> QED
    BY <1>1, <1>4, <1>5, <2>1, <2>2, PlaceKept DEF RecordNext, fileVars
<1>10. RecordsAt(i, e)'
  BY <1>1, <1>5, <1>8, <1>9 DEF RecordsAt, fileVars
<1>11. Progress(e, n)'
  BY <1>1, <1>10 DEF Progress
<1> QED
  BY <1>1, <1>2, <1>11, TableKept DEF Reading

LEMMA TableWalkOn == TableInv /\ WalkOn => TableInv'
<1> SUFFICES ASSUME TableInv, WalkOn PROVE TableInv'
  OBVIOUS
<1>1. /\ rpc = "records" /\ rpc' = "walk" /\ UNCHANGED fileVars /\ pos' = NextBlock(pos) /\ prev' = prev
      /\ out' = out /\ cur \notin DOMAIN blocks[BlockAt(pos)].recs
  BY DEF WalkOn, Goto
<1>2. PICK e, n : Reading(e, n)
  BY <1>1, BeingRead DEF Empty
<1>3. PICK i \in 1..n : RecordsAt(i, e)
  BY <1>1, <1>2 DEF Reading, Progress
<1>4. RecordNext(i, e)
  BY <1>3 DEF RecordsAt
<1>5. PICK a \in Nat, z \in Nat : a = e[i - 1] /\ z = e[i] /\ a < z /\ i \in Nat \ {0}
  <2>1. e[i - 1] \in Nat /\ e[i] \in Nat /\ e[i - 1] < e[i]
    BY <1>2, StepsFacts DEF Reading
  <2> QED
    BY <2>1
<1>6. cur \in 1..(z - a) + 1 /\ cur \notin 1..z - a
  <2>1. DOMAIN blocks[BlockAt(pos)].recs = 1..e[i] - e[i - 1]
    BY <1>2, <1>4, RecordRead
  <2> QED
    BY <1>1, <1>4, <1>5, <2>1 DEF RecordNext
<1>7. a + (cur - 1) = z
  BY <1>5, <1>6
<1>8. WalkAt(i + 1, e)'
  <2>1. pos' = Place(i + 1)
    BY <1>1, <1>2, <1>4, <1>5 DEF RecordNext, Reading, PlaceFacts
  <2>2. (i + 1) - 1 = i
    BY <1>5
  <2>3. out = [k \in 1..e[(i + 1) - 1] |-> entries[k]]
    BY <1>3, <1>5, <1>7, <2>2 DEF RecordsAt
  <2> QED
    BY <1>1, <1>4, <2>1, <2>3, PlaceKept DEF WalkAt, RecordNext, fileVars
<1>9. i + 1 \in 1..n + 1
  BY <1>2 DEF Reading
<1>10. Progress(e, n)'
  BY <1>1, <1>8, <1>9 DEF Progress
<1> QED
  BY <1>1, <1>2, <1>10, TableKept DEF Reading

LEMMA TableSeekLinear == TableInv /\ SeekLinear => TableInv'
<1> SUFFICES ASSUME TableInv, SeekLinear PROVE TableInv'
  OBVIOUS
<1>1. /\ rpc = "seek" /\ root = 0 /\ rpc' \in {"no ref blocks", "leaf", "failed", "seek"}
      /\ UNCHANGED fileVars /\ cur' = cur /\ prev' = prev /\ out' = out
  BY DEF SeekLinear
<1>2. CASE Empty
  <2>1. blocks = <<>> /\ pos = 0 /\ TypeAt(pos) = "R"
    BY <1>1, <1>2 DEF Empty, TypeAt
  <2>2. rpc' = "no ref blocks"
    BY <2>1 DEF SeekLinear
  <2>3. Empty'
    BY <1>1, <1>2, <2>2 DEF Empty, fileVars
  <2> QED
    BY <1>1, <2>2, <2>3 DEF TableInv, fileVars, Sized
<1>3. ASSUME NEW e, NEW n, Reading(e, n) PROVE TableInv'
  <2>1. PICK i \in 1..n + 1 : LinearAt(i, e)
    BY <1>1, <1>3 DEF Reading, Progress
  <2>2. /\ pos = Place(i) /\ cur = 1 /\ prev = <<>> /\ (i # 1 => last = Place(i - 1))
        /\ (i > 2 => ~Before(probe, entries[e[(i - 1) - 1] + 1].key))
    BY <2>1 DEF LinearAt
  <2>3. /\ pos >= FileLen => i = n + 1
        /\ TypeAt(pos) # "r" => i = n + 1
        /\ pos < FileLen /\ TypeAt(pos) = "r" /\ pos > FooterAt => FooterMisread
        /\ pos < FooterAt /\ TypeAt(pos) = "r" => i \in 1..n
    BY <1>3, <2>2, RefBlocks
  <2>n. n \in Nat \ {0} /\ Steps(e, n, Len(entries)) /\ Ordered(entries) /\ probe \in Seq(Nat)
    BY <1>3 DEF Reading
  <2>4. i = 1 <=> pos = 0
    <3>1. Place(1) = 0
      BY <1>3 DEF Reading, PlaceFacts
    <3>2. i # 1 => Place(i) # 0
      <4>1. ASSUME i # 1 PROVE Place(i) # 0
        <5>1. i \in Nat \ {0} /\ 1 \in Nat \ {0} /\ 1 < i
          BY <2>n, <4>1
        <5>2. Place(1) + Stride <= Place(i) /\ Stride \in Nat \ {0}
          BY <1>3, <5>1 DEF Reading, PlaceFacts
        <5> QED
          BY <3>1, <5>2
      <4> QED
        BY <4>1
    <3> QED
      BY <2>2, <3>1, <3>2
  <2>5. ASSUME i # 1, LeftIn(i - 1, 1, e), rpc' = "leaf", pos' = last PROVE Progress(e, n)'
    <3>1. PICK t \in 1..n : t = i - 1
      BY <2>n, <2>5
    <3>2. e[t] \in Nat /\ e[t - 1] \in Nat /\ e[t - 1] < e[t]
      BY <2>n, StepsFacts
    <3>3. 1 \in 1..(e[t] - e[t - 1]) + 1 /\ ~(1 > 1) /\ <<>> \in Seq(Nat)
      BY <3>2
    <3>4. RecordNext(t, e)'
      BY <1>1, <2>2, <2>5, <3>1, <3>3, PlaceKept DEF RecordNext
    <3>5. LeftIn(t, cur, e)'
      BY <1>1, <2>2, <2>5, <3>1 DEF LeftIn, fileVars
    <3>6. LeafAt(t, e)'
      BY <3>4, <3>5 DEF LeafAt
    <3> QED
      BY <2>5, <3>6 DEF Progress
  <2>6. CASE pos >= FileLen \/ TypeAt(pos) # "r"
    <3>1. i = n + 1 /\ i # 1
      BY <2>3, <2>6, <2>n
    <3>2. ~(pos < FooterAt /\ TypeAt(pos) = "r") /\ ~(pos < FileLen /\ TypeAt(pos) = "r")
      <4>1. FooterAt \in Nat /\ FileLen \in Nat
        BY <1>3 DEF Reading, ReadFacts
      <4>2. pos \in Nat
        BY <1>3, <2>2, <3>1, <2>n DEF Reading, PlaceFacts
      <4>3. FileLen = FooterAt + FooterLen /\ FooterLen \in Nat \ {0}
        BY FooterLenAssumption DEF FileLen
      <4> QED
        BY <2>6, <4>1, <4>2, <4>3
    <3>3. rpc' = "leaf" /\ pos' = last
      BY <2>4, <3>1, <3>2 DEF SeekLinear
    <3>4. LeftIn(i - 1, 1, e)
      <4>1. PICK t \in 1..n : t = i - 1 /\ t = n
        BY <2>n, <3>1
      <4>2. t = 1 \/ ~Before(probe, entries[e[t - 1] + 1].key)
        BY <2>2, <2>n, <3>1, <4>1
      <4> QED
        BY <2>n, <4>1, <4>2, BetweenLeft
    <3> QED
      BY <1>1, <1>3, <2>5, <3>1, <3>3, <3>4, TableKept DEF Reading
  <2>7. CASE pos < FileLen /\ TypeAt(pos) = "r" /\ pos > FooterAt /\ rpc' = "failed"
    <3>1. FooterMisread'
      BY <1>1, <2>3, <2>7, FooterKept
    <3>2. Progress(e, n)'
      BY <2>7, <3>1 DEF Progress
    <3> QED
      BY <1>1, <1>3, <3>2, TableKept DEF Reading
  <2>8. CASE pos < FooterAt /\ TypeAt(pos) = "r" /\ pos > 0 /\ Before(probe, Record(1).suffix)
             /\ rpc' = "leaf" /\ pos' = last
    <3>1. i \in 1..n /\ i # 1
      BY <2>3, <2>4, <2>8
    <3>2. Record(1).suffix = entries[e[i - 1] + 1].key
      <4>1. BlockAt(pos) = i
        BY <1>3, <2>2, <3>1 DEF Reading, ReadFacts
      <4>2. Holds(blocks[i], "r", entries, e[i - 1], e[i])
        BY <1>3, <3>1 DEF Reading, Filed
      <4> QED
        BY <4>1, <4>2 DEF Record, Holds
    <3>3. LeftIn(i - 1, 1, e)
      <4>1. PICK t \in 1..n : t = i - 1 /\ t # n
        BY <2>n, <3>1
      <4>2. t = 1 \/ ~Before(probe, entries[e[t - 1] + 1].key)
        BY <2>2, <2>n, <3>1, <4>1
      <4>3. Before(probe, entries[e[t] + 1].key)
        BY <2>8, <3>2, <4>1
      <4> QED
        BY <2>n, <4>1, <4>2, <4>3, BetweenLeft
    <3> QED
      BY <1>1, <1>3, <2>5, <2>8, <3>1, <3>3, TableKept DEF Reading
  <2>9. CASE pos < FooterAt /\ TypeAt(pos) = "r" /\ ~(pos > 0 /\ Before(probe, Record(1).suffix))
             /\ rpc' = "seek" /\ pos' = NextBlock(pos) /\ last' = pos
    <3>1. i \in 1..n /\ i \in Nat \ {0} /\ i + 1 \in 1..n + 1
      BY <2>3, <2>9, <2>n
    <3>2. Record(1).suffix = entries[e[i - 1] + 1].key
      <4>1. BlockAt(pos) = i
        BY <1>3, <2>2, <3>1 DEF Reading, ReadFacts
      <4>2. Holds(blocks[i], "r", entries, e[i - 1], e[i])
        BY <1>3, <3>1 DEF Reading, Filed
      <4> QED
        BY <4>1, <4>2 DEF Record, Holds
    <3>3. pos' = Place(i + 1) /\ last' = Place((i + 1) - 1)
      <4>1. (i + 1) - 1 = i
        BY <3>1
      <4> QED
        BY <1>3, <2>2, <2>9, <3>1, <4>1 DEF Reading, PlaceFacts
    <3>4. i + 1 > 2 => ~Before(probe, entries[e[((i + 1) - 1) - 1] + 1].key)
      <4>1. ASSUME i + 1 > 2 PROVE ~Before(probe, entries[e[((i + 1) - 1) - 1] + 1].key)
        <5>1. i # 1 /\ ((i + 1) - 1) - 1 = i - 1
          BY <3>1, <4>1
        <5>2. pos > 0
          <6>1. pos \in Nat
            BY <1>3, <2>2, <3>1 DEF Reading, PlaceFacts
          <6> QED
            BY <2>4, <5>1, <6>1
        <5> QED
          BY <2>9, <3>2, <5>1, <5>2
      <4> QED
        BY <4>1
    <3>5. LinearAt(i + 1, e)'
      BY <1>1, <2>2, <3>3, <3>4, PlaceKept DEF LinearAt, fileVars
    <3>6. root' = 0
      BY <1>1 DEF fileVars
    <3>7. Progress(e, n)'
      BY <2>9, <3>1, <3>5, <3>6 DEF Progress
    <3> QED
      BY <1>1, <1>3, <3>7, TableKept DEF Reading
  <2> QED
    BY <2>6, <2>7, <2>8, <2>9 DEF SeekLinear
<1> QED
  BY <1>1, <1>2, <1>3, BeingRead

LEMMA TableSeekIndexed == TableInv /\ SeekIndexed => TableInv'
<1> SUFFICES ASSUME TableInv, SeekIndexed PROVE TableInv'
  OBVIOUS
<1>1. /\ rpc = "seek" /\ root # 0 /\ rpc' \in {"failed", "leaf", "seek"}
      /\ UNCHANGED fileVars /\ cur' = cur /\ prev' = prev /\ out' = out
  BY DEF SeekIndexed
<1>2. PICK e, n : Reading(e, n)
  BY <1>1, BeingRead DEF Empty
<1>3. PICK j, left, right : IndexAt(j, left, right, e, n)
  BY <1>1, <1>2 DEF Reading, Progress
<1>4. pos = Place(j) /\ cur = 1 /\ prev = <<>> /\ Aimed(left, right, e, n) /\ depth \in {0, 1, 2}
  BY <1>3 DEF IndexAt
<1>n. /\ n \in Nat \ {0} /\ Steps(e, n, Len(entries)) /\ Ordered(entries) /\ probe \in Seq(Nat)
      /\ n <= Len(blocks) /\ Len(blocks) \in Nat
  BY <1>2 DEF Reading
<1>5. depth < MaxDepth /\ depth # MaxDepth
  BY <1>4, MaxDepthAssumption
<1>6. j \in 1..Len(blocks)
  <2>1. left \in 1..n
    BY <1>4 DEF Aimed
  <2>2. \/ j = Len(blocks) \/ j \in n + 1..Len(blocks) \/ j = left
    BY <1>3 DEF IndexAt
  <2> QED
    BY <1>n, <2>1, <2>2
<1>7. BlockAt(pos) = j /\ TypeAt(pos) = blocks[j].type
  BY <1>2, <1>4, <1>6 DEF Reading, ReadFacts
<1>8. blocks[j].type = IF j \in 1..n THEN "r" ELSE "i"
  <2>1. j \in 1..n => blocks[j].type = "r"
    BY <1>2 DEF Reading, Filed, Holds
  <2>2. j \notin 1..n => j \in n + 1..Len(blocks)
    BY <1>6, <1>n
  <2>3. j \notin 1..n => blocks[j].type = "i"
    BY <1>2, <2>2 DEF Reading, Filed
  <2> QED
    BY <2>1, <2>3
<1>9. CASE j \in 1..n
  <2>1. j = left /\ j = right
    <3>1. ~TopOver(blocks, j, entries, e, n, Stride)
      BY <1>n, <1>9 DEF TopOver, LevelOver, Steps
    <3>2. j \notin n + 1..Len(blocks)
      BY <1>9, <1>n
    <3> QED
      BY <1>3, <3>1, <3>2 DEF IndexAt
  <2>2. rpc' = "leaf" /\ pos' = pos
    BY <1>5, <1>7, <1>8, <1>9 DEF SeekIndexed
  <2>3. LeftIn(j, 1, e)
    BY <1>4, <1>n, <2>1, AimedLeft
  <2>4. e[j] \in Nat /\ e[j - 1] \in Nat /\ e[j - 1] < e[j]
    BY <1>9, <1>n, StepsFacts
  <2>5. 1 \in 1..(e[j] - e[j - 1]) + 1 /\ ~(1 > 1) /\ <<>> \in Seq(Nat)
    BY <2>4
  <2>6. RecordNext(j, e)'
    BY <1>1, <1>4, <2>2, <2>5, PlaceKept DEF RecordNext
  <2>7. LeafAt(j, e)'
    BY <1>1, <1>4, <2>3, <2>6 DEF LeafAt, LeftIn, fileVars
  <2>8. Progress(e, n)'
    BY <1>9, <2>2, <2>7 DEF Progress
  <2> QED
    BY <1>1, <1>2, <2>8, TableKept DEF Reading
<1>10. CASE j \notin 1..n
  <2>1. /\ pos' = DescendIndex(blocks[j]) /\ depth' = depth + 1
        /\ rpc' = IF pos' = pos THEN "failed" ELSE "seek"
    BY <1>5, <1>7, <1>8, <1>10 DEF SeekIndexed
  <2>2. \E k, l, h : /\ k \in 1..j - 1 /\ DescendIndex(blocks[j]) = Place(k) /\ Aimed(l, h, e, n)
                     /\ \/ depth = 0 /\ k \in n + 1..Len(blocks)
                             /\ PartOver(blocks[k], l, h, entries, e, n, Stride)
                        \/ depth \in {0, 1} /\ k = l /\ k = h
    <3>1. CASE depth = 0 /\ left = 1 /\ right = n /\ TopOver(blocks, j, entries, e, n, Stride)
      <4>1. PICK top, f, m :
               /\ LevelOver(top, entries, e, n, f, m, n, Stride) /\ Holds(blocks[j], "i", top, 0, m)
               /\ n + m < j
               /\ \A k \in 1..m : PartOver(blocks[n + k], f[k - 1] + 1, f[k], entries, e, n, Stride)
        BY <3>1 DEF TopOver
      <4>2. Steps(f, m, n) /\ m \in Nat \ {0} /\ f[0] = 0 /\ f[m] = n
        BY <4>1 DEF LevelOver, Steps
      <4>3. Aimed(f[0] + 1, f[m], e, n)
        BY <1>4, <3>1, <4>2
      <4>4. PICK k \in 0 + 1..m : DescendIndex(blocks[j]) = Place(n + k) /\ Aimed(f[k - 1] + 1, f[k], e, n)
        <5>1. 0 \in Nat /\ m \in Nat /\ 0 < m /\ m <= m
          BY <4>2
        <5> QED
          BY SMTT(30), <1>n, <4>1, <4>3, <5>1, AimNarrows
      <4>5. n + k \in 1..j - 1 /\ n + k \in n + 1..Len(blocks) /\ k \in 1..m
        BY <1>6, <1>n, <4>1, <4>2
      <4> QED
        BY <3>1, <4>1, <4>4, <4>5
    <3>2. CASE depth \in {0, 1} /\ j \in n + 1..Len(blocks)
               /\ PartOver(blocks[j], left, right, entries, e, n, Stride)
      <4>1. PICK low : /\ LevelOver(low, entries, e, n, Same(n), n, 0, Stride)
                       /\ Holds(blocks[j], "i", low, left - 1, right)
        BY <3>2 DEF PartOver
      <4>2. left \in 1..n /\ right \in left..n
        BY <3>2 DEF PartOver
      <4>p. PICK p : p = Same(n)
        OBVIOUS
      <4>3. \A i \in 0..n : p[i] = i
        BY <4>p DEF Same
      <4>a. PICK a \in Nat, z \in Nat : a = left - 1 /\ z = right /\ a < z /\ z <= n /\ a + 1 = left
        BY <1>n, <4>2
      <4>4. Aimed(p[a] + 1, p[z], e, n)
        <5>1. a \in 0..n /\ z \in 0..n
          BY <1>n, <4>a
        <5>2. p[a] + 1 = left /\ p[z] = right
          BY <4>3, <4>a, <5>1
        <5> QED
          BY <1>4, <5>2
      <4>5. LevelOver(low, entries, e, n, p, n, 0, Stride) /\ Holds(blocks[j], "i", low, a, z)
        BY <4>1, <4>a, <4>p
      <4>6. PICK k \in a + 1..z : DescendIndex(blocks[j]) = Place(0 + k) /\ Aimed(p[k - 1] + 1, p[k], e, n)
        BY SMTT(30), <1>n, <4>4, <4>5, <4>a, AimNarrows
      <4>7. k \in 1..n /\ 0 + k = k /\ k \in 1..j - 1
        BY <1>n, <3>2, <4>a
      <4>8. p[k - 1] + 1 = k /\ p[k] = k
        <5>1. k - 1 \in 0..n /\ k \in 0..n
          BY <1>n, <4>7
        <5> QED
          BY <4>3, <4>7, <5>1
      <4> QED
        BY <3>2, <4>6, <4>7, <4>8
    <3>3. ~(j = left /\ j = right)
      BY <1>4, <1>10 DEF Aimed
    <3> QED
      BY <1>3, <3>1, <3>2, <3>3 DEF IndexAt
  <2>3. PICK k, l, h : /\ k \in 1..j - 1 /\ DescendIndex(blocks[j]) = Place(k) /\ Aimed(l, h, e, n)
                       /\ \/ depth = 0 /\ k \in n + 1..Len(blocks)
                               /\ PartOver(blocks[k], l, h, entries, e, n, Stride)
                          \/ depth \in {0, 1} /\ k = l /\ k = h
    BY <2>2
  <2>4. pos' # pos
    <3>1. k \in Nat \ {0} /\ j \in Nat \ {0} /\ k < j
      BY <1>6, <2>3
    <3>2. Place(k) + Stride <= Place(j) /\ Place(k) \in Nat /\ Stride \in Nat \ {0}
      BY <1>2, <3>1 DEF Reading, PlaceFacts
    <3>3. Place(k) # Place(j)
      BY <3>2
    <3> QED
      BY <1>4, <2>1, <2>3, <3>3
  <2>5. rpc' = "seek" /\ root' # 0
    BY <1>1, <2>1, <2>4 DEF fileVars
  <2>6. IndexAt(k, l, h, e, n)'
    <3>1. pos' = Place(k)' /\ cur' = 1 /\ prev' = <<>>
      BY <1>1, <1>4, <2>1, <2>3, PlaceKept
    <3>2. Aimed(l, h, e, n)'
      BY <1>1, <2>3 DEF Aimed, fileVars
    <3>3. blocks' = blocks /\ entries' = entries /\ Stride' = Stride
      BY <1>1 DEF fileVars, Stride
    <3>4. \/ depth' \in {0, 1} /\ k \in n + 1..Len(blocks') /\ PartOver(blocks'[k], l, h, entries', e, n, Stride')
          \/ depth' \in {0, 1, 2} /\ k = l /\ k = h
      BY <2>1, <2>3, <3>3
    <3> QED
      BY <3>1, <3>2, <3>4 DEF IndexAt
  <2>7. Progress(e, n)'
    BY <2>5, <2>6 DEF Progress
  <2> QED
    BY <1>1, <1>2, <2>5, <2>7, TableKept DEF Reading
<1> QED
  BY <1>9, <1>10

LEMMA TableScanLeaf == TableInv /\ ScanLeaf => TableInv'
<1> SUFFICES ASSUME TableInv, ScanLeaf PROVE TableInv'
  OBVIOUS
<1>1. rpc = "leaf" /\ rpc' \in {"leaf", "found"} /\ UNCHANGED fileVars /\ pos' = pos
  BY DEF ScanLeaf, Answer
<1>2. PICK e, n : Reading(e, n)
  BY <1>1, BeingRead DEF Empty
<1>n. /\ n \in Nat \ {0} /\ Steps(e, n, Len(entries)) /\ Ordered(entries) /\ probe \in Seq(Nat)
      /\ Sorted(entries)
  BY <1>2 DEF Reading
<1>3. PICK i \in 1..n : LeafAt(i, e)
  BY <1>1, <1>2 DEF Reading, Progress
<1>4. RecordNext(i, e) /\ LeftIn(i, cur, e)
  BY <1>3 DEF LeafAt
<1>5. PICK a \in Nat, z \in Nat : a = e[i - 1] /\ z = e[i] /\ a < z
  <2>1. e[i - 1] \in Nat /\ e[i] \in Nat /\ e[i - 1] < e[i]
    BY <1>n, StepsFacts
  <2> QED
    BY <2>1
<1>6. DOMAIN blocks[BlockAt(pos)].recs = 1..z - a /\ cur \in 1..(z - a) + 1
  <2>1. DOMAIN blocks[BlockAt(pos)].recs = 1..e[i] - e[i - 1]
    BY <1>2, <1>4, RecordRead
  <2> QED
    BY <1>4, <1>5, <2>1 DEF RecordNext
<1>7. \A j \in 1..Len(entries) : entries[j].key = probe => a + cur <= j /\ j <= z
  BY <1>4, <1>5 DEF LeftIn
<1> DEFINE There == \E j \in 1..Len(entries) : entries[j].key = probe /\ entries[j].value = "value"
<1>8. ASSUME rpc' = "found", out' = IF There THEN << probe >> ELSE <<>> PROVE TableInv'
  <2>1. Progress(e, n)'
    BY <1>1, <1>8 DEF Progress, fileVars
  <2> QED
    BY <1>1, <1>2, <1>8, <2>1, TableKept DEF Reading
<1>9. CASE cur \notin 1..z - a
  <2>1. rpc' = "found" /\ out' = <<>>
    BY <1>6, <1>9 DEF ScanLeaf, Answer
  <2>2. a + cur = z + 1
    BY SMTT(20), <1>5, <1>6, <1>9
  <2>3. ~There
    <3>1. ASSUME NEW j \in 1..Len(entries), entries[j].key = probe PROVE FALSE
      <4>1. a + cur <= j /\ j <= z
        BY <1>7, <3>1
      <4> QED
        BY <2>2, <4>1
    <3> QED
      BY <3>1
  <2> HIDE DEF There
  <2> QED
    BY <1>8, <2>1, <2>3
<1>10. CASE cur \in 1..z - a
  <2>r. PICK key, value : key = DecodeKey(Record(cur), prev) /\ value = Record(cur).value
    OBVIOUS
  <2>k. PICK k \in 1..Len(entries) : k = a + cur /\ key = entries[k].key /\ value = entries[k].value
    BY <1>2, <1>4, <1>5, <1>10, <2>r, RecordRead
  <2>1. key \in Seq(Nat) /\ value \in {"value", "deletion"}
    BY <1>n, <2>k DEF Sorted, EntryOf
  <2>2. \/ /\ key = probe /\ rpc' = "found"
           /\ out' = IF value = "deletion" THEN <<>> ELSE << key >>
        \/ Before(probe, key) /\ rpc' = "found" /\ out' = <<>>
        \/ Before(key, probe) /\ rpc' = rpc /\ cur' = cur + 1 /\ prev' = key
    BY <1>6, <1>10, <2>r DEF ScanLeaf, Answer
  <2>3. CASE key = probe /\ rpc' = "found" /\ out' = IF value = "deletion" THEN <<>> ELSE << key >>
    <3>1. There <=> value = "value"
      <4>1. ASSUME NEW j \in 1..Len(entries), entries[j].key = probe PROVE j = k
        <5>1. ~(j < k) /\ ~(k < j)
          BY <1>n, <2>1, <2>3, <2>k, <4>1, BeforeOrder DEF Ordered
        <5> QED
          BY <5>1
      <4> QED
        BY <2>3, <2>k, <4>1
    <3> HIDE DEF There
    <3> QED
      BY <1>8, <2>1, <2>3, <3>1
  <2>4. CASE Before(probe, key) /\ rpc' = "found" /\ out' = <<>>
    <3>1. ~There
      <4>1. ASSUME NEW j \in 1..Len(entries), entries[j].key = probe PROVE FALSE
        <5>1. k <= j
          BY <1>7, <2>k, <4>1
        <5>2. k # j
          BY <1>n, <2>4, <2>k, <4>1, BeforeOrder
        <5>3. Before(key, probe)
          <6>1. k < j
            BY <5>1, <5>2
          <6> QED
            BY <1>n, <2>k, <4>1, <6>1 DEF Ordered
        <5> QED
          BY <1>n, <2>1, <2>4, <5>3, BeforeOrder
      <4> QED
        BY <4>1
    <3> HIDE DEF There
    <3> QED
      BY <1>8, <2>4, <3>1
  <2>5. CASE Before(key, probe) /\ rpc' = rpc /\ cur' = cur + 1 /\ prev' = key
    <3>1. cur + 1 \in 1..(z - a) + 1 /\ (cur + 1) - 1 = cur
      BY <1>10
    <3>2. RecordNext(i, e)'
      <4>1. prev' = entries[a + ((cur + 1) - 1)].key /\ prev' \in Seq(Nat)
        BY <2>1, <2>5, <2>k, <3>1
      <4> QED
        BY <1>1, <1>4, <1>5, <2>5, <3>1, <4>1, PlaceKept DEF RecordNext, fileVars
    <3>3. ASSUME NEW j \in 1..Len(entries), entries[j].key = probe PROVE a + (cur + 1) <= j /\ j <= z
      <4>1. a + cur <= j /\ j <= z
        BY <1>7, <3>3
      <4>2. k # j
        BY <1>n, <2>1, <2>5, <2>k, <3>3, BeforeOrder
      <4> QED
        BY <1>10, <2>k, <4>1, <4>2
    <3>4. LeafAt(i, e)'
      BY <1>1, <1>5, <2>5, <3>2, <3>3 DEF LeafAt, LeftIn, fileVars
    <3>5. Progress(e, n)'
      BY <1>1, <2>5, <3>4 DEF Progress
    <3> QED
      BY <1>1, <1>2, <2>5, <3>5, TableKept DEF Reading
  <2> QED
    BY <2>2, <2>3, <2>4, <2>5
<1> QED
  BY <1>9, <1>10

LEMMA StrideOfBlocks ==
    ASSUME NEW bs \in Nat, NEW bl \in 1..(IF bs = 0 THEN 1 ELSE bs)
    PROVE  RoundUp(bl, bs) \in Nat \ {0}
<1>1. CASE bs = 0
  BY <1>1 DEF RoundUp
<1>2. CASE bs # 0
  <2>1. bs \in Nat \ {0} /\ bl \in 1..bs /\ 0 \in Nat
    BY <1>2
  <2>2. RoundUp(0 * bs + bl, bs) = (0 + 1) * bs
    BY <2>1, RoundedUp
  <2>3. 0 * bs + bl = bl /\ (0 + 1) * bs = bs
    BY <2>1
  <2> QED
    BY <2>1, <2>2, <2>3
<1> QED
  BY <1>1, <1>2

LEMMA SizesWritten == TableWritten => Sized' /\ Stride' \in Nat \ {0}
<1> SUFFICES ASSUME TableWritten PROVE Sized' /\ Stride' \in Nat \ {0}
  OBVIOUS
<1>1. blockSize' \in Nat /\ blockLen' \in 1..(IF blockSize' = 0 THEN 1 ELSE blockSize')
  BY BlockSizesAssumption DEF TableWritten
<1>2. Sized'
  BY <1>1 DEF Sized
<1>3. RoundUp(blockLen', blockSize') \in Nat \ {0}
  BY <1>1, StrideOfBlocks
<1> QED
  BY <1>2, <1>3 DEF Stride

LEMMA EntriesWritten == TableWritten => Sorted(entries')
<1> SUFFICES ASSUME TableWritten PROVE Sorted(entries')
  OBVIOUS
<1>k. PICK keys \in SUBSET TableKeys :
          /\ IsFiniteSet(keys)
          /\ \E values \in [keys -> {"value", "deletion"}] : entries' = SortedEntries(values)
  BY DEF TableWritten
<1>1. PICK values \in [keys -> {"value", "deletion"}] : entries' = SortedEntries(values)
  BY <1>k
<1>2. IsFiniteSet(keys) /\ keys \subseteq Seq(Nat)
  BY <1>k, KeysAssumption
<1>3. Sorted(SortedEntries(values))
  BY <1>2, SortedEntriesSorted
<1> QED
  BY <1>1, <1>3

LEMMA BlocksWritten ==
    ASSUME TableWritten
    PROVE  \/ entries' = <<>> /\ blocks' = <<>> /\ root' = 0
           \/ \E e, n : Filed(entries', blocks', root', Stride', e, n)
<1>1. CASE entries' = <<>>
  BY <1>1 DEF TableWritten
<1>2. CASE entries' # <<>>
  <2>s. PICK s \in Nat \ {0} : s = Stride'
    BY SizesWritten
  <2>e. PICK en : en = entries' /\ Sorted(en)
    BY EntriesWritten
  <2>b. PICK bl, rt : bl = blocks' /\ rt = root'
    OBVIOUS
  <2>1. Ordered(en) /\ Len(en) \in Nat
    BY <2>e DEF Sorted, Ordered
  <2>2. Len(en) # 0
    <3>1. Len(en) = 0 => en = <<>>
      BY <2>e DEF Sorted
    <3> QED
      BY <1>2, <2>e, <3>1
  <2>3. PICK levels \in 0..2, interval \in Intervals, cuts \in SUBSET (1..Len(en) - 1) :
          /\ bl = WriteTable(en, cuts, levels, interval, s)
          /\ rt = IF levels = 0 THEN 0 ELSE Position(s, Len(bl))
    BY <1>2, <2>s, <2>e, <2>b DEF TableWritten
  <2>4. Len(en) \in Nat \ {0} /\ cuts \subseteq 1..Len(en) - 1
    BY <2>1, <2>2
  <2>5. \E e, n : Filed(en, bl, rt, s, e, n)
    BY <2>1, <2>3, <2>4, TableFiled
  <2> QED
    BY <2>s, <2>e, <2>b, <2>5
<1> QED
  BY <1>1, <1>2

\* A reader opens the table at its first block or at the root of its index.
LEMMA ReadingBegins ==
    ASSUME TableInv, TableWritten, NEW e, NEW n, Filed(entries', blocks', root', Stride', e, n)
    PROVE  Progress(e, n)'
<1>1. cur' = 1 /\ prev' = <<>> /\ depth' = 0 /\ out' = <<>>
  BY DEF TableWritten, TableInv
<1>2. /\ Steps(e, n, Len(entries')) /\ n \in Nat \ {0} /\ e[0] = 0
      /\ Len(blocks') \in Nat /\ n <= Len(blocks')
  BY DEF Filed, Steps
<1>3. <<>> \in Seq(Nat)
  OBVIOUS
<1>4. 1 \in 1..n + 1
  BY <1>2
<1>5. Place(1)' = 0
  <2>1. PICK s \in Nat : s = Stride'
    BY SizesWritten
  <2>2. (1 - 1) * s = 0
    <3>1. 1 - 1 = 0 /\ 0 * s = 0
      OBVIOUS
    <3> QED
      BY <3>1
  <2> QED
    BY <2>1, <2>2 DEF Place, Position
<1>6. CASE rpc' = "walk" /\ pos' = 0
  <2>1. out' = [k \in 1..e[1 - 1] |-> entries'[k]]
    <3>1. 1..e[1 - 1] = {}
      BY <1>2
    <3>2. <<>> = [k \in {} |-> entries'[k]]
      OBVIOUS
    <3> QED
      BY <1>1, <3>1, <3>2
  <2>2. WalkAt(1, e)'
    BY <1>1, <1>3, <1>5, <1>6, <2>1 DEF WalkAt
  <2> QED
    BY <1>4, <1>6, <2>2 DEF Progress
<1>7. CASE rpc' = "seek" /\ pos' = root' /\ root' = 0
  <2>1. LinearAt(1, e)'
    BY <1>1, <1>5, <1>7 DEF LinearAt
  <2> QED
    BY <1>4, <1>7, <2>1 DEF Progress
<1>8. CASE rpc' = "seek" /\ pos' = root' /\ root' # 0
  <2>l. PICK l \in Nat : l = Len(blocks') /\ l > n
    BY <1>2, <1>8 DEF Filed
  <2>1. root' = Position(Stride', l)
    BY <1>8, <2>l DEF Filed
  <2>2. pos' = Place(l)'
    BY <1>8, <2>1, <2>l DEF Place
  <2>3. Aimed(1, n, e, n)'
    <3>1. 1 \in 1..n /\ n \in 1..n /\ 1..1 - 1 = {}
      BY <1>2
    <3> QED
      BY <3>1 DEF Aimed
  <2>4. \/ PartOver(blocks'[l], 1, n, entries', e, n, Stride')
        \/ TopOver(blocks', l, entries', e, n, Stride')
    BY <1>8, <2>l DEF Filed
  <2>5. l \in n + 1..Len(blocks')
    BY <1>2, <2>l
  <2>6. IndexAt(l, 1, n, e, n)'
    BY <1>1, <2>2, <2>3, <2>4, <2>5, <2>l DEF IndexAt
  <2> QED
    BY <1>8, <2>6 DEF Progress
<1> QED
  BY <1>6, <1>7, <1>8 DEF TableWritten

LEMMA TableOpened == TableInv /\ TableWritten => TableInv'
<1> SUFFICES ASSUME TableInv, TableWritten PROVE TableInv'
  OBVIOUS
<1>1. rpc = "none" /\ rpc' \in {"walk", "seek"} /\ out' = out /\ footer' \in {"r", "x"}
  BY DEF TableWritten
<1>2. probe' \in Seq(Nat)
  BY KeysAssumption DEF TableWritten, TableInv
<1>3. Sized' /\ Sorted(entries')
  BY SizesWritten, EntriesWritten
<1>4. CASE entries' = <<>> /\ blocks' = <<>> /\ root' = 0
  <2>1. pos' = 0
    BY <1>4 DEF TableWritten
  <2>2. out' = <<>>
    BY <1>1 DEF TableInv
  <2>3. Empty'
    BY <1>1, <1>4, <2>1, <2>2 DEF Empty
  <2> QED
    BY <1>1, <1>2, <1>3, <2>3 DEF TableInv
<1>5. ASSUME NEW e, NEW n, Filed(entries', blocks', root', Stride', e, n) PROVE TableInv'
  <2>1. Progress(e, n)'
    BY <1>5, ReadingBegins
  <2> QED
    BY <1>1, <1>2, <1>3, <1>5, <2>1 DEF TableInv
<1> QED
  BY <1>4, <1>5, BlocksWritten

LEMMA TableStill == TableInv /\ UNCHANGED tableVars => TableInv'
<1> SUFFICES ASSUME TableInv, UNCHANGED tableVars PROVE TableInv'
  OBVIOUS
<1>1. UNCHANGED fileVars /\ UNCHANGED <<rpc, pos, cur, prev, last, depth, out>>
  BY DEF tableVars
<1>2. UNCHANGED <<entries, blocks, blockSize, blockLen, root, footer, probe>>
  BY <1>1 DEF fileVars
<1>3. CASE rpc = "none"
  BY <1>1, <1>2, <1>3 DEF TableInv
<1>4. CASE rpc # "none" /\ Empty
  <2>1. Empty'
    BY <1>1, <1>2, <1>4 DEF Empty
  <2>2. Sized'
    BY <1>2, <1>4 DEF TableInv, Sized
  <2> QED
    BY <1>1, <1>2, <1>4, <2>1, <2>2 DEF TableInv
<1>5. ASSUME rpc # "none", NEW e, NEW n, Filed(entries, blocks, root, Stride, e, n), Progress(e, n)
      PROVE  TableInv'
  <2>1. Progress(e, n)'
    <3>1. Stride' = Stride /\ FooterMisread' = FooterMisread
      BY <1>2 DEF Stride, FooterMisread, FooterAt, FileLen
    <3>2. \A i : Place(i)' = Place(i)
      BY <3>1 DEF Place
    <3>3. \A i : RecordNext(i, e) => RecordNext(i, e)'
      BY <1>1, <1>2, <3>2 DEF RecordNext
    <3>7. rpc' = rpc /\ root' = root /\ out' = out /\ entries' = entries /\ probe' = probe
      BY <1>1, <1>2
    <3>8. ASSUME rpc = "walk" PROVE \E i \in 1..n + 1 : WalkAt(i, e)'
      <4>1. PICK i \in 1..n + 1 : WalkAt(i, e)
        BY <1>5, <3>8 DEF Progress
      <4>2. WalkAt(i, e)'
        BY <1>1, <1>2, <3>2, <4>1 DEF WalkAt
      <4> QED
        BY <4>2
    <3>9. ASSUME rpc = "records" PROVE \E i \in 1..n : RecordsAt(i, e)'
      <4>1. PICK i \in 1..n : RecordsAt(i, e)
        BY <1>5, <3>9 DEF Progress
      <4>2. RecordsAt(i, e)'
        BY <1>1, <1>2, <3>3, <4>1 DEF RecordsAt
      <4> QED
        BY <4>2
    <3>10. ASSUME rpc = "leaf" PROVE \E i \in 1..n : LeafAt(i, e)'
      <4>1. PICK i \in 1..n : LeafAt(i, e)
        BY <1>5, <3>10 DEF Progress
      <4>2. LeafAt(i, e)'
        BY <1>1, <1>2, <3>3, <4>1 DEF LeafAt, LeftIn
      <4> QED
        BY <4>2
    <3>11. ASSUME rpc = "seek", root = 0 PROVE \E i \in 1..n + 1 : LinearAt(i, e)'
      <4>1. PICK i \in 1..n + 1 : LinearAt(i, e)
        BY <1>5, <3>11 DEF Progress
      <4>2. LinearAt(i, e)'
        BY <1>1, <1>2, <3>2, <4>1 DEF LinearAt
      <4> QED
        BY <4>2
    <3>12. ASSUME rpc = "seek", root # 0 PROVE \E j, left, right : IndexAt(j, left, right, e, n)'
      <4>1. PICK j, left, right : IndexAt(j, left, right, e, n)
        BY <1>5, <3>12 DEF Progress
      <4>2. IndexAt(j, left, right, e, n)'
        BY <1>1, <1>2, <3>1, <3>2, <4>1 DEF IndexAt, Aimed
      <4> QED
        BY <4>2
    <3>13. /\ rpc' = "walked" => out' = entries'
           /\ rpc' = "failed" => FooterMisread'
           /\ rpc' # "no ref blocks"
           /\ rpc' = "found" =>
                out' = IF \E i \in 1..Len(entries') : entries'[i].key = probe' /\ entries'[i].value = "value"
                       THEN << probe' >> ELSE <<>>
      BY <1>5, <3>1, <3>7 DEF Progress
    <3> QED
      BY <3>7, <3>8, <3>9, <3>10, <3>11, <3>12, <3>13 DEF Progress
  <2> QED
    BY <1>1, <1>5, <2>1, TableKept
<1> QED
  BY <1>3, <1>4, <1>5 DEF TableInv

LEMMA TableStep == TableInv /\ [ReadersNext]_readerVars => TableInv'
<1> SUFFICES ASSUME TableInv, [ReadersNext]_readerVars PROVE TableInv'
  OBVIOUS
<1>1. CASE TableWritten
  BY <1>1, TableOpened
<1>2. CASE WalkBlock
  BY <1>2, TableWalkBlock
<1>3. CASE WalkRecord
  BY <1>3, TableWalkRecord
<1>4. CASE WalkOn
  BY <1>4, TableWalkOn
<1>5. CASE SeekIndexed
  BY <1>5, TableSeekIndexed
<1>6. CASE SeekLinear
  BY <1>6, TableSeekLinear
<1>7. CASE ScanLeaf
  BY <1>7, TableScanLeaf
<1>8. CASE UNCHANGED tableVars
  BY <1>8, TableStill
<1>9. TableWritten \/ RefTableNext \/ UNCHANGED tableVars
  BY DEF ReadersNext, ReadTable, ReadIndex, ReadVarint, Read, readerVars
<1> QED
  BY <1>1, <1>2, <1>3, <1>4, <1>5, <1>6, <1>7, <1>8, <1>9 DEF RefTableNext

\* Whatever the names, the sizes of blocks, the cuts between them, the restarts
\* and the levels of index, a walk yields the records Git wrote, a lookup finds
\* a name if and only if the table has a record for it that is no deletion, and
\* neither fails but where the footer looks like a ref block (iterAllRefs,
\* IterRefs, FindRef, seekIndexed, descendIndex, seekLinear, decodeKey).
THEOREM TableExactHolds == ReadersSpec => []TableExact
<1>1. ReadersInit => TableInv
  BY TableBegins DEF ReadersInit
<1>2. TableInv /\ [ReadersNext]_readerVars => TableInv'
  BY TableStep
<1>3. TableInv => TableExact
  BY TableAnswers
<1> QED
  BY <1>1, <1>2, <1>3, PTL DEF ReadersSpec
=============================================================================
