------------------------------ MODULE RefTable ------------------------------
(***************************************************************************)
(* Reading one reftable (internal/reftable: reader.go, seek.go, block.go,  *)
(* record_key.go): the walk over all its records, which the stack merges,  *)
(* and the lookup of one name through the index or, without one, block by  *)
(* block.                                                                  *)
(*                                                                         *)
(* Positions count in units, of which a block fills up to BlockSize; the   *)
(* file header belongs to the first block.  Keys are sequences of bytes.   *)
(* The table is one Git has written; damaged blocks are not modelled.      *)
(***************************************************************************)
EXTENDS SortedNumbers

CONSTANTS
    TableKeys,      \* names a table may hold
    Probes,         \* names that are looked up
    BlockSizes,     \* header.blockSize; 0 for a table without alignment
    FooterLen,      \* footerSize
    Intervals,      \* records from one restart to the next
    MaxDepth        \* maxDepth of seekIndexed

ASSUME KeysAssumption ==
    TableKeys \subseteq Seq(Nat) /\ Probes \subseteq Seq(Nat)
ASSUME BlockSizesAssumption == BlockSizes \subseteq Nat
ASSUME FooterLenAssumption == FooterLen \in Nat \ {0}
ASSUME IntervalsAssumption == Intervals \subseteq Nat \ {0}
ASSUME MaxDepthAssumption == MaxDepth \in Nat /\ MaxDepth > 2

VARIABLES
    entries,    \* what Git put in the table, in order
    blocks,     \* the file: ref blocks, then index blocks
    blockSize,
    blockLen,   \* header.blockLen, the same for all blocks
    root,       \* ref_index_position
    footer,     \* the byte found where a footer reaches over a block boundary
    probe,      \* the name asked for
    rpc,
    pos,        \* of the block being read
    cur,        \* the record in it
    prev,       \* keyBuf.prev
    last,       \* seekLinear: lastBytes
    depth,      \* seekIndexed: levels passed
    out         \* the records yielded, or the one found

fileVars == <<entries, blocks, blockSize, blockLen, root, footer, probe>>
tableVars == <<fileVars, rpc, pos, cur, prev, last, depth, out>>

(***************************************************************************)
(* Keys.                                                                   *)
(***************************************************************************)
CommonPrefix(a, b) ==
    CHOOSE n \in 0..Len(a) :
        /\ n <= Len(b) /\ SubSeq(a, 1, n) = SubSeq(b, 1, n)
        /\ n = Len(a) \/ n = Len(b) \/ a[n + 1] # b[n + 1]

\* bytes.Compare(a, b) < 0.
Before(a, b) ==
    LET n == CommonPrefix(a, b)
    IN n < Len(b) /\ IF n = Len(a) THEN TRUE ELSE a[n + 1] < b[n + 1]

\* Mutant: the prefix is taken from the new key's end of the buffer.
DecodeKeyFromSuffix(rec, before) == SubSeq(before, Len(before) - rec.prefix + 1, Len(before)) \o rec.suffix

\* decodeKey, for a record whose prefix the key before it has.
DecodeKey(rec, before) == SubSeq(before, 1, rec.prefix) \o rec.suffix

(***************************************************************************)
(* The writer: entries in order, cut into blocks; the first record of a    *)
(* block and one in every interval is a restart, the others leave out the  *)
(* prefix they share with the key before.  An index block has the last key *)
(* and the position of each block below it.                                *)
(***************************************************************************)
WriteBlock(type, items, interval) ==
    [type |-> type,
     restarts |-> {i \in DOMAIN items : i % interval = 1 % interval},
     recs |-> [i \in DOMAIN items |->
        LET p == IF i % interval = 1 % interval THEN 0
                 ELSE CommonPrefix(items[i].key, items[i - 1].key)
        IN [prefix |-> p, suffix |-> SubSeq(items[i].key, p + 1, Len(items[i].key)),
            value |-> items[i].value]]]

RoundUp(v, m) == IF m = 0 THEN v ELSE ((v + m - 1) \div m) * m

\* seq cut after the positions in cuts.
Cut(seq, cuts) ==
    LET end == Ascending(cuts \cup {Len(seq)})
    IN [i \in DOMAIN end |-> SubSeq(seq, IF i = 1 THEN 1 ELSE end[i - 1] + 1, end[i])]

\* Where the i-th block of a file begins.
Position(stride, i) == (i - 1) * stride

\* The items of one more level of index: the groups have been written as the
\* blocks from the first on.
IndexItems(groups, stride, first) ==
    [g \in DOMAIN groups |->
        [key |-> groups[g][Len(groups[g])].key, value |-> Position(stride, first + g - 1)]]

WriteTable(items, cuts, levels, interval, stride) ==
    LET groups == Cut(items, cuts)
        refs == [g \in DOMAIN groups |-> WriteBlock("r", groups[g], interval)]
        low == IndexItems(groups, stride, 1)
        pairs == Cut(low, {i \in DOMAIN low : i % 2 = 0 /\ i < Len(low)})
        middle == [g \in DOMAIN pairs |-> WriteBlock("i", pairs[g], interval)]
        top == IndexItems(pairs, stride, Len(refs) + 1)
    IN IF levels = 0 THEN refs
       ELSE IF levels = 1 THEN refs \o << WriteBlock("i", low, interval) >>
       ELSE refs \o middle \o << WriteBlock("i", top, interval) >>

SortedEntries(values) ==
    [i \in 1..Cardinality(DOMAIN values) |->
        LET k == CHOOSE k \in DOMAIN values :
                    Cardinality({j \in DOMAIN values : Before(j, k)}) = i - 1
        IN [key |-> k, value |-> values[k]]]

Stride == RoundUp(blockLen, blockSize)

RefTableInit ==
    /\ entries = <<>> /\ blocks = <<>> /\ blockSize = 0 /\ blockLen = 1 /\ root = 0
    /\ footer = "x" /\ probe = <<>>
    /\ rpc = "none" /\ pos = 0 /\ cur = 1 /\ prev = <<>> /\ last = 0 /\ depth = 0 /\ out = <<>>

\* Git writes a table, and the reader opens it for a walk or a lookup.
TableWritten ==
    /\ rpc = "none"
    /\ \E keys \in SUBSET TableKeys :
          /\ IsFiniteSet(keys)
          /\ \E values \in [keys -> {"value", "deletion"}] : entries' = SortedEntries(values)
    /\ blockSize' \in BlockSizes
    /\ blockLen' \in 1..(IF blockSize' = 0 THEN 1 ELSE blockSize')
    /\ footer' \in {"r", "x"}
    /\ \E levels \in 0..2, interval \in Intervals :
          IF entries' = <<>> THEN blocks' = <<>> /\ root' = 0
          ELSE \E cuts \in SUBSET (1..Len(entries') - 1) :
                  /\ blocks' = WriteTable(entries', cuts, levels, interval, Stride')
                  /\ root' = IF levels = 0 THEN 0 ELSE Position(Stride', Len(blocks'))
    /\ \/ rpc' = "walk" /\ pos' = 0 /\ UNCHANGED probe
       \/ rpc' = "seek" /\ pos' = root' /\ probe' \in Probes
    /\ UNCHANGED <<cur, prev, last, depth, out>>

(***************************************************************************)
(* Reading a block.  The last one is not padded: the footer begins where   *)
(* it ends.                                                                *)
(***************************************************************************)
FooterAt == IF blocks = <<>> THEN blockLen ELSE Position(Stride, Len(blocks)) + blockLen
FileLen == FooterAt + FooterLen

BlockAt(p) == CHOOSE i \in DOMAIN blocks : Position(Stride, i) = p

\* The byte that tells a block's type; an empty table has its footer behind
\* the header.
TypeAt(p) ==
    IF blocks = <<>> \/ p = FooterAt THEN "R"
    ELSE IF p > FooterAt THEN footer
    ELSE blocks[BlockAt(p)].type

Record(i) == blocks[BlockAt(pos)].recs[i]

NextBlock(p) == RoundUp(p + blockLen, blockSize)

Goto(state) == rpc' = state /\ UNCHANGED <<fileVars, last, depth>>

-----------------------------------------------------------------------------
(***************************************************************************)
(* iterAllRefs.                                                            *)
(***************************************************************************)
WalkBlock ==
    /\ rpc = "walk"
    /\ \/ pos >= FileLen /\ Goto("walked")
       \/ pos < FileLen /\ TypeAt(pos) # "r" /\ Goto("walked")
       \/ pos < FileLen /\ TypeAt(pos) = "r" /\ pos > FooterAt /\ Goto("failed")
       \/ pos < FooterAt /\ TypeAt(pos) = "r" /\ Goto("records")
    /\ cur' = 1
    /\ UNCHANGED <<pos, prev, out>>

WalkRecord ==
    /\ rpc = "records" /\ cur \in DOMAIN blocks[BlockAt(pos)].recs
    /\ LET key == DecodeKey(Record(cur), prev) IN
       /\ out' = Append(out, [key |-> key, value |-> Record(cur).value])
       /\ prev' = key
    /\ cur' = cur + 1
    /\ UNCHANGED <<fileVars, rpc, pos, last, depth>>

WalkOn ==
    /\ rpc = "records" /\ cur \notin DOMAIN blocks[BlockAt(pos)].recs
    /\ pos' = NextBlock(pos)
    /\ Goto("walk")
    /\ UNCHANGED <<cur, prev, out>>

\* The walk's records as a caller sees them: deletions are elided.
IterRefs == ItemsAt(out, {i \in DOMAIN out : out[i].value # "deletion"})

-----------------------------------------------------------------------------
(***************************************************************************)
(* FindRef: seekToLeaf, then the records of the leaf.                      *)
(***************************************************************************)
\* seekRestart: the last restart whose key is not past the name, or the
\* first record.
ScanFrom(block) ==
    LET upTo == {i \in block.restarts : ~Before(probe, block.recs[i].suffix)}
    IN IF upTo = {} THEN 1 ELSE CHOOSE i \in upTo : \A j \in upTo : j <= i

\* The keys of a block's records from a restart on.
KeysFrom(block, start) ==
    LET key[i \in start..Len(block.recs)] ==
            DecodeKey(block.recs[i], IF i = start THEN <<>> ELSE key[i - 1])
    IN key

\* descendIndex: the first record at or past the name, or the last one.
DescendIndex(block) ==
    LET keys == KeysFrom(block, ScanFrom(block))
        found == {i \in DOMAIN keys : ~Before(keys[i], probe)}
    IN block.recs[IF found = {} THEN Len(block.recs)
                  ELSE CHOOSE i \in found : \A j \in found : i <= j].value

SeekIndexed ==
    /\ rpc = "seek" /\ root # 0
    /\ \/ depth = MaxDepth /\ rpc' = "failed" /\ UNCHANGED <<pos, depth>>
       \/ /\ depth < MaxDepth /\ TypeAt(pos) = "r"
          /\ rpc' = "leaf" /\ UNCHANGED <<pos, depth>>
       \/ /\ depth < MaxDepth /\ TypeAt(pos) = "i"
          /\ LET next == DescendIndex(blocks[BlockAt(pos)]) IN
             /\ rpc' = IF next = pos THEN "failed" ELSE "seek"
             /\ pos' = next
          /\ depth' = depth + 1
    /\ UNCHANGED <<fileVars, cur, prev, last, out>>

\* seekLinear: the last ref block whose first key is not past the name; a table
\* without ref blocks is an error.
SeekLinear ==
    /\ rpc = "seek" /\ root = 0
    /\ \/ /\ pos >= FileLen \/ TypeAt(pos) # "r"
          /\ rpc' = IF pos = 0 THEN "no ref blocks" ELSE "leaf"
          /\ pos' = last /\ UNCHANGED last
       \/ /\ pos < FileLen /\ TypeAt(pos) = "r" /\ pos > FooterAt
          /\ rpc' = "failed" /\ UNCHANGED <<pos, last>>
       \/ /\ pos < FooterAt /\ TypeAt(pos) = "r"
          /\ IF pos > 0 /\ Before(probe, Record(1).suffix)
             THEN rpc' = "leaf" /\ pos' = last /\ UNCHANGED last
             ELSE pos' = NextBlock(pos) /\ last' = pos /\ UNCHANGED rpc
    /\ UNCHANGED <<fileVars, cur, prev, depth, out>>

Answer(found) == rpc' = "found" /\ out' = found

ScanLeaf ==
    /\ rpc = "leaf"
    /\ IF cur \in DOMAIN blocks[BlockAt(pos)].recs
       THEN LET key == DecodeKey(Record(cur), prev) IN
            \/ /\ key = probe
               /\ Answer(IF Record(cur).value = "deletion" THEN <<>> ELSE << key >>)
               /\ UNCHANGED <<cur, prev>>
            \/ Before(probe, key) /\ Answer(<<>>) /\ UNCHANGED <<cur, prev>>
            \/ /\ Before(key, probe)
               /\ cur' = cur + 1 /\ prev' = key
               /\ UNCHANGED <<rpc, out>>
       ELSE Answer(<<>>) /\ UNCHANGED <<cur, prev>>
    /\ UNCHANGED <<fileVars, pos, last, depth>>

RefTableNext == WalkBlock \/ WalkRecord \/ WalkOn \/ SeekIndexed \/ SeekLinear \/ ScanLeaf

RefTableDone == rpc \in {"walked", "found", "failed", "no ref blocks"}

-----------------------------------------------------------------------------
\* A footer that reaches over a block boundary with the byte of a ref block
\* there.
FooterMisread == footer = "r" /\ blockSize > 0 /\ RoundUp(FooterAt, blockSize) \in FooterAt + 1..FileLen - 1

\* The walk yields exactly the records Git wrote, in order and under their
\* whole names, over any cut into blocks and any spacing of the restarts, to the
\* stack with the deletions and to other callers without, and fails for no table
\* whose footer it does not run into (iterAllRefs, IterRefs, decodeKey).  A
\* lookup finds a name if and only if the table has a record for it that is no
\* deletion, whether it goes through one level of index, two, or none, and fails
\* besides only for a table that has no records at all (FindRef, seekIndexed,
\* descendIndex, seekLinear).
TableExact ==
    /\ rpc = "walked" =>
        /\ out = entries
        /\ IterRefs = ItemsAt(entries, {i \in DOMAIN entries : entries[i].value = "value"})
    /\ rpc = "failed" => FooterMisread
    /\ rpc = "no ref blocks" => entries = <<>>
    /\ rpc = "found" =>
        out = IF \E i \in DOMAIN entries : entries[i].key = probe /\ entries[i].value = "value"
              THEN << probe >> ELSE <<>>

=============================================================================
