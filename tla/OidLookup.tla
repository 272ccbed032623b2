----------------------------- MODULE OidLookup -----------------------------
(***************************************************************************)
(* Finding an object in a pack index of version 1 or 2 or in a multi-pack  *)
(* index (internal/objfmt: idx.go, idx_v1.go, idx_v2.go, midx.go,          *)
(* midx_find.go), and the extent of its bytes for the CRC check            *)
(* (objstore/object_info.go, verifyPackCRC).                               *)
(*                                                                         *)
(* A file is written from a set of objects, may then be damaged in one     *)
(* field or cut short, and is opened and asked for an id.  Positions and   *)
(* lengths count in units of four bytes, so that the chunks stay aligned;  *)
(* the first byte of an id, which the fan-out goes by, is id \div Span.    *)
(* Magic numbers, versions and the reserved byte are intact.  Checksums    *)
(* are not verified when a file is opened.                                 *)
(***************************************************************************)
EXTENDS SortedNumbers

CONSTANTS
    MaxOid,         \* ids are 0..MaxOid
    Span,           \* ids that share a first byte
    MaxObjects,     \* bound: objects in a file
    Offsets,        \* where objects may lie in a pack
    Direct,         \* 2^31: larger offsets go to the table of large ones
    MaxOffset,      \* 2^63 - 1
    PackEnd,        \* where the trailer of every pack begins
    FieldValues,    \* bound: what a damaged field of up to four bytes holds
    WordValues      \* bound: what a damaged field of eight bytes holds

ASSUME OidsAssumption == MaxOid \in Nat /\ Span \in Nat \ {0} /\ MaxObjects \in Nat
ASSUME OffsetsAssumption ==
    /\ MaxOffset \in Nat /\ Offsets \subseteq 0..MaxOffset /\ Direct \in Nat \ {0}
    /\ PackEnd \in Nat /\ \A o \in Offsets : o < PackEnd

Oids == 0..MaxOid
Prefixes == 0..MaxOid \div Span
Formats == {"v1", "v2", "midx"}
HashUnits == 5

\* The header of a multi-pack index and its table of k chunks and terminator.
TableEnd(k) == 3 + 3 * (k + 1)

ASSUME FieldsAssumption ==
    /\ FieldValues \subseteq Nat /\ WordValues \subseteq 0..2 * MaxOffset + 1
    /\ TableEnd(5) + 2 + Cardinality(Prefixes) + MaxObjects * (HashUnits + 4) <= MaxOffset

Miss == <<>>
Match == << "match" >>
Corrupt == << "corrupt" >>

VARIABLES
    objects,    \* what the file was written from
    index,      \* the file
    damaged,
    ipc,
    count,      \* Idx.count, Midx.count
    want,       \* the id asked for
    lo, hi,
    answer      \* pack and offset, Miss, or the outcome of the CRC check

indexVars == <<objects, index, damaged>>
lookupVars == <<indexVars, ipc, count, want, lo, hi, answer>>

(***************************************************************************)
(* The file.  A raw offset of Direct or more is an index into large.       *)
(***************************************************************************)
Sum(f, n) == LET upTo[i \in 0..n] == IF i = 0 THEN 0 ELSE upTo[i - 1] + f[i] IN upTo[n]

Required == <<"PNAM", "OIDF", "OIDL", "OOFF">>
Chunks(large) == Required \o IF large = <<>> THEN << "zero" >> ELSE << "LOFF", "zero" >>

\* The chunks' lengths, in the order of Chunks.
ChunkLens(n, packs, large) ==
    <<packs, Cardinality(Prefixes), n * HashUnits, n * 2, Len(large) * 2>>

\* Everything before the fan-out, and the trailers.
Ends == [v1 |-> 2 * HashUnits, v2 |-> 2 + 2 * HashUnits, midx |-> HashUnits]

WriteIndex(format, objs, packs, padding) ==
    LET oids == Ascending(DOMAIN objs)
        n == Len(oids)
        offset[i \in 1..n] == objs[oids[i]].offset
        spilled == {i \in 1..n : format # "v1" /\ offset[i] >= Direct}
        slot[i \in 1..n] == Cardinality({j \in spilled : j < i})
        large == [k \in 1..Cardinality(spilled) |-> offset[CHOOSE i \in spilled : slot[i] = k - 1]]
        lens == ChunkLens(n, packs, large)
        ids == IF format = "midx" THEN Chunks(large) ELSE <<>>
    IN [format |-> format,
        fanout |-> [p \in Prefixes |-> Cardinality({o \in DOMAIN objs : o \div Span <= p})],
        oids |-> oids,
        packs |-> [i \in 1..n |-> objs[oids[i]].pack],
        raws |-> [i \in 1..n |-> IF i \in spilled THEN Direct + slot[i] ELSE offset[i]],
        large |-> large,
        crcs |-> oids,
        numPacks |-> packs, names |-> [i \in 1..packs |-> i], padding |-> padding,
        numChunks |-> Len(ids) - 1, ids |-> ids,
        starts |-> [i \in 1..Len(ids) |-> TableEnd(Len(ids) - 1) + Sum(lens, i - 1)],
        size |-> Ends[format]
                    + IF format = "midx" THEN TableEnd(Len(ids) - 1) + Sum(lens, 5)
                      ELSE Cardinality(Prefixes)
                            + IF format = "v1" THEN n * (HashUnits + 1)
                              ELSE n * (HashUnits + 2) + Len(large) * 2]

LookupInit ==
    /\ objects = <<>> /\ index = WriteIndex("v1", <<>>, 1, 0) /\ damaged = FALSE
    /\ ipc = "none" /\ count = 0 /\ want = 0 /\ lo = 0 /\ hi = 0 /\ answer = Miss

IndexWritten ==
    /\ ipc = "none"
    /\ \E set \in {s \in SUBSET Oids : Cardinality(s) <= MaxObjects} :
       \E offset \in {f \in [set -> Offsets] : \A a, b \in set : f[a] = f[b] => a = b},
          format \in Formats, padding \in 0..1 :
          LET packs == IF format = "midx" THEN 2 ELSE 1 IN
          /\ objects' = [o \in set |-> [offset |-> offset[o], pack |-> o % packs]]
          /\ index' = WriteIndex(format, objects', packs, padding)
          /\ format # "midx" => padding = 0
    /\ ipc' = "file"
    /\ UNCHANGED <<damaged, count, want, lo, hi, answer>>

Hurt(field, value) == index' = [index EXCEPT ![field] = value]
HurtAt(field, i, value) == Hurt(field, [index[field] EXCEPT ![i] = value])

ChunkNames == {"PNAM", "OIDF", "OIDL", "OOFF", "LOFF", "other", "zero"}

\* One field of the file is not what was written, or its end is missing.
IndexDamaged ==
    /\ ipc = "file" /\ ~damaged
    /\ damaged' = TRUE
    /\ \/ \E p \in Prefixes, n \in FieldValues : HurtAt("fanout", p, n)
       \/ \E i \in DOMAIN index.oids, o \in Oids : HurtAt("oids", i, o)
       \/ \E i \in DOMAIN index.raws, n \in FieldValues : HurtAt("raws", i, n)
       \/ \E i \in DOMAIN index.large, w \in WordValues : HurtAt("large", i, w)
       \/ \E size \in 0..index.size - 1 : Hurt("size", size)
       \/ /\ index.format = "midx"
          /\ \/ \E i \in DOMAIN index.packs, n \in FieldValues : HurtAt("packs", i, n)
             \/ \E n \in FieldValues : Hurt("numPacks", n) \/ Hurt("numChunks", n)
             \/ \E n \in 0..3 : \E names \in [1..n -> 0..2] : Hurt("names", names)
             \/ \E i \in DOMAIN index.ids, id \in ChunkNames : HurtAt("ids", i, id)
             \/ \E i \in DOMAIN index.starts, w \in WordValues : HurtAt("starts", i, w)
    /\ UNCHANGED <<objects, ipc, count, want, lo, hi, answer>>

-----------------------------------------------------------------------------
(***************************************************************************)
(* OpenIdx and OpenMidx.                                                   *)
(***************************************************************************)
Last(fanout) == fanout[MaxOid \div Span]

\* validateIdxFanout.
Monotonic(fanout) == \A p, q \in Prefixes : p < q => fanout[p] <= fanout[q]

\* What parseHeader's length check counts on.
Need(format, n) ==
    Ends[format] + Cardinality(Prefixes) + n * (HashUnits + IF format = "v1" THEN 1 ELSE 2)

\* Mutant: the tables' length is not checked against the count.
IdxAcceptedUnsized == Monotonic(index.fanout)

\* parseHeader.
IdxAccepted ==
    /\ Monotonic(index.fanout)
    /\ index.size >= Need(index.format, Last(index.fanout))

\* int64(binary.BigEndian.Uint64(...)).
AsInt64(w) == IF w <= MaxOffset THEN w ELSE w - 2 * (MaxOffset + 1)
Start(i) == AsInt64(index.starts[i])

\* parseChunkTable.  The bodies end where the trailer begins.  A chunk may not
\* begin behind its end; nothing is asked of where the first one begins.
ChunkTableAccepted ==
    LET k == index.numChunks
        bodyEnd == index.size - Ends.midx
    IN /\ k < Len(index.ids) /\ index.ids[k + 1] = "zero"
       /\ TableEnd(k) <= bodyEnd
       /\ \A i \in 1..k :
             /\ index.ids[i] # "zero"
             /\ Start(i) <= Start(i + 1) /\ Start(i + 1) <= bodyEnd
             /\ \A j \in 1..k : index.ids[i] = index.ids[j] => i = j
       /\ \A r \in DOMAIN Required : \E i \in 1..k : index.ids[i] = Required[r]

HasChunk(id) == \E i \in 1..index.numChunks : index.ids[i] = id

PlaceOf(id) == CHOOSE i \in 1..index.numChunks : index.ids[i] = id
ChunkStart(id) == Start(PlaceOf(id))
ChunkLen(id) == Start(PlaceOf(id) + 1) - ChunkStart(id)

\* parsePackNames: the padding behind the names reads as an empty one.
PackNamesAccepted(version) ==
    LET found == index.names \o [i \in 1..index.padding |-> 0] IN
    /\ index.numPacks <= Len(found)
    /\ version = 1 => \A i \in 2..index.numPacks : found[i - 1] < found[i]

\* Read from another place, anything can be a name that its chunk has room for.
NamesOutcomes(version) ==
    IF ChunkStart("PNAM") = TableEnd(index.numChunks) THEN {PackNamesAccepted(version)}
    ELSE {FALSE, index.numPacks <= 4 * ChunkLen("PNAM")}

\* parseFanout.
FanoutAccepted ==
    /\ ChunkLen("OIDF") = Cardinality(Prefixes)
    /\ Monotonic(index.fanout)
    /\ ChunkLen("OIDL") = Last(index.fanout) * HashUnits
    /\ ChunkLen("OOFF") = Last(index.fanout) * 2
    /\ \A i \in DOMAIN index.packs : index.packs[i] < index.numPacks

\* validateOIDLookup.
OIDLookupAccepted == \A i \in 2..Len(index.oids) : index.oids[i - 1] < index.oids[i]

\* OpenMidx slices the file at the start of the names.
OpenedMidx ==
    IF ~ChunkTableAccepted THEN {"refused"}
    ELSE IF ChunkStart("PNAM") < 0 THEN {"panicked"}
    ELSE {IF named /\ FanoutAccepted /\ OIDLookupAccepted THEN "open" ELSE "refused" :
             named \in NamesOutcomes(1) \cup NamesOutcomes(2)}

OpenIndex ==
    /\ ipc = "file"
    /\ ipc' \in IF index.format = "midx" THEN OpenedMidx
               ELSE {IF IdxAccepted THEN "open" ELSE "refused"}
    /\ count' = Last(index.fanout)
    /\ UNCHANGED <<indexVars, want, lo, hi, answer>>

-----------------------------------------------------------------------------
(***************************************************************************)
(* FindOffset, FindCRC32 and Find: the fan-out bounds a binary search.     *)
(***************************************************************************)
Bucket(o) ==
    [lo |-> IF o \div Span = 0 THEN 0 ELSE index.fanout[o \div Span - 1],
     hi |-> index.fanout[o \div Span]]

Reply(a) == ipc' = "answered" /\ answer' = a

\* The lookup of an id, for its offset or, in verifyPackCRC, for its CRC.
Ask ==
    /\ ipc = "open"
    /\ want' \in Oids
    /\ lo' = Bucket(want').lo /\ hi' = Bucket(want').hi
    /\ \/ (count = 0 \/ hi' > count) /\ Reply(Miss)
       \/ /\ count > 0 /\ hi' <= count
          /\ ipc' \in {"search"} \cup (IF index.format = "v2" THEN {"crc search"} ELSE {})
          /\ UNCHANGED answer
    /\ UNCHANGED <<indexVars, count>>

Searching == ipc \in {"search", "crc search"}

Mid == lo + (hi - lo) \div 2

\* The id read at a position of the table, which a count that is too large
\* makes run into what follows.
OidsAt(i) == IF i < Len(index.oids) THEN {index.oids[i + 1]} ELSE Oids

SearchStep ==
    /\ Searching /\ lo < hi
    /\ \E got \in OidsAt(Mid) :
       \/ /\ got = want /\ lo' = Mid /\ UNCHANGED hi
          /\ ipc' = IF ipc = "search" THEN "offset" ELSE "crc"
       \/ want < got /\ hi' = Mid /\ UNCHANGED <<ipc, lo>>
       \/ got < want /\ lo' = Mid + 1 /\ UNCHANGED <<ipc, hi>>
    /\ UNCHANGED <<indexVars, count, want, answer>>

SearchEmpty ==
    /\ Searching /\ lo >= hi
    /\ Reply(Miss)
    /\ UNCHANGED <<indexVars, count, want, lo, hi>>

\* In version 2 the tables behind the ids begin where count says they do.
Misplaced == index.format = "v2" /\ count # Len(index.oids)

RawsAt(i) == IF Misplaced THEN FieldValues ELSE {index.raws[i + 1]}

\* Whether the k-th large offset lies in the file, or in its chunk: a pack
\* index is checked against the file's end, which the trailers come before.
LargeFits(k) ==
    IF index.format = "midx" THEN HasChunk("LOFF") /\ k * 2 + 2 <= ChunkLen("LOFF")
    ELSE index.size - (Need("v2", count) - 2 * HashUnits) >= k * 2 + 2

LargesAt(k) ==
    IF ~Misplaced /\ k < Len(index.large) THEN {index.large[k + 1]} ELSE WordValues

Located(off) ==
    IF index.format = "midx" THEN <<index.packs[lo + 1], off>> ELSE <<0, off>>

IsLarge(raw) == index.format # "v1" /\ raw >= Direct

ReadOffset ==
    /\ ipc = "offset"
    /\ \E raw \in RawsAt(lo) :
       \/ ~IsLarge(raw) /\ Reply(Located(raw))
       \/ IsLarge(raw) /\ ~LargeFits(raw - Direct) /\ Reply(Miss)
       \/ /\ IsLarge(raw) /\ LargeFits(raw - Direct)
          /\ \E off \in LargesAt(raw - Direct) :
                Reply(IF off > MaxOffset THEN Miss ELSE Located(off))
    /\ UNCHANGED <<indexVars, count, want, lo, hi>>

-----------------------------------------------------------------------------
(***************************************************************************)
(* verifyPackCRC, for an index that is where it should be: the entry's     *)
(* bytes run to the next offset any entry has.                             *)
(***************************************************************************)
\* The candidates of offsetAfterV2, in the order of the table.
OffsetIn(i) ==
    LET raw == index.raws[i] IN
    IF ~IsLarge(raw) THEN raw
    ELSE IF ~LargeFits(raw - Direct) \/ raw - Direct >= Len(index.large) THEN -1
    ELSE index.large[raw - Direct + 1]

\* Mutant: the entry after this one in the order of ids.
OffsetAfterInTable(off) == IF lo + 1 < count THEN OffsetIn(lo + 2) ELSE -1

\* OffsetAfter, -1 when there is none.
OffsetAfter(off) ==
    LET best[i \in 0..count] ==
            IF i = 0 THEN -1
            ELSE LET c == OffsetIn(i) IN
                 IF c <= MaxOffset /\ c > off /\ (best[i - 1] < 0 \/ c < best[i - 1])
                 THEN c ELSE best[i - 1]
    IN best[count]

\* The CRC recorded for an id is that of the bytes up to the next entry.
VerifyCRC ==
    /\ ipc = "crc" /\ ~Misplaced
    /\ LET at == OffsetIn(lo + 1)
           after == OffsetAfter(at)
           end == IF after < 0 THEN PackEnd ELSE after
           bytes == {e \in {objects[o].offset : o \in DOMAIN objects} \cup {PackEnd} :
                        at < e /\ e < end}
       IN Reply(IF /\ end > at /\ bytes = {}
                   /\ index.crcs[lo + 1] \in DOMAIN objects
                   /\ objects[index.crcs[lo + 1]].offset = at
                THEN Match ELSE Corrupt)
    /\ UNCHANGED <<indexVars, count, want, lo, hi>>

\* Tables at the wrong place give any CRC and any extent.
VerifyCRCMisplaced ==
    /\ ipc = "crc" /\ Misplaced
    /\ \E outcome \in {Match, Corrupt} : Reply(outcome)
    /\ UNCHANGED <<indexVars, count, want, lo, hi>>

LookupNext ==
    IndexDamaged \/ OpenIndex \/ Ask \/ SearchStep \/ SearchEmpty \/ ReadOffset
        \/ VerifyCRC \/ VerifyCRCMisplaced

LookupDone == ipc \in {"answered", "refused", "panicked"}

-----------------------------------------------------------------------------
\* An undamaged file is accepted, and then every object is found at its pack
\* and offset, whatever the bucket it shares, in either kind of offset table,
\* and no other id is found (FindOffset, searchV2, Find, searchOID).  A CRC is
\* taken over exactly the object's bytes, so that a sound pack never fails the
\* check, wherever in the pack and in the index the object is (verifyPackCRC,
\* OffsetAfter).
LookupExact ==
    ~damaged =>
        /\ ipc \notin {"refused", "panicked"} /\ answer # Corrupt
        /\ ipc = "answered" /\ answer # Match =>
              answer = IF want \in DOMAIN objects
                       THEN <<objects[want].pack, objects[want].offset>> ELSE Miss

Inside(at, length) == 0 <= at /\ at + length <= index.size

\* Whichever field is damaged, or wherever the file ends, a lookup in a file
\* that was opened (which may also be refused, or panic) compares ids and takes a record inside the file, and names
\* a pack that the list of names has (parseHeader, parseChunkTable, parseFanout,
\* searchV2, Find).
ReadsInside ==
    /\ Searching /\ lo < hi =>
          IF index.format = "midx" THEN Inside(ChunkStart("OIDL") + Mid * HashUnits, HashUnits)
          ELSE Need(index.format, Mid + 1) <= index.size
    /\ ipc \in {"offset", "crc"} =>
          IF index.format = "midx"
          THEN Inside(ChunkStart("OOFF") + lo * 2, 2) /\ index.packs[lo + 1] < index.numPacks
          ELSE Need(index.format, count) <= index.size /\ lo < count

=============================================================================
