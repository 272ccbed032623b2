---------------------------- MODULE ObjectStore ----------------------------
(***************************************************************************)
(* The object store of a local repository (internal/objstore): opening it  *)
(* with the alternates it borrows objects from, ObjectInfo from several    *)
(* goroutines, and Close.                                                  *)
(*                                                                         *)
(* A repository is named by its common directory.  An alternates file      *)
(* lists paths; resolveGitDir leads from a path to a repository or fails.  *)
(* One repository may be opened several times, through different chains of *)
(* alternates: every opening is a Store of its own, numbered in the order  *)
(* of the openings.  A pack is named by a number, in the lexical order of  *)
(* the file names, and a position in a pack by the object stored there.    *)
(* An object's size is identified with the object.                         *)
(***************************************************************************)
EXTENDS Integers, Sequences, FiniteSets, SequencesExt

CONSTANTS
    Repos,          \* common directories
    Root,           \* the one Open is called on
    Paths,          \* what alternates files may list
    Common,         \* resolveGitDir: the repository a path leads to, or None
    Oids,           \* objects
    TypeOf,         \* their types
    None,
    Wrong,          \* a type read from damaged bytes
    Disks,          \* what may be on disk
    VerifyCRC,      \* FALSE under WithoutCRCCheck
    MaxChainDepth,  \* maxChainDepth
    Callers,        \* goroutines that call ObjectInfo
    MaxFaults,      \* bound: reads that fail while the store is being opened
    MaxCalls        \* bound: calls of ObjectInfo

ASSUME ReposAssumption == Root \in Repos /\ Repos \subseteq Paths /\ IsFiniteSet(Repos)
ASSUME CommonAssumption ==
    Common \in [Paths -> Repos \cup {None}] /\ \A r \in Repos : Common[r] = r
ASSUME ObjectsAssumption == None \notin Oids \cup Repos /\ Wrong \notin {TypeOf[o] : o \in Oids}
ASSUME VerifyCRCAssumption == VerifyCRC \in BOOLEAN
ASSUME StoreBoundsAssumption == {MaxChainDepth, MaxFaults, MaxCalls} \subseteq Nat

(***************************************************************************)
(* A pack entry is a whole object, a delta against another position of the *)
(* pack, a delta against an object by its id, or bytes that do not parse.  *)
(***************************************************************************)
Entries == [kind : {"whole", "ofs", "ref", "bad"}, base : Oids \cup {None}]

PackFiles == [mtime : Nat, crcs : BOOLEAN, objects : [Oids -> Entries \cup {None}]]

\* The packs of a repository are numbered from 1.
ASSUME DisksAssumption == \A d \in Disks :
    /\ d.alternates \in [Repos -> Seq(Paths)]
    /\ d.loose \in [Repos -> [Oids -> {"absent", "present", "bad"}]]
    /\ d.packs \in [Repos -> Seq(PackFiles)]
    /\ d.midx \in [Repos -> SUBSET Nat]
    /\ d.rot \subseteq Repos \X Nat \X Oids

\* An offset leads to an entry of the pack; a delta is of its base's type.
ASSUME DeltasAssumption == \A d \in Disks : \A r \in Repos : \A p \in DOMAIN d.packs[r] : \A o \in Oids :
    LET objects == d.packs[r][p].objects
    IN objects[o] # None /\ objects[o].kind \in {"ofs", "ref"} =>
          /\ objects[o].base \in Oids
          /\ objects[o].kind = "ofs" => objects[objects[o].base] # None
          /\ TypeOf[objects[o].base] = TypeOf[o]

VARIABLES
    disk,       \* alternates, loose, packs, midx and rot of each repository
    \* the opening
    opc,        \* "opening", "open", "failed" or "closed"
    stack,      \* the openWithSeen calls in progress, innermost last
    chain,      \* seen: the repositories marked on the current chain
    stores,     \* the stores that have been opened, by number
    unwinding,  \* whether an error is being returned
    faults,     \* reads that have failed
    held,       \* handles that are open: <<store, kind, pack>>
    \* the calls
    call,       \* each caller's ObjectInfo call
    cache,      \* refDeltaCache of each store
    calls       \* how many calls have been made

openingVars == <<disk, opc, stack, chain, stores, unwinding, faults, held>>
callVars == <<call, cache, calls>>
objVars == <<openingVars, callVars>>

NumStores == Cardinality(DOMAIN stores) + Len(stack)

Frame(n, path, verify) ==
    [num |-> n, path |-> path, verify |-> verify, pc |-> "config", repo |-> None,
     packs |-> {}, entries |-> <<>>, alternates |-> <<>>]

Idle == [pc |-> "idle", oid |-> None, todo |-> <<>>, pack |-> 0, at |-> None,
         base |-> None, hops |-> 0, size |-> None, answer |-> None]

ObjInit ==
    /\ disk \in Disks
    /\ opc = "opening"
    /\ stack = <<Frame(1, Root, VerifyCRC)>>
    /\ chain = {}
    /\ stores = <<>>
    /\ unwinding = FALSE
    /\ faults = 0
    /\ held = {}
    /\ call = [c \in Callers |-> Idle]
    /\ cache = <<>>
    /\ calls = 0

-----------------------------------------------------------------------------
(***************************************************************************)
(* Open.                                                                   *)
(***************************************************************************)
Top == stack[Len(stack)]
SetTop(f) == [stack EXCEPT ![Len(stack)] = f]

\* What can be reached from roots over next.
Closure(roots, next) ==
    LET grown[n \in 0..Cardinality(DOMAIN next)] ==
            IF n = 0 THEN roots ELSE grown[n - 1] \cup UNION {next[i] : i \in grown[n - 1]}
    IN grown[Cardinality(DOMAIN next)]

\* Stores and the alternates below them.
Tree(roots) == Closure(roots, [i \in DOMAIN stores |-> ToSet(stores[i].alternates)])

\* Mutant: closeAll of openAlternates is forgotten.
OwnHandlesOnly(f) == {h \in held : h[1] = f.num}

\* closeAll of openAlternates and then of openWithSeen; a pack backend that
\* fails half way has closed what it opened.
FrameHandles(f) == {h \in held : h[1] \in {f.num} \cup Tree(ToSet(f.alternates))}

\* The error of the innermost call is returned through every call around it.
Fails == unwinding' = TRUE /\ UNCHANGED <<opc, stack, chain, stores, held>>

Opening == opc = "opening" /\ ~unwinding

\* Mutant: the repository stays marked.
StaysMarked(f) == chain

\* The deferred delete: only a call that got as far as its alternates has
\* marked its repository.
Unmarked(f) == IF f.pc = "alternates" THEN chain \ {f.repo} ELSE chain

\* resolveGitDir: the common directory, by way of .git and commondir.
resolveGitDir(path) == Common[path]

\* openWithSeen up to its first backend.
ReadConfig ==
    /\ Opening /\ Top.pc = "config"
    /\ IF resolveGitDir(Top.path) = None THEN Fails
       ELSE /\ stack' = SetTop([Top EXCEPT !.pc = "refs", !.repo = resolveGitDir(Top.path)])
            /\ UNCHANGED <<opc, chain, stores, unwinding, held>>
    /\ UNCHANGED <<disk, faults, callVars>>

\* readGitConfig and checkHashTypeMatchesAlgo: the config cannot be read, or
\* asks for another hash or an unknown format.
ConfigFails ==
    /\ Opening /\ Top.pc = "config" /\ faults < MaxFaults
    /\ faults' = faults + 1
    /\ Fails
    /\ UNCHANGED <<disk, callVars>>

\* openPackBackend: a multi-pack-index is opened before the packs.
MidxHandle(n, r) == IF disk.midx[r] = {} THEN {} ELSE {<<n, "midx", 0>>}

\* openRefBackend, openLoose (which opens nothing) and openPackBackend.
OpenBackends ==
    /\ Opening /\ Top.pc = "refs"
    /\ stack' = SetTop([Top EXCEPT !.pc = "packs", !.packs = DOMAIN disk.packs[Top.repo]])
    /\ held' = held \cup {<<Top.num, "refs", 0>>} \cup MidxHandle(Top.num, Top.repo)
    /\ UNCHANGED <<disk, opc, chain, stores, unwinding, faults, callVars>>

\* The loop over the .idx files of openIdxCatalog and openMidxBackend.
OpenPackFile ==
    /\ Opening /\ Top.pc = "packs"
    /\ \E p \in Top.packs :
          /\ \A q \in Top.packs : p <= q
          /\ held' = held \cup {<<Top.num, "idx", p>>, <<Top.num, "pack", p>>}
          /\ stack' = SetTop([Top EXCEPT !.packs = @ \ {p}])
    /\ UNCHANGED <<disk, opc, chain, stores, unwinding, faults, callVars>>

\* The refs, a directory, an index, a pack or the alternates file cannot be
\* read; a pack backend closes what it has opened, which FrameHandles includes.
BackendFails ==
    /\ Opening /\ Top.pc \in {"refs", "packs"} /\ faults < MaxFaults
    /\ faults' = faults + 1
    /\ Fails
    /\ UNCHANGED <<disk, callVars>>

\* openMidxBackend: every pack the multi-pack-index covers must be there.
MidxComplete(r) == disk.midx[r] \subseteq DOMAIN disk.packs[r]

\* parseAlternates: the paths listed, in order, without comments and blanks.
Listed(r) == disk.alternates[r]

\* Every pack is open: the repository is marked and its alternates file read.
ReadAlternates ==
    /\ Opening /\ Top.pc = "packs" /\ Top.packs = {}
    /\ IF MidxComplete(Top.repo)
       THEN /\ stack' = SetTop([Top EXCEPT !.pc = "alternates", !.entries = Listed(Top.repo)])
            /\ chain' = chain \cup {Top.repo}
            /\ UNCHANGED <<opc, stores, unwinding, held>>
       ELSE Fails
    /\ UNCHANGED <<disk, faults, callVars>>

\* One turn of openAlternates' loop; no option is handed on, so an alternate
\* always verifies checksums.
OpenAlternate ==
    /\ Opening /\ Top.pc = "alternates" /\ Top.entries # <<>>
    /\ IF Head(Top.entries) \in chain THEN Fails
       ELSE /\ stack' = Append(SetTop([Top EXCEPT !.entries = Tail(@)]),
                               Frame(NumStores + 1, Head(Top.entries), TRUE))
            /\ UNCHANGED <<opc, chain, stores, unwinding, held>>
    /\ UNCHANGED <<disk, faults, callVars>>

\* openWithSeen returns the store, to Open's caller or to openAlternates.
OpenReturns ==
    /\ Opening /\ Top.pc = "alternates" /\ Top.entries = <<>>
    /\ LET done == [repo |-> Top.repo, verify |-> Top.verify, alternates |-> Top.alternates]
           rest == Front(stack)
       IN /\ stores' = [i \in DOMAIN stores \cup {Top.num} |->
                           IF i = Top.num THEN done ELSE stores[i]]
          /\ cache' = [i \in DOMAIN stores \cup {Top.num} |->
                           IF i = Top.num THEN [o \in Oids |-> None] ELSE cache[i]]
          /\ IF rest = <<>> THEN opc' = "open" /\ stack' = <<>>
             ELSE /\ stack' = [rest EXCEPT ![Len(rest)].alternates = Append(@, Top.num)]
                  /\ opc' = opc
    /\ chain' = Unmarked(Top)
    /\ UNCHANGED <<disk, unwinding, faults, held, call, calls>>

\* An error return.
OpenUnwinds ==
    /\ opc = "opening" /\ unwinding
    /\ held' = held \ FrameHandles(Top)
    /\ chain' = Unmarked(Top)
    /\ stack' = Front(stack)
    /\ opc' = IF Len(stack) = 1 THEN "failed" ELSE opc
    /\ UNCHANGED <<disk, stores, unwinding, faults, callVars>>

OpenStep ==
    \/ ReadConfig \/ OpenBackends \/ OpenPackFile \/ ReadAlternates
    \/ OpenAlternate \/ OpenReturns \/ ConfigFails \/ BackendFails \/ OpenUnwinds

-----------------------------------------------------------------------------
(***************************************************************************)
(* ObjectInfo.  call[c].todo lists the stores still to be asked, the one   *)
(* being asked first: the recursion over the alternates, flattened.        *)
(***************************************************************************)
Repo(i) == stores[i].repo
Asked(c) == Head(call[c].todo)
In(c, pc) == call[c].pc = pc

Goto(c, rec) == call' = [call EXCEPT ![c] = rec]
Answer(c, a) == Goto(c, [Idle EXCEPT !.oid = call[c].oid, !.answer = a])

Ok(type, size) == [kind |-> "ok", type |-> type, size |-> size]
Corrupt == [kind |-> "corrupt", type |-> None, size |-> None]
Missing == [kind |-> "missing", type |-> None, size |-> None]

\* The packs of a repository that hold an object.
Holding(r, o) == {p \in DOMAIN disk.packs[r] : disk.packs[r][p].objects[o] # None}

\* The order of the catalogue: newest first, then by name.
Precedes(r, p, q) ==
    \/ disk.packs[r][p].mtime > disk.packs[r][q].mtime
    \/ disk.packs[r][p].mtime = disk.packs[r][q].mtime /\ p <= q

FirstOf(r, ps) == CHOOSE p \in ps : \A q \in ps : Precedes(r, p, q)

\* packBackend.Lookup: what the multi-pack-index covers, then the other packs
\* in order; 0 when no pack has the object.  Git records one copy of each
\* object in the multi-pack-index, the one in the newest pack.
Lookup(r, o) ==
    LET covered == Holding(r, o) \cap disk.midx[r]
        others == Holding(r, o) \ disk.midx[r]
    IN IF covered # {} THEN FirstOf(r, covered)
       ELSE IF others # {} THEN FirstOf(r, others)
       ELSE 0

Ask(c, o) ==
    /\ opc = "open" /\ In(c, "idle") /\ calls < MaxCalls
    /\ calls' = calls + 1
    /\ Goto(c, [Idle EXCEPT !.pc = "loose", !.oid = o, !.todo = <<1>>])
    /\ UNCHANGED <<openingVars, cache>>

\* looseObjects.Find.
FindLoose(c) ==
    /\ In(c, "loose")
    /\ LET o == call[c].oid
           file == disk.loose[Repo(Asked(c))][o]
       IN \/ file = "bad" /\ Answer(c, Corrupt)
          \/ file = "present" /\ Answer(c, Ok(TypeOf[o], o))
          \/ file = "absent" /\ Goto(c, [call[c] EXCEPT !.pc = "packs"])
    /\ UNCHANGED <<openingVars, cache, calls>>

\* Mutant: a miss ends the search.
NextStoreNone(c) == Answer(c, Missing)

\* A miss in this store: its own alternates come next, then the stores that
\* were still to be asked.
NextStore(c) ==
    LET todo == stores[Asked(c)].alternates \o Tail(call[c].todo)
    IN IF todo = <<>> THEN Answer(c, Missing)
       ELSE Goto(c, [call[c] EXCEPT !.pc = "loose", !.todo = todo])

Rotten(r, p, o) == <<r, p, o>> \in disk.rot

\* verifyPackCRC: skipped for an index without checksums.
CRCMismatch(i, p, o) ==
    stores[i].verify /\ disk.packs[Repo(i)][p].crcs /\ Rotten(Repo(i), p, o)

\* packBackend.Lookup, and verifyPackCRC for the entry found.
FindPacked(c) ==
    /\ In(c, "packs")
    /\ LET o == call[c].oid
           p == Lookup(Repo(Asked(c)), o)
       IN \/ p = 0 /\ NextStore(c)
          \/ p # 0 /\ CRCMismatch(Asked(c), p, o) /\ Answer(c, Corrupt)
          \/ /\ p # 0 /\ ~CRCMismatch(Asked(c), p, o)
             /\ Goto(c, [call[c] EXCEPT !.pc = "walk", !.pack = p, !.at = o])
    /\ UNCHANGED <<openingVars, cache, calls>>

\* targetSize: what the first header says.
SizeSeen(c) == IF call[c].size = None THEN call[c].at ELSE call[c].size


TooDeep(c) == call[c].hops = MaxChainDepth

\* One turn of walkPackChain's loop.
WalkChain(c) ==
    /\ In(c, "walk")
    /\ LET r == Repo(Asked(c))
           e == disk.packs[r][call[c].pack].objects[call[c].at]
           read == [call[c] EXCEPT !.size = SizeSeen(c), !.hops = @ + 1]
           damaged == Rotten(r, call[c].pack, call[c].at)
       IN \/ TooDeep(c) /\ Answer(c, Corrupt)
          \/ ~TooDeep(c) /\ e.kind = "bad" /\ Answer(c, Corrupt)
          \/ /\ ~TooDeep(c) /\ e.kind = "whole"
             /\ Answer(c, Ok(IF damaged THEN Wrong ELSE TypeOf[call[c].at], SizeSeen(c)))
          \/ ~TooDeep(c) /\ e.kind = "ofs" /\ Goto(c, [read EXCEPT !.at = e.base])
          \/ ~TooDeep(c) /\ e.kind = "ref" /\ Goto(c, [read EXCEPT !.pc = "cached", !.base = e.base])
    /\ UNCHANGED <<openingVars, cache, calls>>

\* Mutant: a base that was not found is looked for again.
GoToBaseOrRetry(c, p) ==
    IF p = 0 THEN Goto(c, [call[c] EXCEPT !.pc = "cached"])
    ELSE Goto(c, [call[c] EXCEPT !.pc = "walk", !.pack = p, !.at = call[c].base, !.base = None])

\* What a REF_DELTA's base lookup found is where the walk goes on.
GoToBase(c, p) ==
    IF p = 0 THEN Answer(c, Corrupt)
    ELSE Goto(c, [call[c] EXCEPT !.pc = "walk", !.pack = p, !.at = call[c].base, !.base = None])

\* lookupRefDeltaBase under the first lock.
LookupCached(c) ==
    /\ In(c, "cached")
    /\ LET p == cache[Asked(c)][call[c].base]
       IN \/ p # None /\ GoToBase(c, p)
          \/ p = None /\ Goto(c, [call[c] EXCEPT !.pc = "scan"])
    /\ UNCHANGED <<openingVars, cache, calls>>

\* Mutant: every result is remembered as a miss.
RememberMiss(c, p) == [cache EXCEPT ![Asked(c)][call[c].base] = 0]

\* refDeltaCache[base] = ...
Remember(c, p) == [cache EXCEPT ![Asked(c)][call[c].base] = p]

\* The lookup without the lock, and the second lock.
LookupBase(c) ==
    /\ In(c, "scan")
    /\ LET p == Lookup(Repo(Asked(c)), call[c].base)
       IN cache' = Remember(c, p) /\ GoToBase(c, p)
    /\ UNCHANGED <<openingVars, calls>>

CallStep(c) ==
    FindLoose(c) \/ FindPacked(c) \/ WalkChain(c) \/ LookupCached(c) \/ LookupBase(c)

\* What Store.Close closes: its backends, and those of its alternates.
ClosedBy == {h \in held : h[1] \in Tree({1})}

\* Close, once no call is in progress.
Close ==
    /\ opc = "open" /\ \A c \in Callers : In(c, "idle")
    /\ opc' = "closed"
    /\ held' = held \ ClosedBy
    /\ UNCHANGED <<disk, stack, chain, stores, unwinding, faults, callVars>>

\* Everything has been done.
Finished == opc \in {"failed", "closed"} /\ UNCHANGED objVars

ObjNext ==
    \/ OpenStep
    \/ \E c \in Callers : CallStep(c) \/ \E o \in Oids : Ask(c, o)
    \/ Close
    \/ Finished

ObjSpec ==
    /\ ObjInit /\ [][ObjNext]_objVars
    /\ WF_objVars(OpenStep)
    /\ \A c \in Callers : WF_objVars(CallStep(c))

-----------------------------------------------------------------------------
(***************************************************************************)
(* What the opening must achieve.                                          *)
(***************************************************************************)
Borrowed(rs) == {Common[p] : p \in UNION {ToSet(disk.alternates[r]) : r \in rs}}

\* The repositories that can be reached over alternates.
ReachableFrom(rs) == Closure(rs, [r \in Repos |-> Borrowed({r}) \ {None}])

Reachable == ReachableFrom({Root})

Cyclic == \E r \in Reachable : r \in ReachableFrom(Borrowed({r}) \ {None})

Sound ==
    /\ None \notin Borrowed(Reachable)
    /\ \A r \in Reachable : MidxComplete(r)

\* Open succeeds exactly when every repository reachable over alternates can
\* be read and none is reachable from itself: a repository that is borrowed
\* twice is no cycle (alternates.go:87-100, store.go:168-179).
OpenExact ==
    /\ opc \in {"open", "closed"} => Sound /\ ~Cyclic /\ faults = 0
    /\ opc = "failed" => ~Sound \/ Cyclic \/ faults > 0

\* No repository is opened again while it is being opened: the cycle check
\* ends every descent (alternates.go:22-30, store.go:172-176).
NoReentry ==
    \A i, j \in DOMAIN stack : i # j /\ stack[i].repo # None => stack[i].repo # stack[j].repo

NeededBy(i) ==
    {<<i, "refs", 0>>} \cup {<<i, k, p>> : k \in {"idx", "pack"}, p \in DOMAIN disk.packs[Repo(i)]}
        \cup MidxHandle(i, Repo(i))

\* An open store has every handle of its tree open and no other; a failed Open
\* and a Close leave none behind (store.go:140-147 and 231-262, alternates.go:45-48).
HandlesAccounted ==
    /\ opc = "open" => held = UNION {NeededBy(i) : i \in Tree({1})}
    /\ opc \in {"failed", "closed"} => held = {}

(***************************************************************************)
(* What ObjectInfo must answer.                                            *)
(***************************************************************************)
Answered(c) == call[c].answer # None

Present(r, o) == disk.loose[r][o] # "absent" \/ Holding(r, o) # {}

\* ErrNotExist is the answer exactly for the objects no reachable repository
\* has, whatever was asked before and whoever asks (object_info.go:120-137).
MissingExact ==
    \A c \in Callers : Answered(c) =>
        (call[c].answer = Missing <=> \A r \in Reachable : ~Present(r, call[c].oid))

\* No damaged entry is the base of a delta, where no checksum would be looked at.
DamageAtHeads ==
    \A d \in disk.rot : \A s \in Repos : \A q \in DOMAIN disk.packs[s] : \A x \in Oids :
        disk.packs[s][q].objects[x] # None => disk.packs[s][q].objects[x].base # d[3]

Checked == \A r \in Repos : \A p \in DOMAIN disk.packs[r] : disk.packs[r][p].crcs

\* The positions that lead from an entry to a whole object: d more headers at
\* most, every base in a pack of the same repository.
Resolves(r) ==
    LET good[d \in 0..MaxChainDepth] ==
            IF d = 0 THEN {}
            ELSE {at \in (DOMAIN disk.packs[r]) \X Oids :
                    LET e == disk.packs[r][at[1]].objects[at[2]]
                    IN /\ e # None
                       /\ \/ e.kind = "whole"
                          \/ e.kind = "ofs" /\ <<at[1], e.base>> \in good[d - 1]
                          \/ e.kind = "ref" /\ <<Lookup(r, e.base), e.base>> \in good[d - 1]}
    IN good[MaxChainDepth]

Healthy(r) ==
    /\ \A o \in Oids : disk.loose[r][o] # "bad"
    /\ \A p \in DOMAIN disk.packs[r] : \A o \in Oids :
          disk.packs[r][p].objects[o] # None => <<p, o>> \in Resolves(r) /\ ~Rotten(r, p, o)

\* An answer gives the type of the object and its own size, not that of the
\* delta or of the base it is stored against (object_info.go:174-192); and in
\* repositories without damage no object is reported as corrupt, up to a chain
\* of exactly maxChainDepth entries and with any state of the cache
\* (object_info.go:157-252).
AnswersTrue ==
    \A c \in Callers : Answered(c) =>
        /\ call[c].answer.kind = "ok" =>
              \/ call[c].answer = Ok(TypeOf[call[c].oid], call[c].oid)
              \/ ~(VerifyCRC /\ Checked /\ DamageAtHeads)
        /\ call[c].answer = Corrupt => \E r \in Reachable : ~Healthy(r)

\* Open returns, and so does every call of ObjectInfo: deltas against each
\* other do not send the walk round for ever (object_info.go:33-37).
CallsEnd ==
    /\ <>(opc # "opening")
    /\ \A c \in Callers : ~In(c, "idle") ~> In(c, "idle")
=============================================================================
