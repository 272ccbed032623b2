------------------------------ MODULE RefStore ------------------------------
(***************************************************************************)
(* Opening the ref store of a local repository (internal/objstore), while  *)
(* Git may be changing it.                                                 *)
(*                                                                         *)
(* The files backend takes three kinds of reads, in this order: the        *)
(* packed-refs file, the directories and files under refs/ one by one, and *)
(* HEAD with the symbolic refs it leads through.  Git writes every file    *)
(* atomically but may do so between any two of these reads.  The reftable  *)
(* backend opens a stack of tables (ReftableStack) and works on its merged *)
(* view.                                                                   *)
(*                                                                         *)
(* Ref names are numbered in their lexical order.  An object id, a ref     *)
(* name or Bad is what a loose ref file (or HEAD, or a record) holds; None *)
(* stands for no file, no entry, and for the zero object id.               *)
(***************************************************************************)
EXTENDS ReftableStack, FiniteSets

CONSTANTS
    Tags,           \* those under refs/tags/
    DirOf,          \* the directory each loose ref file is in, by its rank
    Oids,           \* object ids
    Target,         \* what a tag object points at; None for other objects
    Backends,       \* of {"files", "reftable"}
    Contents,       \* what ref files may hold at first
    PackedOids,     \* what packed-refs may hold at first
    Traits,         \* the headers packed-refs may have
    MaxRefDepth,    \* maxRefDepth
    MaxGit,         \* bound: steps Git takes while the store is being opened
    GitPrunesDirs   \* whether Git removes directories it has emptied

Names == 1..NumRefs
Dirs == {DirOf[n] : n \in Names}

\* packedEntry.
RefEntries == [oid : Oids, peeled : Oids \cup {None}, peelKnown : BOOLEAN, fromPacked : BOOLEAN]

ASSUME TagsAssumption == Tags \subseteq Names
ASSUME DirOfAssumption == DirOf \in [Names -> Nat]
ASSUME DistinctAssumption == {None, Bad, Deleted} \cap (Oids \cup Nat) = {} /\ Oids \cap Nat = {}
ASSUME OidsAssumption == IsFiniteSet(Oids)
ASSUME NoneAssumption == None \notin RefEntries
ASSUME TargetAssumption == Target \in [Oids -> Oids \cup {None}]
ASSUME BackendsAssumption == Backends \subseteq {"files", "reftable"}
ASSUME ContentsAssumption == Contents \subseteq Oids \cup Names \cup {None, Bad}
ASSUME PackedOidsAssumption == PackedOids \subseteq Oids \cup {None}
ASSUME TraitsAssumption == Traits \subseteq {"none", "peeled", "fully-peeled", "malformed"}
ASSUME MaxRefDepthAssumption == MaxRefDepth \in Nat
ASSUME MaxGitAssumption == MaxGit \in Nat
ASSUME GitPrunesDirsAssumption == GitPrunesDirs \in BOOLEAN

VARIABLES
    backend,    \* extensions.refStorage
    packed,     \* packed-refs: the id of each name
    hint,       \* packed-refs: the ^<oid> line of each name
    trait,      \* packed-refs: its header
    loose,      \* the content of each ref file under refs/, or of its record
    dirs,       \* refs/: the directories that exist
    headFile,   \* the content of HEAD, file or record
    snapshot,   \* ghost: what the tables held when their list was read
    touched,    \* the names Git has changed since the opening began
    removed,    \* the directories it has removed since then
    gitSteps

diskVars ==
    <<backend, packed, hint, trait, loose, dirs, headFile, snapshot, touched, removed, gitSteps, tableVars>>

VARIABLES
    opc,        \* where the opening is
    traits,     \* looseRefs.traits
    refs,       \* looseRefs.refs
    todoDirs,   \* directories WalkDir has listed and not entered
    todo,       \* files of the current directory it has listed and not read
    hop,        \* followSymrefChain: current
    seen,       \* followSymrefChain: seen
    head        \* Head

openVars == <<opc, traits, refs, todoDirs, todo, hop, seen, head>>
storeVars == <<diskVars, openVars, stackVars>>

(***************************************************************************)
(* Objects.  PeeledVia(objs) follows tags that are in objs down to the     *)
(* first object that is no tag, at most d of them.                         *)
(***************************************************************************)
PeeledVia(objs, depth) ==
    LET chain[d \in 0..depth] ==
            [o \in Oids |->
                IF d = 0 \/ o \notin objs \/ Target[o] = None THEN None
                ELSE IF Target[Target[o]] = None THEN Target[o]
                ELSE chain[d - 1][Target[o]]]
    IN chain[depth]

\* What a tag really peels to.
TruePeel == PeeledVia(Oids, Cardinality(Oids))

(***************************************************************************)
(* The repository before the opening: any combination of loose files and   *)
(* packed entries Git may leave.  Where the header promises it, every tag  *)
(* has its ^ line; elsewhere it may have one.                              *)
(***************************************************************************)
HintPromised(t, n) == t = "fully-peeled" \/ (t = "peeled" /\ n \in Tags)

PeelOf(o) == IF o = None THEN None ELSE TruePeel[o]

\* The refs as one table.
Records == [k \in Keys |-> IF k = 0 THEN headFile ELSE loose[k]]

StoreInit ==
    /\ backend \in Backends
    /\ loose \in [Names -> Contents]
    /\ headFile \in (Contents \ {None}) \cup Names
    /\ trait \in IF backend = "files" THEN Traits ELSE {"none"}
    /\ packed \in [Names -> IF backend = "files" THEN PackedOids ELSE {None}]
    /\ \E lines \in SUBSET Names :
          /\ \A n \in Names : HintPromised(trait, n) => n \in lines
          /\ hint = [n \in Names |-> IF n \in lines THEN PeelOf(packed[n]) ELSE None]
    /\ dirs = Dirs
    /\ IF backend = "files" THEN tablesList = <<>> /\ files = <<>>
       ELSE /\ tablesList \in {<<1>>} \cup (IF headFile = Bad /\ \A n \in Names : loose[n] = None
                                     THEN {<<>>} ELSE {})
            /\ files = [f \in {1} |-> Records]
    /\ snapshot = None /\ touched = {} /\ removed = {} /\ gitSteps = 0
    /\ StackIdle
    /\ opc = "packed"
    /\ traits = "none"
    /\ refs = [n \in Names |-> None]
    /\ todoDirs = {} /\ todo = {}
    /\ hop = None /\ seen = {} /\ head = None

OpenFails ==
    /\ opc' = "failed"
    /\ UNCHANGED <<traits, refs, todoDirs, todo, hop, seen, head>>

(***************************************************************************)
(* readPackedRefsFile.                                                     *)
(***************************************************************************)
PackedEntry(n) ==
    [oid |-> packed[n], peeled |-> hint[n], peelKnown |-> hint[n] # None, fromPacked |-> TRUE]

ReadPackedRefs ==
    /\ opc = "packed" /\ backend = "files"
    /\ \/ trait = "malformed" /\ OpenFails
       \/ /\ trait # "malformed"
          /\ opc' = "root"
          /\ traits' = trait
          /\ refs' = [n \in Names |-> IF packed[n] = None THEN None ELSE PackedEntry(n)]
          /\ UNCHANGED <<todoDirs, todo, hop, seen, head>>
    /\ UNCHANGED diskVars

(***************************************************************************)
(* walkLooseRefs: WalkDir lists a directory, and only later enters what it *)
(* listed.  A file that has gone by then is an error; a directory that has *)
(* gone ends the whole walk as if it were complete, because its            *)
(* ErrNotExist is taken for a missing refs/.  One that is really missing   *)
(* has no directories, as an empty one.                                    *)
(***************************************************************************)
First(S) == CHOOSE n \in S : \A m \in S : n <= m

ReadRefsDir ==
    /\ opc = "root"
    /\ opc' = "walk"
    /\ todoDirs' = dirs
    /\ UNCHANGED <<traits, refs, todo, hop, seen, head, diskVars>>

EnterDir ==
    /\ opc = "walk" /\ todo = {} /\ todoDirs # {}
    /\ \/ /\ First(todoDirs) \in dirs
          /\ todo' = {n \in Names : DirOf[n] = First(todoDirs) /\ loose[n] # None}
          /\ todoDirs' = todoDirs \ {First(todoDirs)}
          /\ UNCHANGED opc
       \/ /\ First(todoDirs) \notin dirs
          /\ opc' = "head"
          /\ UNCHANGED <<todo, todoDirs>>
    /\ UNCHANGED <<traits, refs, hop, seen, head, diskVars>>

LooseEntry(o) == [oid |-> o, peeled |-> None, peelKnown |-> FALSE, fromPacked |-> FALSE]

\* Mutant: the peel hint of the packed entry survives.
OverrideKeepsHint(n) ==
    [refs EXCEPT ![n] = IF @ = None THEN LooseEntry(loose[n]) ELSE [@ EXCEPT !.oid = loose[n]]]

Override(n) == [refs EXCEPT ![n] = LooseEntry(loose[n])]

ReadLooseRef ==
    /\ opc = "walk" /\ todo # {}
    /\ \E n \in {First(todo)} :
          \/ loose[n] \in {None, Bad} /\ OpenFails
          \/ /\ loose[n] \in Oids \cup Names
             /\ refs' = IF loose[n] \in Oids THEN Override(n) ELSE refs
             /\ todo' = todo \ {n}
             /\ UNCHANGED <<opc, traits, todoDirs, hop, seen, head>>
    /\ UNCHANGED diskVars

WalkEnds ==
    /\ opc = "walk" /\ todo = {} /\ todoDirs = {}
    /\ opc' = "head"
    /\ UNCHANGED <<traits, refs, todoDirs, todo, hop, seen, head, diskVars>>

(***************************************************************************)
(* resolveHead and followSymrefChain, one read per step.                   *)
(***************************************************************************)
HeadIs(symref, oid, unborn) ==
    /\ opc' = "open"
    /\ head' = [symref |-> symref, oid |-> oid, unborn |-> unborn]
    /\ UNCHANGED <<traits, refs, todoDirs, todo, hop, seen>>

ReadHead ==
    /\ opc = "head"
    /\ \/ headFile = Bad /\ OpenFails
       \/ headFile \in Oids /\ HeadIs(None, headFile, FALSE)
       \/ /\ headFile \in Names
          /\ opc' = "hop"
          /\ hop' = headFile
          /\ UNCHANGED <<traits, refs, todoDirs, todo, seen, head>>
    /\ UNCHANGED diskVars

\* Mutant: no limit and no memory of where the chain has been.
NeverTooLong == FALSE

ChainTooLong == hop \in seen \/ Cardinality(seen) = MaxRefDepth

\* Mutant: the branch is read again rather than looked up.
HeadOidOnDisk == IF loose[hop] \in Oids THEN loose[hop] ELSE refs[hop].oid

HeadOid == refs[hop].oid

FollowSymref ==
    /\ opc = "hop"
    /\ \/ ChainTooLong /\ OpenFails
       \/ /\ ~ChainTooLong
          /\ \/ refs[hop] # None /\ HeadIs(hop, HeadOid, FALSE)
             \/ refs[hop] = None /\ loose[hop] = None /\ HeadIs(hop, None, TRUE)
             \/ refs[hop] = None /\ loose[hop] \in Oids \cup {Bad} /\ OpenFails
             \/ /\ refs[hop] = None /\ loose[hop] \in Names
                /\ hop' = loose[hop]
                /\ seen' = seen \cup {hop}
                /\ UNCHANGED <<opc, traits, refs, todoDirs, todo, head>>
    /\ UNCHANGED diskVars

(***************************************************************************)
(* openReftableBackend: OpenStack, then HEAD from the merged view, which   *)
(* is followed over one hop; a record that is itself symbolic has the zero *)
(* id.                                                                     *)
(***************************************************************************)
ReftableEntry(o) == [oid |-> o, peeled |-> PeelOf(o), peelKnown |-> TRUE, fromPacked |-> FALSE]

ReftableHead ==
    IF merged[0] \in Oids THEN [symref |-> None, oid |-> merged[0], unborn |-> FALSE]
    ELSE [symref |-> merged[0],
          oid |-> IF merged[merged[0]] \in Oids THEN merged[merged[0]] ELSE None,
          unborn |-> merged[merged[0]] = None]

OpenReftableStack ==
    /\ opc = "packed" /\ backend = "reftable"
    /\ OpenStackStep
    /\ snapshot' = IF spc = "idle" THEN Records ELSE snapshot
    /\ UNCHANGED <<openVars, backend, packed, hint, trait, loose, dirs, headFile, touched, removed, gitSteps>>

\* A stack that did not open, or one without a HEAD record.
OpenReftableFails ==
    /\ opc = "packed" /\ backend = "reftable"
    /\ \/ spc = "failed" /\ UNCHANGED stackVars
       \/ spc = "open" /\ merged[0] = None /\ CloseStack
    /\ OpenFails
    /\ UNCHANGED diskVars

OpenReftable ==
    /\ opc = "packed" /\ backend = "reftable"
    /\ spc = "open" /\ merged[0] # None
    /\ opc' = "open"
    /\ refs' = [n \in Names |-> IF merged[n] \in Oids THEN ReftableEntry(merged[n]) ELSE None]
    /\ head' = ReftableHead
    /\ UNCHANGED <<traits, todoDirs, todo, hop, seen, diskVars, stackVars>>

OpenFilesStep ==
    \/ ReadPackedRefs \/ ReadRefsDir \/ EnterDir \/ ReadLooseRef \/ WalkEnds
    \/ ReadHead \/ FollowSymref

OpenStep ==
    \/ OpenFilesStep /\ UNCHANGED stackVars
    \/ OpenReftableStack \/ OpenReftableFails \/ OpenReftable

(***************************************************************************)
(* toRefEntry: what the backend knows of a ref's peel.                     *)
(***************************************************************************)
PeelKnown(n) ==
    refs[n].peelKnown \/ (refs[n].fromPacked /\ HintPromised(traits, n))

(***************************************************************************)
(* Git, in another process.                                                *)
(***************************************************************************)
Opening == opc \notin {"open", "failed"}

GitRuns(storage) ==
    /\ Opening /\ backend = storage /\ gitSteps < MaxGit
    /\ gitSteps' = gitSteps + 1
    /\ UNCHANGED <<backend, snapshot, openVars, stackVars>>

GitActs == GitRuns("files") /\ UNCHANGED <<headFile, tableVars>>

GitUpdates ==
    /\ GitActs
    /\ \E n \in Names, o \in Oids :
          /\ loose' = [loose EXCEPT ![n] = o]
          /\ dirs' = dirs \cup {DirOf[n]}
          /\ touched' = touched \cup {n}
    /\ UNCHANGED <<packed, hint, trait, removed>>

GitDeletes ==
    /\ GitActs
    /\ \E n \in Names :
          /\ loose[n] # None \/ packed[n] # None
          /\ loose' = [loose EXCEPT ![n] = None]
          /\ packed' = [packed EXCEPT ![n] = None]
          /\ hint' = [hint EXCEPT ![n] = None]
          /\ touched' = touched \cup {n}
    /\ UNCHANGED <<trait, dirs, removed>>

\* git pack-refs writes the new packed-refs, and then removes the loose
\* files that say no more than it does.
GitPacks ==
    /\ GitActs
    /\ trait # "malformed"
    /\ packed' = [n \in Names |-> IF loose[n] \in Oids THEN loose[n] ELSE packed[n]]
    /\ hint' = [n \in Names |-> PeelOf(packed'[n])]
    /\ trait' = "fully-peeled"
    /\ UNCHANGED <<loose, dirs, touched, removed>>

GitPrunes ==
    /\ GitActs
    /\ \E n \in Names :
          /\ loose[n] \in Oids /\ loose[n] = packed[n]
          /\ loose' = [loose EXCEPT ![n] = None]
          /\ touched' = touched \cup {n}
    /\ UNCHANGED <<packed, hint, trait, dirs, removed>>

GitRemovesDir ==
    /\ GitPrunesDirs
    /\ GitActs
    /\ \E d \in dirs :
          /\ \A n \in Names : DirOf[n] = d => loose[n] = None
          /\ dirs' = dirs \ {d}
          /\ removed' = removed \cup {d}
    /\ UNCHANGED <<packed, hint, trait, loose, touched>>

\* A transaction on a ref or on HEAD.
GitWritesTable ==
    /\ GitRuns("reftable") /\ tablesList # <<>>
    /\ \E k \in Keys : \E v \in Oids \cup (IF k = 0 THEN Names ELSE {None}) :
          /\ GitAddsTable(gitSteps + 2, [Empty EXCEPT ![k] = IF v = None THEN Deleted ELSE v])
          /\ loose' = IF k = 0 THEN loose ELSE [loose EXCEPT ![k] = v]
          /\ headFile' = IF k = 0 THEN v ELSE headFile
          /\ touched' = touched \cup {k}
    /\ UNCHANGED <<packed, hint, trait, dirs, removed>>

GitCompacts ==
    /\ GitRuns("reftable")
    /\ GitCompactsTables(gitSteps + 2)
    /\ UNCHANGED <<packed, hint, trait, loose, dirs, headFile, touched, removed>>

GitUnlinks ==
    /\ Opening /\ backend = "reftable"
    /\ GitUnlinksTables
    /\ UNCHANGED <<backend, packed, hint, trait, loose, dirs, headFile, snapshot, touched, removed, gitSteps>>
    /\ UNCHANGED <<openVars, stackVars>>

GitStep ==
    \/ GitUpdates \/ GitDeletes \/ GitPacks \/ GitPrunes \/ GitRemovesDir
    \/ GitWritesTable \/ GitCompacts \/ GitUnlinks

(***************************************************************************)
(* The opening by itself.                                                  *)
(***************************************************************************)
Opened == ~Opening /\ UNCHANGED storeVars

StoreNext == OpenStep \/ GitStep \/ Opened

\* The opening goroutine runs; Git owes nobody a step.
StoreSpec == StoreInit /\ [][StoreNext]_storeVars /\ WF_storeVars(OpenStep)

\* What a reader of the repository at rest would find under a name: the loose
\* id, else the packed one.
ListedOid(n) == IF loose[n] = None THEN packed[n] ELSE IF loose[n] \in Oids THEN loose[n] ELSE None
ShadowsPacked(n) == loose[n] \in Names /\ packed[n] # None

\* A ref Git leaves alone while the store is being opened is listed, once,
\* with its id, and no ref is made up, whatever Git does to the others short
\* of removing directories (openLooseRefs: packed first, loose over it).
UntouchedListed ==
    opc = "open" /\ backend = "files" /\ removed = {} =>
        \A n \in Names \ touched :
            \/ ShadowsPacked(n)
            \/ refs[n] = None /\ ListedOid(n) = None
            \/ refs[n] # None /\ refs[n].oid = ListedOid(n)

\* The reftable backend's refs and HEAD are those of one moment, the one at
\* which tables.list was read: however Git adds tables, merges them and unlinks
\* them meanwhile, the opening fails or gives that moment's refs, deletions
\* included (OpenStack).
StackIsSnapshot ==
    opc = "open" /\ backend = "reftable" =>
        /\ \A n \in Names :
              IF snapshot[n] \in Oids THEN refs[n] # None /\ refs[n].oid = snapshot[n] ELSE refs[n] = None
        /\ head.symref = IF snapshot[0] \in Names THEN snapshot[0] ELSE None
        /\ head.unborn <=> snapshot[0] \in Names /\ snapshot[snapshot[0]] = None

\* Tables are held open by a stack that is open or being opened, and by no
\* other: every failure, also one after the stack has been merged, lets go of
\* those opened before it (OpenStack's closeAll, openReftableBackend).
NoTableLeft == opc = "failed" => readers = <<>>

\* Either backend lists what the repository held while it was read.
ListsRepository == UntouchedListed /\ StackIsSnapshot

\* When the store claims to know what a ref peels to, it is right, although
\* the claim may come from a packed-refs line older than the ref (toRefEntry,
\* walkLooseRefs).
PeelHintsTrue ==
    opc = "open" =>
        \A n \in Names :
            refs[n] # None /\ PeelKnown(n) => refs[n].peeled = TruePeel[refs[n].oid]

\* HEAD and the list tell one story: a resolved HEAD has the id its branch
\* is listed with, and the branch of an unborn HEAD is not listed.
HeadMatchesList ==
    opc = "open" /\ head.symref # None =>
        /\ head.unborn => refs[head.symref] = None
        /\ head.oid # None => refs[head.symref] # None /\ refs[head.symref].oid = head.oid

\* Opening ends, whatever symbolic refs lead to whatever others.
OpeningEnds == <>~Opening

\* objstore/loose_refs.go: any read failure but a missing refs/ "aborts
\* construction so a half-listed ref set does not silently mislead callers".
NotHalfListed ==
    opc = "open" => \A n \in Names \ touched : loose[n] \in Oids => refs[n] # None
============================================================================
