--------------------------- MODULE MCObjectStore ---------------------------
(***************************************************************************)
(* Instances of ObjectStore: every small graph of alternates over simple   *)
(* packs, and every small combination of pack entries over one alternate.  *)
(***************************************************************************)
EXTENDS ObjectStore

CONSTANTS r1, r2, r3, gone, tree

MCRepos == {r1, r2, r3}
MCPaths == MCRepos \cup {gone}
MCCommon == [p \in MCPaths |-> IF p = gone THEN None ELSE p]

\* The working tree of r1: its .git directory is r1.
TreePaths == MCRepos \cup {tree}
TreeCommon == [p \in TreePaths |-> IF p = tree THEN r1 ELSE p]

MCOids == 1..3
MCTypeOf == [o \in MCOids |-> "blob"]

Whole == [kind |-> "whole", base |-> None]
Ofs(b) == [kind |-> "ofs", base |-> b]
Ref(b) == [kind |-> "ref", base |-> b]
BadEntry == [kind |-> "bad", base |-> None]

Pack(mtime, crcs, objects) == [mtime |-> mtime, crcs |-> crcs, objects |-> objects]
NoLoose == [r \in MCRepos |-> [o \in MCOids |-> "absent"]]
OnlyOne == [o \in MCOids |-> IF o = 1 THEN Whole ELSE None]
UpTo(n, S) == UNION {[1..k -> S] : k \in 0..n}

\* Graphs of alternates; r3 has one object, r2 two packs of which its
\* multi-pack-index covers one, or one that is not there.
Graphs(paths) ==
    {[alternates |-> (r1 :> a) @@ (r2 :> b) @@ (r3 :> c),
      loose |-> NoLoose,
      packs |-> (r1 :> <<>>) @@ (r2 :> <<Pack(1, TRUE, OnlyOne), Pack(2, TRUE, OnlyOne)>>)
                    @@ (r3 :> <<Pack(1, TRUE, OnlyOne)>>),
      midx |-> (r1 :> {}) @@ (r2 :> m) @@ (r3 :> {}),
      rot |-> {}]
        : a \in UpTo(2, paths), b \in UpTo(1, paths), c \in UpTo(1, paths), m \in {{1}, {3}}}

\* Contents of the packs of r1 and r2, with a checksum error in some.
Damaged(crcs) == [crcs |-> crcs, rot |-> {<<r1, 1, 1>>}]

Contents ==
    {[alternates |-> (r1 :> <<r2>>) @@ (r2 :> <<>>) @@ (r3 :> <<>>),
      loose |-> [NoLoose EXCEPT ![r1][2] = l, ![r2][3] = "present"],
      packs |-> (r1 :> <<Pack(1, t.crcs, <<e1, e2, e3>>), Pack(2, TRUE, <<None, f2, None>>)>>)
                    @@ (r2 :> <<>>) @@ (r3 :> <<>>),
      midx |-> (r1 :> {}) @@ (r2 :> {}) @@ (r3 :> {}),
      rot |-> t.rot]
        : l \in {"absent", "bad"},
          e1 \in {None, Whole, Ref(2), Ofs(2)},
          e2 \in {Whole, Ref(1), Ref(3), Ofs(3)},
          e3 \in {None, Whole, BadEntry},
          f2 \in {None, Whole},
          t \in {[crcs |-> TRUE, rot |-> {}], Damaged(TRUE), Damaged(FALSE)}}

\* An offset leads to an entry, and only entries are damaged.
WellFormed(d) ==
    LET one == d.packs[r1][1].objects
    IN (one[2] = Ofs(3) => one[3] # None) /\ (d.rot # {} => one[1] # None)

MCDisks == Graphs(MCPaths) \cup {d \in Contents : WellFormed(d)}
TreeDisks == Graphs(TreePaths)
=============================================================================
