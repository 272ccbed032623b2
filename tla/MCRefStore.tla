----------------------------- MODULE MCRefStore -----------------------------
(***************************************************************************)
(* Two objects, a commit and a tag of it; each ref file has a directory of *)
(* its own, so that Git may remove one and leave the others.               *)
(***************************************************************************)
EXTENDS RefStore
CONSTANTS Commit, Tag

MCOids == {Commit, Tag}
MCTarget == [o \in MCOids |-> IF o = Tag THEN Commit ELSE None]
MCDirOf == [n \in 1..NumRefs |-> n]
AnyContent == MCOids \cup Names \cup {None, Bad}
AnyPacked == MCOids \cup {None}
FilesOnly == {"files"}
BothBackends == {"files", "reftable"}
AllTraits == {"none", "peeled", "fully-peeled", "malformed"}
SecondIsTag == {2}
============================================================================
