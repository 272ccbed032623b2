---------------------------- MODULE MCDiscovery ----------------------------
(***************************************************************************)
(* A branch and a tag ref; a commit, a tag of it, and a tag of that tag,   *)
(* which is one more than MaxPeelDepth lets Peel follow.                   *)
(***************************************************************************)
EXTENDS Discovery
CONSTANTS Commit, Tag, Outer

MCOids == {Commit, Tag, Outer}
MCTarget == [o \in MCOids |-> IF o = Tag THEN Commit ELSE IF o = Outer THEN Tag ELSE None]
MCDirOf == [n \in 1..NumRefs |-> n]
MCTags == {2}
MCContents == {Tag, Outer, None} \cup Names
MCPacked == {None, Outer}
MCBackends == {"files", "reftable"}
MCTraits == {"none", "peeled", "fully-peeled"}
MCPrefixLists == {{}, {"HEAD"}, {"refs/heads/"}, {"refs/tags/"}, {"HEAD", "refs/tags/"}}
============================================================================
