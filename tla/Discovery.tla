----------------------------- MODULE Discovery -----------------------------
(***************************************************************************)
(* What a caller learns of a repository's refs, from the store to the Ref  *)
(* values it is given, over protocol v0 and over protocol v2.              *)
(*                                                                         *)
(* A behaviour opens the store (RefStore), lets one session read the v0    *)
(* advertisement, and then lets another send one ls-refs request over v2   *)
(* to a server with the same store; or a session reads the info/refs file  *)
(* of a dumb HTTP server, which the adapter turns into a v0 advertisement. *)
(* The server's lines are computed when it starts writing; the client      *)
(* parses them one by one.  How the packets travel is FileSession's        *)
(* matter.                                                                 *)
(***************************************************************************)
EXTENDS RefStore, Sequences

CONSTANTS
    MaxPeelDepth,   \* maxPeelDepth
    PrefixLists,    \* the ref-prefix lists a caller may send
    MaxPayload      \* pktline.MaxPayload

Prefixes == {"HEAD", "refs/heads/", "refs/tags/"}

ASSUME MaxPeelDepthAssumption == MaxPeelDepth \in Nat
ASSUME PrefixListsAssumption == PrefixLists \subseteq SUBSET Prefixes
ASSUME MaxPayloadAssumption == MaxPayload \in Nat /\ MaxPayload > 2

VARIABLES
    looseObjs,  \* the objects that are loose, which Peel can read
    dpc,        \* how far the two sessions have come
    info,       \* the lines of info/refs the adapter has still to read
    synth,      \* the adapter's state, "none" without it
    wire,       \* the lines the client has still to parse
    capSymref,  \* the symref=HEAD: capability of the v0 session
    v0refs,     \* the refs of the v0 session
    request,    \* the RefsRequest of the v2 session
    v2refs      \* the refs its iterator has yielded

dumbVars == <<info, synth>>
discoveryVars == <<looseObjs, dpc, dumbVars, wire, capSymref, v0refs, request, v2refs>>
vars == <<storeVars, discoveryVars>>

HEAD == 0
HasPrefix(name, p) ==
    \/ p = "HEAD" /\ name = HEAD
    \/ p = "refs/heads/" /\ name \in Names \ Tags
    \/ p = "refs/tags/" /\ name \in Tags
RefMatch(prefixes, name) == prefixes = {} \/ \E p \in prefixes : HasPrefix(name, p)

RefsRequests == [prefixes : PrefixLists, peel : BOOLEAN, symrefs : BOOLEAN, unborn : BOOLEAN]
DefaultBranchRequest == [prefixes |-> {"HEAD"}, peel |-> FALSE, symrefs |-> TRUE, unborn |-> TRUE]
NoRequest == [prefixes |-> {}, peel |-> FALSE, symrefs |-> FALSE, unborn |-> FALSE]

Ref(name, oid, peeled, symref) == [name |-> name, hash |-> oid, peeled |-> peeled, symref |-> symref]

(***************************************************************************)
(* Store.Peel reads loose objects only, to a limited depth; refPeel asks   *)
(* the ref backend first.                                                  *)
(***************************************************************************)
\* Mutant: one tag is followed and no more.
PeelOnce(oid) == IF oid \in looseObjs THEN Target[oid] ELSE None

Peel(oid) == PeeledVia(looseObjs, MaxPeelDepth)[oid]

RefPeel(n) == IF PeelKnown(n) THEN refs[n].peeled ELSE Peel(refs[n].oid)

\* What is written ahead of the refs, then the lines of each ref in order.
InOrder(ahead, lines) ==
    LET upTo[n \in 0..NumRefs] == IF n = 0 THEN ahead ELSE upTo[n - 1] \o lines[n]
    IN upTo[NumRefs]

(***************************************************************************)
(* writeV0Advertisement: HEAD, then every ref in order with its peeled     *)
(* line behind it; the first line carries the capabilities, and a          *)
(* placeholder does when there is no other line.                           *)
(***************************************************************************)
Line(kind, name, oid) ==
    [kind |-> kind, name |-> name, oid |-> oid, caps |-> FALSE, symref |-> None, size |-> 1]

V0RefLines(n) ==
    << Line("ref", n, refs[n].oid) >>
    \o (IF RefPeel(n) = None THEN <<>> ELSE << Line("peeled", n, RefPeel(n)) >>)

Placeholder == Line("placeholder", HEAD, None)

HeadValid == ~head.unborn /\ (head.symref # None \/ head.oid # None)

V0Lines ==
    LET all == InOrder(IF HeadValid THEN << Line("ref", HEAD, head.oid) >> ELSE <<>>,
                       [n \in Names |-> IF refs[n] = None THEN <<>> ELSE V0RefLines(n)])
    IN IF all = <<>> THEN << Placeholder >> ELSE all

V0Advertisement == [V0Lines EXCEPT ![1].caps = TRUE, ![1].symref = head.symref]

(***************************************************************************)
(* writeLSRefsResponse: HEAD by emitHead's rules, then the refs that match *)
(* in order.                                                               *)
(***************************************************************************)
\* Mutant: an unborn HEAD is left out whatever was asked.
EmitHeadBorn(args) ==
    IF ~RefMatch(args.prefixes, HEAD) \/ head.oid = None THEN <<>>
    ELSE << Ref(HEAD, head.oid, IF args.peel THEN Peel(head.oid) ELSE None,
                IF args.symrefs THEN head.symref ELSE None) >>

EmitHead(args) ==
    IF ~RefMatch(args.prefixes, HEAD) THEN <<>>
    ELSE IF ~head.unborn /\ head.oid # None
    THEN << Ref(HEAD, head.oid, IF args.peel THEN Peel(head.oid) ELSE None,
                IF args.symrefs THEN head.symref ELSE None) >>
    ELSE IF head.unborn /\ args.unborn /\ args.symrefs
    THEN << Ref(HEAD, None, None, head.symref) >>
    ELSE <<>>

FormatRefLine(n, args) == << Ref(n, refs[n].oid, IF args.peel THEN RefPeel(n) ELSE None, None) >>

V2Lines(args) ==
    InOrder(EmitHead(args),
            [n \in Names |-> IF refs[n] # None /\ RefMatch(args.prefixes, n)
                             THEN FormatRefLine(n, args) ELSE <<>>])

DiscoveryInit ==
    /\ StoreInit
    /\ looseObjs \in SUBSET {o \in Oids : Target[o] # None}
    /\ dpc = "store"
    /\ info = <<>> /\ synth = "none" /\ wire = <<>> /\ capSymref = None
    /\ v0refs = <<>> /\ request = NoRequest /\ v2refs = <<>>

OpenStore ==
    /\ OpenStep
    /\ UNCHANGED discoveryVars

(***************************************************************************)
(* The v0 session.                                                         *)
(***************************************************************************)
AdvertiseV0 ==
    /\ dpc = "store" /\ opc = "open"
    /\ dpc' = "first"
    /\ wire' = V0Advertisement
    /\ UNCHANGED <<storeVars, looseObjs, dumbVars, capSymref, v0refs, request, v2refs>>

\* Reader.ReadPacket refuses a larger one.
Readable(line) == line.size <= MaxPayload

\* parseFirstRefLine.
ParseFirstRefLine ==
    /\ dpc = "first" /\ wire # <<>>
    /\ wire' = Tail(wire)
    /\ capSymref' = Head(wire).symref
    /\ dpc' = IF Readable(Head(wire)) /\ Head(wire).caps /\ Head(wire).kind # "peeled"
              THEN "v0" ELSE "failed"
    /\ v0refs' = IF Head(wire).kind = "ref"
                 THEN << Ref(Head(wire).name, Head(wire).oid, None, None) >> ELSE <<>>
    /\ UNCHANGED <<storeVars, looseObjs, dumbVars, request, v2refs>>

\* The loop of parseV0Advertisement: a ref, or a peeled marker that has to
\* belong to the ref before it.
Stray(line) ==
    \/ v0refs = <<>>
    \/ v0refs[Len(v0refs)].name # line.name
    \/ v0refs[Len(v0refs)].peeled # None

ParseRefLine ==
    /\ dpc = "v0" /\ wire # <<>>
    /\ wire' = Tail(wire)
    /\ \/ /\ Head(wire).kind = "ref"
          /\ v0refs' = Append(v0refs, Ref(Head(wire).name, Head(wire).oid, None, None))
          /\ dpc' = IF Readable(Head(wire)) THEN dpc ELSE "failed"
       \/ /\ Head(wire).kind = "peeled"
          /\ dpc' = IF Stray(Head(wire)) \/ ~Readable(Head(wire)) THEN "failed" ELSE dpc
          /\ v0refs' = IF Stray(Head(wire)) THEN v0refs
                       ELSE [v0refs EXCEPT ![Len(v0refs)].peeled = Head(wire).oid]
    /\ UNCHANGED <<storeVars, looseObjs, dumbVars, capSymref, request, v2refs>>

\* The flush: applySymrefs, convertRefs.
ApplySymrefs ==
    [i \in DOMAIN v0refs |->
        [v0refs[i] EXCEPT !.symref = IF v0refs[i].name = HEAD THEN capSymref ELSE None]]

EndV0 ==
    /\ dpc = "v0" /\ wire = <<>> /\ synth \in {"none", "done"}
    /\ dpc' = IF synth = "none" THEN "ask" ELSE "done"
    /\ v0refs' = ApplySymrefs
    /\ UNCHANGED <<storeVars, looseObjs, dumbVars, wire, capSymref, request, v2refs>>

(***************************************************************************)
(* The session with a dumb HTTP server: info/refs has the refs as Git last *)
(* wrote them, each with what it really peels to, but not HEAD.  The       *)
(* adapter makes a packet of each line; no command follows.                *)
(***************************************************************************)
InfoRefs ==
    LET lines(n) == << Line("ref", n, refs[n].oid) >>
                    \o (IF TruePeel[refs[n].oid] = None THEN <<>>
                        ELSE << Line("peeled", n, TruePeel[refs[n].oid]) >>)
    IN InOrder(<<>>, [n \in Names |-> IF refs[n] = None THEN <<>> ELSE lines(n)])

\* Mutant: the first line's NUL is not allowed for.
MaxRefLineBytesNoNUL == MaxPayload - 1

MaxRefLineBytes == MaxPayload - 2

\* The file as it is, with a comment, with a line that is none, or with a first
\* or last line of a length at the limit or past it.
InfoRefsFiles ==
    {InfoRefs, << Line("comment", HEAD, None) >> \o InfoRefs, Append(InfoRefs, Line("malformed", HEAD, None))}
    \cup {[InfoRefs EXCEPT ![i].size = n] :
            i \in {1, Len(InfoRefs)} \cap DOMAIN InfoRefs, n \in MaxPayload - 2 .. MaxPayload + 1}

FetchInfoRefs ==
    /\ dpc = "store" /\ opc = "open"
    /\ dpc' = "first" /\ synth' = "start"
    /\ info' \in InfoRefsFiles
    /\ UNCHANGED <<storeVars, looseObjs, wire, capSymref, v0refs, request, v2refs>>

Synthesizing == synth \in {"start", "streaming"} /\ wire = <<>> /\ dpc # "failed"

\* nextRefLine passes over comments and empty lines.
SkipLine ==
    /\ Synthesizing /\ info # <<>> /\ Head(info).kind = "comment"
    /\ info' = Tail(info)
    /\ UNCHANGED <<storeVars, looseObjs, dpc, synth, wire, capSymref, v0refs, request, v2refs>>

\* splitRefLine: the line cannot be taken apart, or is too long.
RefuseLine ==
    /\ Synthesizing /\ info # <<>>
    /\ Head(info).kind = "malformed" \/ Head(info).size > MaxRefLineBytes
    /\ dpc' = "failed"
    /\ UNCHANGED <<storeVars, looseObjs, dumbVars, wire, capSymref, v0refs, request, v2refs>>

\* fillFirst appends NUL and newline, fillNext a newline.
FillLine ==
    /\ Synthesizing /\ info # <<>>
    /\ Head(info).kind \in {"ref", "peeled"} /\ Head(info).size <= MaxRefLineBytes
    /\ LET first == synth = "start" IN
       wire' = << [Head(info) EXCEPT !.caps = first, !.size = @ + IF first THEN 2 ELSE 1] >>
    /\ info' = Tail(info) /\ synth' = "streaming"
    /\ UNCHANGED <<storeVars, looseObjs, dpc, capSymref, v0refs, request, v2refs>>

\* The end of the body: the placeholder if there was no line, then the flush.
FillEnd ==
    /\ info = <<>>
    /\ \/ /\ Synthesizing
          /\ wire' = IF synth = "start" THEN << [Placeholder EXCEPT !.caps = TRUE] >> ELSE wire
          /\ synth' = "flush"
       \/ synth = "flush" /\ wire = <<>> /\ synth' = "done" /\ UNCHANGED wire
    /\ UNCHANGED <<storeVars, looseObjs, dpc, info, capSymref, v0refs, request, v2refs>>

Synth == SkipLine \/ RefuseLine \/ FillLine \/ FillEnd

(***************************************************************************)
(* The v2 session.                                                         *)
(***************************************************************************)
LSRefs ==
    /\ dpc = "ask"
    /\ dpc' = "v2"
    /\ \E args \in RefsRequests :
          /\ request' = args
          /\ wire' = V2Lines(args)
    /\ UNCHANGED <<storeVars, looseObjs, dumbVars, capSymref, v0refs, v2refs>>

\* DecodeLSRefs and convertRef on one line.
DecodeLSRefs ==
    /\ dpc = "v2" /\ wire # <<>>
    /\ wire' = Tail(wire)
    /\ v2refs' = Append(v2refs, Head(wire))
    /\ UNCHANGED <<storeVars, looseObjs, dpc, dumbVars, capSymref, v0refs, request>>

EndV2 ==
    /\ dpc = "v2" /\ wire = <<>>
    /\ dpc' = "done"
    /\ UNCHANGED <<storeVars, looseObjs, dumbVars, wire, capSymref, v0refs, request, v2refs>>

Finished ==
    /\ opc = "failed" \/ dpc \in {"failed", "done"}
    /\ UNCHANGED vars

Next ==
    \/ OpenStore \/ AdvertiseV0 \/ ParseFirstRefLine \/ ParseRefLine \/ EndV0
    \/ FetchInfoRefs \/ Synth \/ LSRefs \/ DecodeLSRefs \/ EndV2 \/ Finished

Spec == DiscoveryInit /\ [][Next]_vars

(***************************************************************************)
(* What the v0 session answers, without the wire.                          *)
(***************************************************************************)
\* convertCaps: Capabilities.Symrefs of a session.
CapSymref(version) == IF version = "v2" THEN None ELSE capSymref

SymrefTarget(name) == IF name = HEAD THEN CapSymref("v0") ELSE None

Answer(args, ref) ==
    [ref EXCEPT !.symref = IF ~args.symrefs THEN None
                           ELSE IF @ = None THEN SymrefTarget(ref.name) ELSE @]

\* The members of a list at some of its positions.
Picked(list, positions) ==
    LET upTo[i \in 0..Len(list)] ==
            IF i = 0 THEN <<>>
            ELSE IF i \in positions THEN Append(upTo[i - 1], list[i]) ELSE upTo[i - 1]
    IN upTo[Len(list)]

\* refsCached: matchPrefixes, then the symref target if asked for.
RefsCached(args) ==
    LET matching == Picked(v0refs, {i \in DOMAIN v0refs : RefMatch(args.prefixes, v0refs[i].name)})
    IN [i \in DOMAIN matching |-> Answer(args, matching[i])]

\* DefaultBranch, over each protocol; None is ErrNoDefaultBranch.
HeadTargets == {v2refs[i].symref : i \in {j \in DOMAIN v2refs : v2refs[j].name = HEAD}} \ {None}
DefaultBranchV0 == CapSymref("v0")
DefaultBranchV2 ==
    IF HeadTargets # {} THEN CHOOSE target \in HeadTargets : TRUE ELSE CapSymref("v2")

(***************************************************************************)
(* Correctness.                                                            *)
(***************************************************************************)

Unfit == info # <<>> /\ (Head(info).kind = "malformed" \/ Head(info).size > MaxPayload - 2)

\* The client's parser accepts whatever the server advertises and whatever the
\* adapter makes of info/refs, up to the longest line that fits a packet, and
\* the session then knows exactly the refs the repository has, each once, in
\* order and with its own id (writeV0Advertisement and synth.Read against
\* parseV0Advertisement).
ListExact ==
    /\ dpc = "failed" => Unfit
    /\ dpc = "done" =>
        /\ \A i, j \in DOMAIN v0refs : i < j => v0refs[i].name < v0refs[j].name
        /\ \A n \in Names :
              \/ ShadowsPacked(n)
              \/ ListedOid(n) = None /\ \A i \in DOMAIN v0refs : v0refs[i].name # n
              \/ \E i \in DOMAIN v0refs : v0refs[i].name = n /\ v0refs[i].hash = ListedOid(n)

\* Whatever a ref is said to peel to, on either protocol, is what its tag
\* really leads to, down to an object that is no tag (refPeel, Peel).
PeelsTrue ==
    \A list \in {v0refs, v2refs} : \A i \in DOMAIN list :
        list[i].peeled # None => list[i].peeled = TruePeel[list[i].hash]

HeadSound == head.unborn \/ head.oid # None
WithoutUnborn(list) == Picked(list, {i \in DOMAIN list : list[i].hash # None})
WithoutExtraPeels(list) ==
    [i \in DOMAIN list |->
        [list[i] EXCEPT !.peeled = IF list[i].name = HEAD \/ ~request.peel THEN None ELSE @]]

\* The two protocols agree: the same request gets the same refs in the same
\* order, with the same ids, symref targets and peeled ids, but for what only
\* v2 can say (an unborn HEAD, the peeled id of HEAD) and for the peeled ids
\* v0 sends unasked (refsCached against writeLSRefsResponse);
\* and DefaultBranch gives the same answer over both, for a repository without
\* a commit too.
VersionsAgree ==
    /\ dpc = "done" /\ synth = "none" /\ HeadSound =>
        WithoutExtraPeels(WithoutUnborn(v2refs)) = WithoutExtraPeels(RefsCached(request))
    /\ dpc = "done" /\ request = DefaultBranchRequest /\ HeadSound =>
        DefaultBranchV2 = DefaultBranchV0

============================================================================
