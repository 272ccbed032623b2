-------------------------- MODULE ServerAnyClient --------------------------
(***************************************************************************)
(* The server goroutine of ServerLoop against a client that may send any   *)
(* packet at any time, hang up on either pipe, and stop reading: what      *)
(* internal/server promises to every peer, not only to this repository's   *)
(* own session.                                                            *)
(***************************************************************************)
EXTENDS ServerLoop

CONSTANTS
    MaxRequests,    \* bound: requests the peer starts
    MaxPeerArgs,    \* bound: oid and ref-prefix lines of one request
    MaxWire         \* bound: packets of one answer before the peer stops provoking more

ASSUME BoundsAssumption == MaxRequests \in Nat /\ MaxPeerArgs \in Nat /\ MaxWire \in Nat

VARIABLE wire       \* kinds of the packets sent since the request began

peerVars == <<pipeVars, serverVars, wire>>

PeerInit == PipesInit /\ ServerInit /\ wire = <<>>

PeerSends ==
    /\ ServerReading /\ ~Closed(c2s)
    /\ \E kind \in ReqKinds :
          /\ kind \in CommandLines => sreq.id < MaxRequests
          /\ kind \in ArgKinds => Len(sreq.args) < MaxPeerArgs
          /\ spc = "args" => Len(wire) < MaxWire
          /\ ServerReads(kind, sreq.id + 1)
          /\ wire' = IF spc' = "returned" THEN wire
                     ELSE IF spc = "first" THEN <<>> ELSE wire
    /\ UNCHANGED pipeVars

PeerTakes ==
    /\ ~Closed(s2c)
    /\ ServerWrote
    /\ wire' = Append(wire, Head(sout).kind)
    /\ UNCHANGED pipeVars

PeerHangsUp ==
    /\ \/ c2s' = CloseWriter(c2s, "nil") /\ UNCHANGED s2c
       \/ s2c' = CloseReader(s2c, "nil") /\ UNCHANGED c2s
    /\ UNCHANGED <<ctx, serverVars, wire>>

ContextEnds ==
    /\ ctx = "nil" /\ ctx' \in CtxErrs
    /\ UNCHANGED <<c2s, s2c, serverVars, wire>>

ServerFails ==
    /\ \/ Closed(c2s) /\ ServerReadFails(ReadErr(c2s))
       \/ Closed(s2c) /\ ServerWriteFails(WriteErr(s2c))
    /\ UNCHANGED <<pipeVars, wire>>

ServerRuns ==
    \/ /\ ServerCheckCtx \/ ServerFinishes
       /\ UNCHANGED <<pipeVars, wire>>
    \/ /\ ServerClosesWriter \/ ServerClosesReader \/ ServerDone
       /\ UNCHANGED wire

StoreError == ServerStoreFails /\ UNCHANGED <<pipeVars, wire>>

ServerIsDone == spc = "done" /\ UNCHANGED peerVars

PeerNext ==
    \/ PeerSends \/ PeerTakes \/ PeerHangsUp \/ ContextEnds
    \/ ServerFails \/ ServerRuns \/ StoreError \/ ServerIsDone

PeerSpec ==
    /\ PeerInit /\ [][PeerNext]_peerVars
    /\ WF_peerVars(ServerFails) /\ WF_peerVars(ServerRuns)

Framed == wire # <<>> /\ {i \in DOMAIN wire : wire[i] = "flush"} = {Len(wire)}

\* Whatever the client sent, the server looks for the next request only after
\* the answer to the last one has been closed by exactly one flush: a client
\* that reads to the first flush is never one answer behind.
AnswersFramed == spc \in {"loop", "first"} => Framed

\* A refused request has been told so: ERR and then the flush, before Serve
\* gives up on the connection.
RefusalIsTold ==
    serr = "Refused" => Framed /\ Len(wire) > 1 /\ wire[Len(wire) - 1] = "ERR"

\* A client that is gone takes the goroutine with it.
HangUpEndsServer == (Closed(c2s) /\ Closed(s2c)) ~> spc = "done"
============================================================================
