---------------------------- MODULE HttpSession ----------------------------
(***************************************************************************)
(* A Session over smart HTTP, shared by several goroutines: session.go on  *)
(* top of transport/http (Conn.Command, Conn.Close, trackedBody).  Every   *)
(* command is a POST of its own, so calls overlap freely; what they share  *)
(* is the dead mark of the session, the set of response bodies the         *)
(* connection tracks, and the one Close that ends them all.                *)
(***************************************************************************)
EXTENDS Naturals, Sequences

CONSTANTS
    Callers,    \* the goroutines that share the session
    Nobody,     \* no goroutine
    MaxCalls,   \* bound: calls on the session
    MaxLines,   \* bound: ref lines of one response
    DrainCap,   \* bound: packets Close reads of a body before it closes it
    UserClose   \* whether a goroutine may call Session.Close

ASSUME NobodyAssumption == Nobody \notin Callers
ASSUME BoundsAssumption == MaxCalls \in Nat /\ MaxLines \in Nat /\ DrainCap \in Nat
ASSUME UserCloseAssumption == UserClose \in BOOLEAN

VARIABLES
    pc,         \* where each goroutine is
    cret,       \* where it goes on when Conn.Close returns
    calls,      \* how many calls there have been
    current,    \* its current, or its last, call
    got,        \* the lines its current call has delivered
    result,     \* what its last call reported
    body,       \* the response bodies, by call
    inflight,   \* Conn.inflight: the bodies the connection tracks
    deadErr,    \* Session.deadErr
    deadMu,     \* the goroutine that holds Session.deadMu
    kpc,        \* how far Conn.Close (inside closeOnce) has come
    snap,       \* the bodies Close took over and has not closed yet
    drained     \* packets Close has read of the body it is draining

callVars == <<cret, calls, current, got, result>>
deadVars == <<deadErr, deadMu>>
closeVars == <<kpc, snap, drained>>
vars == <<pc, callVars, body, inflight, deadVars, closeVars>>

(***************************************************************************)
(* Response bodies (net/http).  left is what has not been read yet; eager  *)
(* says that the end of the body is reported with its last bytes (a        *)
(* Content-Length body) and not by one more read (a chunked one).  cut     *)
(* says what Close has taken out of the middle of the stream: nothing,     *)
(* whole packets, or part of one.                                          *)
(***************************************************************************)
Bodies == 1..MaxCalls

Packet(kind, n) == [kind |-> kind, n |-> n]
Lines(n) == [i \in 1..n |-> Packet("line", i)]

\* A whole response, one that stops short, one with a packet no decoder takes.
Streams ==
    {Lines(n) \o << Packet("flush", 0) >> : n \in 0..MaxLines}
    \cup {Lines(n) : n \in 0..MaxLines}
    \cup {Lines(n) \o << Packet("bad", 0) >> : n \in 0..MaxLines}

NoBody == [state |-> "none", left |-> <<>>, size |-> 0, eager |-> FALSE, cut |-> "no"]
BodyOf(s, eager) ==
    [state |-> "open", left |-> s, size |-> Len(s), eager |-> eager, cut |-> "no"]

\* The end of the body has been reported: net/http has let go of it.
Over(b, state) == [b EXCEPT !.state = state, !.left = <<>>, !.eager = FALSE]

AfterTake(b) ==
    IF b.eager /\ Len(b.left) = 1 THEN Over(b, "ended") ELSE [b EXCEPT !.left = Tail(@)]

DecodeErrs == {"UnexpectedEOF", "Protocol", "Read"}

Init ==
    /\ pc = [c \in Callers |-> "idle"] /\ cret = [c \in Callers |-> "idle"]
    /\ calls = 0 /\ current = [c \in Callers |-> 0]
    /\ got = [c \in Callers |-> <<>>] /\ result = [c \in Callers |-> "none"]
    /\ body = [b \in Bodies |-> NoBody] /\ inflight = {}
    /\ deadErr = "nil" /\ deadMu = Nobody
    /\ kpc = "open" /\ snap = {} /\ drained = 0

Goto(c, state) == pc' = [pc EXCEPT ![c] = state]
EndsWith(c, res) == Goto(c, "idle") /\ result' = [result EXCEPT ![c] = res]

(***************************************************************************)
(* Refs and ObjectInfo: checkAlive under the mutex, which the goroutine    *)
(* that ends the session holds until the connection is closed.             *)
(***************************************************************************)
Call(c) ==
    /\ pc[c] = "idle" /\ calls < MaxCalls /\ deadMu = Nobody
    /\ calls' = calls + 1
    /\ current' = [current EXCEPT ![c] = calls + 1]
    /\ got' = [got EXCEPT ![c] = <<>>]
    /\ \/ deadErr # "nil" /\ EndsWith(c, "SessionDead")
       \/ deadErr = "nil" /\ Goto(c, "post") /\ result' = [result EXCEPT ![c] = "none"]
    /\ UNCHANGED <<cret, body, inflight, deadVars, closeVars>>

(***************************************************************************)
(* Conn.Command.  Whatever goes wrong (the request body, the credentials,  *)
(* the POST, a redirect, a status other than 200) the response is closed   *)
(* and the session stays as it is.  A response is handed over in two       *)
(* steps: it has arrived, and then it is tracked.                          *)
(***************************************************************************)
CommandFails(c) ==
    /\ pc[c] = "post"
    /\ EndsWith(c, "Command")
    /\ UNCHANGED <<cret, calls, current, got, body, inflight, deadVars, closeVars>>

PostAnswered(c) ==
    /\ pc[c] = "post"
    /\ \E s \in Streams, eager \in BOOLEAN :
          body' = [body EXCEPT ![current[c]] =
                      IF s = <<>> /\ eager THEN Over(BodyOf(s, eager), "ended")
                      ELSE BodyOf(s, eager)]
    /\ Goto(c, "track")
    /\ UNCHANGED <<callVars, inflight, deadVars, closeVars>>

TrackCommandBody(c) ==
    /\ pc[c] = "track"
    /\ inflight' = inflight \cup {current[c]}
    /\ pc' \in {[pc EXCEPT ![c] = "iter"], [pc EXCEPT ![c] = "decode"]}
    /\ UNCHANGED <<callVars, body, deadVars, closeVars>>

\* Refs handed out an iterator: the caller ranges over it, or forgets it.
RangeOver(c) ==
    /\ pc[c] = "iter"
    /\ Goto(c, "read")
    /\ UNCHANGED <<callVars, body, inflight, deadVars, closeVars>>

Abandon(c) ==
    /\ pc[c] = "iter"
    /\ EndsWith(c, "abandoned")
    /\ UNCHANGED <<cret, calls, current, got, body, inflight, deadVars, closeVars>>

Continue(c) ==
    /\ pc[c] = "yield"
    /\ pc' \in {[pc EXCEPT ![c] = "read"], [pc EXCEPT ![c] = "drain"]}
    /\ UNCHANGED <<callVars, body, inflight, deadVars, closeVars>>

(***************************************************************************)
(* Reading the response.  trackedBody.Read forgets the body at its first   *)
(* error or end; a decoder stops at the flush, without looking for the end *)
(* behind it.                                                              *)
(***************************************************************************)
Reading(c) == pc[c] \in {"read", "decode", "drain"}
MyBody(c) == body[current[c]]

\* Mutant: the end of the stream passes for the end of the response.
DecodeFailsLeniently(c, err) ==
    \/ pc[c] = "drain" /\ EndsWith(c, "broke")
    \/ pc[c] # "drain" /\ err = "UnexpectedEOF" /\ EndsWith(c, "ok")
    \/ /\ pc[c] # "drain" /\ err # "UnexpectedEOF"
       /\ Goto(c, "mark") /\ result' = [result EXCEPT ![c] = err]

\* The error goes to markDead; a drain only stops.
DecodeFails(c, err) ==
    \/ pc[c] = "drain" /\ EndsWith(c, "broke")
    \/ pc[c] # "drain" /\ Goto(c, "mark") /\ result' = [result EXCEPT ![c] = err]

TakePacket(c, pkt) ==
    \/ /\ pkt.kind = "line"
       /\ Goto(c, IF pc[c] = "read" THEN "yield" ELSE pc[c])
       /\ got' = IF pc[c] = "drain" THEN got ELSE [got EXCEPT ![c] = Append(@, pkt)]
       /\ UNCHANGED result
    \/ /\ pkt.kind = "flush"
       /\ EndsWith(c, IF pc[c] = "drain" THEN "broke" ELSE "ok")
       /\ UNCHANGED got
    \/ /\ pkt.kind = "bad"
       /\ UNCHANGED got
       /\ \/ pc[c] = "drain" /\ UNCHANGED <<pc, result>>
          \/ pc[c] # "drain" /\ DecodeFails(c, "Protocol")

ReadPacket(c) ==
    /\ Reading(c)
    /\ MyBody(c).state = "open" /\ MyBody(c).left # <<>> /\ MyBody(c).cut # "torn"
    /\ body' = [body EXCEPT ![current[c]] = AfterTake(@)]
    /\ inflight' = IF AfterTake(MyBody(c)).state = "ended" THEN inflight \ {current[c]} ELSE inflight
    /\ TakePacket(c, Head(MyBody(c).left))
    /\ UNCHANGED <<cret, calls, current, deadVars, closeVars>>

\* Close has taken part of a packet: what is left does not parse.
ReadTorn(c) ==
    /\ Reading(c)
    /\ MyBody(c).state = "open" /\ MyBody(c).left # <<>> /\ MyBody(c).cut = "torn"
    /\ DecodeFails(c, "Protocol")
    /\ UNCHANGED <<cret, calls, current, got, body, inflight, deadVars, closeVars>>

\* The end of the stream, before or after its flush; or a body closed already.
ReadEnds(c) ==
    /\ Reading(c)
    /\ MyBody(c).state # "open" \/ MyBody(c).left = <<>>
    /\ DecodeFails(c, IF MyBody(c).state = "closed" THEN "Read" ELSE "UnexpectedEOF")
    /\ body' = [body EXCEPT ![current[c]] = IF @.state = "open" THEN Over(@, "ended") ELSE @]
    /\ inflight' = inflight \ {current[c]}
    /\ UNCHANGED <<cret, calls, current, got, deadVars, closeVars>>

\* The network fails, or the call's context is done.
NetworkFails(c) ==
    /\ Reading(c) /\ MyBody(c).state = "open"
    /\ DecodeFails(c, "Read")
    /\ body' = [body EXCEPT ![current[c]] = Over(@, "ended")]
    /\ inflight' = inflight \ {current[c]}
    /\ UNCHANGED <<cret, calls, current, got, deadVars, closeVars>>

(***************************************************************************)
(* markDead: the first error is kept and closes the connection, the mutex  *)
(* held all the while; a later one waits for it and changes nothing.       *)
(***************************************************************************)
\* Mutant: the mutex is released before the connection is closed.
MarkDeadUnlocked(c) ==
    /\ pc[c] = "mark" /\ deadMu = Nobody
    /\ \/ deadErr # "nil" /\ Goto(c, "idle") /\ UNCHANGED <<cret, deadErr>>
       \/ /\ deadErr = "nil" /\ deadErr' = result[c]
          /\ Goto(c, "close") /\ cret' = [cret EXCEPT ![c] = "idle"]
    /\ UNCHANGED <<calls, current, got, result, body, inflight, deadMu, closeVars>>

MarkDead(c) ==
    /\ pc[c] = "mark" /\ deadMu = Nobody
    /\ \/ /\ deadErr # "nil"
          /\ Goto(c, "idle")
          /\ UNCHANGED <<cret, deadVars>>
       \/ /\ deadErr = "nil"
          /\ deadErr' = result[c] /\ deadMu' = c
          /\ Goto(c, "close") /\ cret' = [cret EXCEPT ![c] = "idle"]
    /\ UNCHANGED <<calls, current, got, result, body, inflight, closeVars>>

(***************************************************************************)
(* Conn.Close.  The first caller runs it, the others wait (sync.Once).     *)
(***************************************************************************)
CallClose(c) ==
    /\ UserClose
    /\ pc[c] \in {"idle", "iter", "yield"}
    /\ Goto(c, "close") /\ cret' = [cret EXCEPT ![c] = pc[c]]
    /\ UNCHANGED <<calls, current, got, result, body, inflight, deadVars, closeVars>>

\* The probe body is drained and closed.
CloseProbeBody ==
    /\ kpc = "open" /\ \E c \in Callers : pc[c] = "close"
    /\ kpc' = "snapshot"
    /\ UNCHANGED <<pc, callVars, body, inflight, deadVars, snap, drained>>

CloseSnapshot ==
    /\ kpc = "snapshot"
    /\ kpc' = "bodies"
    /\ snap' = inflight /\ inflight' = {}
    /\ UNCHANGED <<pc, callVars, body, deadVars, drained>>

\* io.Copy with its limit: a body that has a reader of its own loses whole
\* packets or part of one, wherever the two happen to meet.
LosesPacket(b, cut) == [AfterTake(b) EXCEPT !.cut = IF @ = "torn" THEN @ ELSE cut]

CloseDrains(b) ==
    /\ kpc = "bodies" /\ b \in snap /\ drained < DrainCap
    /\ body[b].state = "open" /\ body[b].left # <<>>
    /\ \E cut \in {"aligned", "torn"} : body' = [body EXCEPT ![b] = LosesPacket(@, cut)]
    /\ drained' = drained + 1
    /\ UNCHANGED <<pc, callVars, inflight, deadVars, kpc, snap>>

CloseBody(b) ==
    /\ kpc = "bodies" /\ b \in snap
    /\ drained = DrainCap \/ body[b].state # "open" \/ body[b].left = <<>>
    /\ body' = [body EXCEPT ![b] = Over(@, "closed")]
    /\ snap' = snap \ {b} /\ drained' = 0
    /\ UNCHANGED <<pc, callVars, inflight, deadVars, kpc>>

\* Mutant: the map is cleared at the end once more.
CloseFinishesClearing ==
    /\ kpc = "bodies" /\ snap = {}
    /\ kpc' = "closed" /\ inflight' = {}
    /\ UNCHANGED <<pc, callVars, body, deadVars, snap, drained>>

CloseFinishes ==
    /\ kpc = "bodies" /\ snap = {}
    /\ kpc' = "closed"
    /\ UNCHANGED <<pc, callVars, body, inflight, deadVars, snap, drained>>

\* Mutant: the mutex is never released.
CloseReturnsLocked(c) ==
    /\ pc[c] = "close" /\ kpc = "closed"
    /\ Goto(c, cret[c])
    /\ UNCHANGED <<callVars, body, inflight, deadVars, closeVars>>

CloseReturns(c) ==
    /\ pc[c] = "close" /\ kpc = "closed"
    /\ Goto(c, cret[c])
    /\ cret' = [cret EXCEPT ![c] = "idle"]
    /\ deadMu' = IF deadMu = c THEN Nobody ELSE deadMu
    /\ UNCHANGED <<calls, current, got, result, body, inflight, deadErr, closeVars>>

CloseStep ==
    \/ CloseProbeBody \/ CloseSnapshot \/ CloseFinishes
    \/ \E b \in Bodies : CloseDrains(b) \/ CloseBody(b)

Step(c) ==
    \/ CommandFails(c) \/ PostAnswered(c) \/ TrackCommandBody(c)
    \/ ReadPacket(c) \/ ReadTorn(c) \/ ReadEnds(c) \/ NetworkFails(c)
    \/ MarkDead(c) \/ CloseReturns(c)

CallerChoice(c) == Call(c) \/ RangeOver(c) \/ Abandon(c) \/ Continue(c) \/ CallClose(c)

Next == CloseStep \/ \E c \in Callers : Step(c) \/ CallerChoice(c)

(***************************************************************************)
(* Every goroutine that can run does; the server answers what it is asked, *)
(* in the end, or the connection fails.  Nothing forces the callers.       *)
(***************************************************************************)
Fairness == WF_vars(CloseStep) /\ \A c \in Callers : WF_vars(Step(c))

Spec == Init /\ [][Next]_vars /\ Fairness
----------------------------------------------------------------------------
CallerStates == {"idle", "iter", "yield"}

\* A goroutine that has been told that its call, or the session, is lost finds
\* the connection closed, whoever closed it (markDead under deadMu,
\* checkAlive, closeOnce).
ErrorMeansClosed ==
    \A c \in Callers :
        pc[c] = "idle" /\ result[c] \in DecodeErrs \cup {"SessionDead"} => kpc = "closed"

\* A body that is still open is in the hands of the call that has just received
\* it, tracked by the connection, or in the snapshot of a Close at work.  Close
\* leaves with its snapshot dealt with.  So whatever was tracked when it took the
\* snapshot is no longer open when it is over, a response read up to its flush
\* or forgotten included (trackCommandBody, untrackCommandBody, Close).  A body
\* tracked after the snapshot is only known: it may stay open.
OpenBodiesTracked ==
    \A b \in Bodies : body[b].state = "open" =>
        \/ b \in inflight
        \/ kpc = "bodies" /\ b \in snap
        \/ \E c \in Callers : pc[c] = "track" /\ current[c] = b

\* A call that ends without an error has delivered its whole response, as
\* long as Close has not read from the same body (refsV2, ObjectInfo).
OkMeansComplete ==
    \A c \in Callers : result[c] = "ok" /\ pc[c] = "idle" /\ MyBody(c).cut = "no" =>
        got[c] = Lines(MyBody(c).size - 1)

\* A call comes back to its caller, whoever closes the session meanwhile.
CallsReturn == \A c \in Callers : pc[c] \notin CallerStates ~> pc[c] \in CallerStates

\* transport/http/conn.go: "each returned pktline.Reader is independent of
\* every other"; session.go: "two goroutines can issue commands against the
\* same HTTP-backed Session without external synchronisation".
ReadersIndependent ==
    \A c \in Callers : result[c] = "ok" /\ pc[c] = "idle" =>
        got[c] = Lines(MyBody(c).size - 1)

============================================================================
