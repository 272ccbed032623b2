------------------------- MODULE HttpSessionProofs -------------------------
(***************************************************************************)
(* Theorems about HttpSession for every number of goroutines, calls, ref   *)
(* lines and drained packets, whether or not somebody closes the session.  *)
(***************************************************************************)
EXTENDS HttpSession, SequenceTheorems, TLAPS

CallerPCs == {"idle", "post", "track", "iter", "decode", "read", "yield", "drain", "mark", "close"}
Results == DecodeErrs \cup {"none", "ok", "broke", "abandoned", "Command", "SessionDead"}
Packets == [kind : {"line", "flush", "bad"}, n : Nat]
BodyRecords ==
    [state : {"none", "open", "ended", "closed"}, left : Seq(Packets), size : Nat,
     eager : BOOLEAN, cut : {"no", "aligned", "torn"}]

TypeOK ==
    /\ pc \in [Callers -> CallerPCs]
    /\ cret \in [Callers -> CallerStates]
    /\ calls \in Nat
    /\ current \in [Callers -> Nat]
    /\ got \in [Callers -> Seq(Packets)]
    /\ result \in [Callers -> Results]
    /\ body \in [Bodies -> BodyRecords]
    /\ inflight \subseteq Bodies
    /\ deadErr \in Results \cup {"nil"}
    /\ deadMu \in Callers \cup {Nobody}
    /\ kpc \in {"open", "snapshot", "bodies", "closed"}
    /\ snap \subseteq Bodies
    /\ drained \in Nat

(***************************************************************************)
(* Which call a goroutine is in.  Calls are numbered, every goroutine has  *)
(* a number of its own, and the states inside a call have one.             *)
(***************************************************************************)
\* A goroutine inside a call, or in the Close it has called from inside one.
InCall(c) == pc[c] \in CallerPCs \ {"idle", "close"} \/ cret[c] # "idle"

CallsNumbered ==
    /\ calls <= MaxCalls
    /\ \A c \in Callers :
          /\ current[c] <= calls
          /\ InCall(c) => current[c] >= 1
          /\ result[c] = "ok" => current[c] >= 1
    /\ \A c, d \in Callers : c # d /\ current[c] = current[d] => current[c] = 0

(***************************************************************************)
(* Streams and bodies have the types their variables say.                  *)
(***************************************************************************)
\* A run of ref lines is a sequence of packets, in order.
LEMMA LinesType ==
    ASSUME NEW n \in Nat
    PROVE  /\ Lines(n) \in Seq(Packets)
           /\ Len(Lines(n)) = n
           /\ \A i \in 1..n : Lines(n)[i] = Packet("line", i)
<1>1. \A i \in 1..n : Packet("line", i) \in Packets
  BY DEF Packet, Packets
<1>2. Lines(n) \in [1..n -> Packets]
  BY <1>1 DEF Lines
<1> QED
  BY <1>2 DEF Lines

\* A response is its ref lines in order, and at most one packet of another
\* kind behind them.
LEMMA StreamFacts ==
    ASSUME NEW s \in Streams
    PROVE  /\ s \in Seq(Packets)
           /\ \A i \in 1..Len(s) :
                 /\ s[i].kind = "line" => s[i] = Packet("line", i)
                 /\ s[i].kind # "line" => i = Len(s)
<1>1. CASE \E n \in 0..MaxLines : s = Lines(n)
  <2>1. PICK n \in 0..MaxLines : s = Lines(n)
    BY <1>1
  <2>2. n \in Nat
    BY BoundsAssumption
  <2> QED
    BY <2>1, <2>2, LinesType DEF Packet
<1>2. ASSUME NEW n \in Nat, NEW kind \in {"flush", "bad"}, s = Lines(n) \o << Packet(kind, 0) >>
      PROVE  /\ s \in Seq(Packets)
             /\ \A i \in 1..Len(s) :
                   /\ s[i].kind = "line" => s[i] = Packet("line", i)
                   /\ s[i].kind # "line" => i = Len(s)
  <2>1. PICK z : z = << Packet(kind, 0) >>
    OBVIOUS
  <2>2. z \in Seq(Packets) /\ Len(z) = 1 /\ z[1].kind = kind
    BY <2>1 DEF Packet, Packets
  <2>3. PICK l : l = Lines(n)
    OBVIOUS
  <2>4. l \in Seq(Packets) /\ Len(l) = n /\ \A i \in 1..n : l[i] = Packet("line", i)
    BY <2>3, LinesType
  <2>5. s = l \o z
    BY <1>2, <2>1, <2>3
  <2>6. /\ s \in Seq(Packets)
        /\ Len(s) = n + 1
        /\ \A i \in 1..n : s[i] = l[i]
        /\ s[n + 1] = z[1]
    <3>1. s \in Seq(Packets) /\ Len(s) = Len(l) + Len(z)
      BY <2>2, <2>4, <2>5, ConcatProperties, Zenon
    <3>2. \A i \in 1..(Len(l) + Len(z)) : s[i] = IF i <= Len(l) THEN l[i] ELSE z[i - Len(l)]
      BY <2>2, <2>4, <2>5, ConcatProperties, Zenon
    <3> QED
      BY <2>2, <2>4, <3>1, <3>2
  <2> QED
    BY <2>2, <2>4, <2>6 DEF Packet
<1>3. 0..MaxLines \subseteq Nat
  BY BoundsAssumption
<1> QED
  BY <1>1, <1>2, <1>3 DEF Streams

\* What net/http does to a body leaves it a body; a stream loses at most its
\* first packet, and its size and cut are kept.
LEMMA BodyType ==
    ASSUME NEW b \in BodyRecords
    PROVE  /\ \A state \in {"ended", "closed"} :
                 /\ Over(b, state) \in BodyRecords
                 /\ Over(b, state).state = state
                 /\ Over(b, state).size = b.size /\ Over(b, state).cut = b.cut
           /\ b.left # <<>> =>
                 /\ AfterTake(b) \in BodyRecords
                 /\ AfterTake(b).size = b.size /\ AfterTake(b).cut = b.cut
                 /\ AfterTake(b).state \in {b.state, "ended"}
                 /\ AfterTake(b).state # "ended" => AfterTake(b).left = Tail(b.left)
                 /\ Head(b.left) \in Packets
<1>1. << >> \in Seq(Packets)
  OBVIOUS
<1>2. b.left # <<>> => Tail(b.left) \in Seq(Packets) /\ Head(b.left) \in Packets
  BY DEF BodyRecords
<1> QED
  BY <1>1, <1>2 DEF BodyRecords, Over, AfterTake

\* A body Close has read from is marked so.
LEMMA LosesPacketFacts ==
    ASSUME NEW b \in BodyRecords, b.left # <<>>, NEW cut \in {"aligned", "torn"}
    PROVE  /\ LosesPacket(b, cut) \in BodyRecords
           /\ LosesPacket(b, cut).cut # "no"
           /\ LosesPacket(b, cut).state \in {b.state, "ended"}
<1>1. PICK a : a = AfterTake(b)
  OBVIOUS
<1>2. a \in BodyRecords /\ a.state \in {b.state, "ended"}
  BY <1>1, BodyType
<1>3. LosesPacket(b, cut) = [a EXCEPT !.cut = IF a.cut = "torn" THEN a.cut ELSE cut]
  BY <1>1 DEF LosesPacket
<1> QED
  BY <1>2, <1>3 DEF BodyRecords

\* The body of a response, whatever the response is.
LEMMA AnsweredType ==
    ASSUME NEW s \in Streams, NEW eager \in BOOLEAN
    PROVE  /\ BodyOf(s, eager) \in BodyRecords
           /\ Over(BodyOf(s, eager), "ended") \in BodyRecords
<1>1. s \in Seq(Packets)
  BY StreamFacts
<1>2. BodyOf(s, eager) \in BodyRecords
  BY <1>1 DEF BodyOf, BodyRecords
<1> QED
  BY <1>2, BodyType

\* The initial states have their types.
LEMMA TypeInit == Init => TypeOK
<1>1. NoBody \in BodyRecords
  BY DEF NoBody, BodyRecords
<1> QED
  BY <1>1 DEF Init, TypeOK, CallerPCs, CallerStates, Results

\* A decode error leaves every variable in its type.
LEMMA DecodeFailsType ==
    ASSUME TypeOK, NEW c \in Callers, NEW err \in DecodeErrs, DecodeFails(c, err)
    PROVE  pc' \in [Callers -> CallerPCs] /\ result' \in [Callers -> Results]
BY DEF DecodeFails, EndsWith, Goto, TypeOK, CallerPCs, Results

\* Reading a packet leaves every body in its type.
LEMMA TakePacketType ==
    ASSUME TypeOK, NEW c \in Callers, NEW pkt \in Packets, TakePacket(c, pkt)
    PROVE  /\ pc' \in [Callers -> CallerPCs] /\ result' \in [Callers -> Results]
           /\ got' \in [Callers -> Seq(Packets)]
<1>1. Append(got[c], pkt) \in Seq(Packets)
  BY DEF TypeOK
<1>2. CASE pkt.kind = "bad" /\ pc[c] # "drain"
  BY <1>2, DecodeFailsType DEF TakePacket, TypeOK, DecodeErrs
<1>3. CASE ~(pkt.kind = "bad" /\ pc[c] # "drain")
  BY <1>1, <1>3 DEF TakePacket, EndsWith, Goto, TypeOK, CallerPCs, Results
<1> QED
  BY <1>2, <1>3

\* The call a goroutine is in has a body to read.
LEMMA CallHasBody ==
    ASSUME TypeOK, CallsNumbered, NEW c \in Callers, InCall(c) \/ result[c] = "ok"
    PROVE  current[c] \in Bodies
BY BoundsAssumption DEF TypeOK, CallsNumbered, Bodies

\* Every step keeps every variable in its type.
LEMMA TypeNext ==
    ASSUME TypeOK, CallsNumbered, [Next]_vars
    PROVE  TypeOK'
<1> USE DEF TypeOK
<1>0. \A c \in Callers : InCall(c) => current[c] \in Bodies
  BY CallHasBody
<1>1. ASSUME NEW c \in Callers, Call(c) PROVE TypeOK'
  <2>1. << >> \in Seq(Packets)
    OBVIOUS
  <2> QED
    <3>1. pc' \in [Callers -> CallerPCs] /\ result' \in [Callers -> Results]
      BY <1>1 DEF Call, EndsWith, Goto, CallerPCs, Results
    <3>2. calls' \in Nat /\ current' \in [Callers -> Nat] /\ got' \in [Callers -> Seq(Packets)]
      BY <1>1, <2>1 DEF Call
    <3> QED
      BY <1>1, <3>1, <3>2 DEF Call, deadVars, closeVars
<1>2. ASSUME NEW c \in Callers, CommandFails(c) \/ RangeOver(c) \/ Abandon(c) \/ Continue(c)
      PROVE  TypeOK'
  BY <1>2 DEF CommandFails, RangeOver, Abandon, Continue, EndsWith, Goto, callVars, deadVars,
              closeVars, CallerPCs, Results
<1>3. ASSUME NEW c \in Callers, PostAnswered(c) PROVE TypeOK'
  <2>1. PICK s \in Streams, eager \in BOOLEAN :
          body' = [body EXCEPT ![current[c]] = IF s = <<>> /\ eager THEN Over(BodyOf(s, eager), "ended")
                                               ELSE BodyOf(s, eager)]
    BY <1>3 DEF PostAnswered
  <2>2. body' \in [Bodies -> BodyRecords]
    BY <2>1, AnsweredType
  <2> QED
    BY <1>3, <2>2 DEF PostAnswered, Goto, callVars, deadVars, closeVars, CallerPCs
<1>4. ASSUME NEW c \in Callers, TrackCommandBody(c) PROVE TypeOK'
  <2>1. current[c] \in Bodies
    BY <1>0, <1>4 DEF TrackCommandBody, InCall, CallerPCs
  <2> QED
    BY <1>4, <2>1 DEF TrackCommandBody, callVars, deadVars, closeVars, CallerPCs
<1>5. ASSUME NEW c \in Callers, ReadPacket(c) PROVE TypeOK'
  <2>1. current[c] \in Bodies
    BY <1>0, <1>5 DEF ReadPacket, Reading, InCall, CallerPCs
  <2>2. AfterTake(MyBody(c)) \in BodyRecords /\ Head(MyBody(c).left) \in Packets
    BY <1>5, <2>1, BodyType DEF ReadPacket, MyBody
  <2>3. /\ pc' \in [Callers -> CallerPCs] /\ result' \in [Callers -> Results]
        /\ got' \in [Callers -> Seq(Packets)]
    BY <1>5, <2>2, TakePacketType DEF ReadPacket
  <2>4. body' \in [Bodies -> BodyRecords]
    BY <1>5, <2>1, <2>2 DEF ReadPacket, MyBody
  <2> QED
    BY <1>5, <2>3, <2>4 DEF ReadPacket, deadVars, closeVars
<1>6. ASSUME NEW c \in Callers, ReadTorn(c) \/ ReadEnds(c) \/ NetworkFails(c) PROVE TypeOK'
  <2>1. current[c] \in Bodies
    BY <1>0, <1>6 DEF ReadTorn, ReadEnds, NetworkFails, Reading, InCall, CallerPCs
  <2>2. \E err \in DecodeErrs : DecodeFails(c, err)
    BY <1>6 DEF ReadTorn, ReadEnds, NetworkFails, DecodeErrs
  <2>3. pc' \in [Callers -> CallerPCs] /\ result' \in [Callers -> Results]
    BY <2>2, DecodeFailsType
  <2>4. Over(MyBody(c), "ended") \in BodyRecords
    BY <2>1, BodyType DEF MyBody
  <2>5. body' \in [Bodies -> BodyRecords]
    BY <1>6, <2>1, <2>4 DEF ReadTorn, ReadEnds, NetworkFails, MyBody
  <2> QED
    BY <1>6, <2>3, <2>5 DEF ReadTorn, ReadEnds, NetworkFails, deadVars, closeVars
<1>7. ASSUME NEW c \in Callers, MarkDead(c) \/ CallClose(c) \/ CloseReturns(c) PROVE TypeOK'
  <2>1. pc' \in [Callers -> CallerPCs] /\ cret' \in [Callers -> CallerStates]
    BY <1>7 DEF MarkDead, CallClose, CloseReturns, Goto, CallerPCs, CallerStates
  <2>2. deadErr' \in Results \cup {"nil"} /\ deadMu' \in Callers \cup {Nobody}
    BY <1>7 DEF MarkDead, CallClose, CloseReturns, deadVars
  <2> QED
    BY <1>7, <2>1, <2>2 DEF MarkDead, CallClose, CloseReturns, closeVars
<1>8. ASSUME NEW b \in Bodies, CloseDrains(b) PROVE TypeOK'
  <2>1. \A cut \in {"aligned", "torn"} : LosesPacket(body[b], cut) \in BodyRecords
    BY <1>8, LosesPacketFacts DEF CloseDrains
  <2>2. body' \in [Bodies -> BodyRecords]
    BY <1>8, <2>1 DEF CloseDrains
  <2> QED
    BY <1>8, <2>2 DEF CloseDrains, callVars, deadVars
<1>9. ASSUME NEW b \in Bodies, CloseBody(b) PROVE TypeOK'
  <2>1. Over(body[b], "closed") \in BodyRecords
    BY BodyType
  <2> QED
    BY <1>9, <2>1 DEF CloseBody, callVars, deadVars
<1>10. CASE CloseProbeBody \/ CloseSnapshot \/ CloseFinishes
  BY <1>10 DEF CloseProbeBody, CloseSnapshot, CloseFinishes, callVars, deadVars
<1>11. CASE UNCHANGED vars
  BY <1>11 DEF vars, callVars, deadVars, closeVars
<1> QED
  BY <1>1, <1>2, <1>3, <1>4, <1>5, <1>6, <1>7, <1>8, <1>9, <1>10, <1>11
     DEF Next, CloseStep, Step, CallerChoice

\* A goroutine that starts a call takes the next number; no other step gives
\* or takes one, and a call is entered by no other way.
LEMMA NumberedNext ==
    ASSUME TypeOK, CallsNumbered, [Next]_vars
    PROVE  CallsNumbered'
<1> USE DEF CallsNumbered
<1>1. ASSUME NEW c \in Callers, Call(c) PROVE CallsNumbered'
  <2>1. calls' = calls + 1 /\ calls' <= MaxCalls
    BY <1>1, BoundsAssumption DEF Call, TypeOK
  <2>2. current' = [current EXCEPT ![c] = calls + 1]
    BY <1>1 DEF Call
  <2>3. \A d \in Callers \ {c} : pc'[d] = pc[d] /\ cret'[d] = cret[d] /\ result'[d] = result[d]
    BY <1>1 DEF Call, EndsWith, Goto, TypeOK
  <2> QED
    BY <2>1, <2>2, <2>3 DEF InCall, TypeOK
<1>2. ASSUME UNCHANGED <<calls, current>>,
             \A c \in Callers : InCall(c)' => InCall(c),
             \A c \in Callers : result'[c] = "ok" => result[c] = "ok" \/ InCall(c)
      PROVE  CallsNumbered'
  BY <1>2 DEF TypeOK
<1>3. ASSUME NEW c \in Callers, Step(c) \/ RangeOver(c) \/ Abandon(c) \/ Continue(c) \/ CallClose(c)
      PROVE  /\ UNCHANGED <<calls, current>>
             /\ \A d \in Callers : InCall(d)' => InCall(d)
             /\ \A d \in Callers : result'[d] = "ok" => result[d] = "ok" \/ InCall(d)
  <2>1. UNCHANGED <<calls, current>>
    BY <1>3 DEF Step, CommandFails, PostAnswered, TrackCommandBody, ReadPacket, ReadTorn, ReadEnds,
       NetworkFails, MarkDead, CloseReturns, RangeOver, Abandon, Continue, CallClose, callVars
  <2>2. ASSUME NEW err, Reading(c), DecodeFails(c, err), UNCHANGED cret, err \in DecodeErrs
        PROVE  /\ \A d \in Callers : InCall(d)' => InCall(d)
               /\ \A d \in Callers : result'[d] = "ok" => result[d] = "ok" \/ InCall(d)
    BY <2>2 DEF Reading, DecodeFails, EndsWith, Goto, InCall, TypeOK, CallerPCs, DecodeErrs
  <2>3. CASE ReadTorn(c) \/ ReadEnds(c) \/ NetworkFails(c)
    BY <2>1, <2>2, <2>3 DEF ReadTorn, ReadEnds, NetworkFails, DecodeErrs
  <2>4. CASE ReadPacket(c)
    <3>1. /\ \A d \in Callers \ {c} : pc'[d] = pc[d] /\ cret'[d] = cret[d] /\ result'[d] = result[d]
          /\ InCall(c)
      BY <2>4 DEF ReadPacket, Reading, InCall, CallerPCs, TakePacket, EndsWith, Goto, TypeOK, DecodeFails
    <3> QED
      BY <2>1, <3>1 DEF InCall
  <2>5. CASE ~(ReadTorn(c) \/ ReadEnds(c) \/ NetworkFails(c) \/ ReadPacket(c))
    <3>1. \A d \in Callers : InCall(d)' => InCall(d)
      BY <1>3, <2>5
         DEF Step, CommandFails, PostAnswered, TrackCommandBody, MarkDead, CloseReturns,
             RangeOver, Abandon, Continue, CallClose, callVars, EndsWith, Goto, InCall, TypeOK,
             CallerPCs, CallerStates
    <3>2. \A d \in Callers : result'[d] = "ok" => result[d] = "ok"
      BY <1>3, <2>5
         DEF Step, CommandFails, PostAnswered, TrackCommandBody, MarkDead, CloseReturns,
             RangeOver, Abandon, Continue, CallClose, callVars, EndsWith, TypeOK
    <3> QED
      BY <2>1, <3>1, <3>2
  <2> QED
    BY <2>3, <2>4, <2>5
<1>4. CASE CloseStep \/ UNCHANGED vars
  BY <1>2, <1>4 DEF CloseStep, CloseProbeBody, CloseSnapshot, CloseFinishes, CloseDrains, CloseBody,
     vars, callVars, InCall
<1> QED
  BY <1>1, <1>2, <1>3, <1>4 DEF Next, CallerChoice

\* The variables of an HTTP session keep their types, and two goroutines never
\* share a call.
THEOREM TypeCorrect == Spec => [](TypeOK /\ CallsNumbered)
<1>1. Init => TypeOK /\ CallsNumbered
  <2>1. Init => CallsNumbered
    BY BoundsAssumption DEF Init, CallsNumbered, InCall, CallerPCs
  <2> QED
    BY <2>1, TypeInit
<1>2. TypeOK /\ CallsNumbered /\ [Next]_vars => TypeOK' /\ CallsNumbered'
  BY TypeNext, NumberedNext
<1> QED
  BY <1>1, <1>2, PTL DEF Spec
(***************************************************************************)
(* Death.  The session is marked dead under deadMu, and the mutex is given *)
(* back only with the connection closed: that is what lets an error that   *)
(* has been reported stand for a closed connection.                        *)
(***************************************************************************)
Lost == DecodeErrs \cup {"SessionDead"}

DeathClosed ==
    /\ deadErr # "nil" => kpc = "closed" \/ deadMu # Nobody
    /\ \A c \in Callers : deadMu = c => pc[c] = "close" /\ cret[c] = "idle"
    /\ \A c \in Callers : result[c] \in Lost => pc[c] = "mark" \/ deadMu = c \/ kpc = "closed"

\* What every step but those of Call, MarkDead and CloseReturns does to the
\* state DeathClosed is about.
LEMMA DeathFrame ==
    ASSUME TypeOK, DeathClosed, NEW c \in Callers,
           UNCHANGED deadVars, kpc = "closed" => kpc' = "closed",
           \A d \in Callers \ {c} : pc'[d] = pc[d] /\ cret'[d] = cret[d] /\ result'[d] = result[d],
           deadMu # c,
           result'[c] \in Lost => pc'[c] = "mark" \/ (result'[c] = result[c] /\ pc[c] # "mark")
    PROVE  DeathClosed'
BY DEF DeathClosed, deadVars

\* Every step keeps a dead session closed.
LEMMA DeathNext ==
    ASSUME TypeOK, DeathClosed, [Next]_vars
    PROVE  DeathClosed'
<1> USE NobodyAssumption DEF Lost
<1>1. ASSUME NEW c \in Callers, Call(c) PROVE DeathClosed'
  BY <1>1 DEF Call, EndsWith, Goto, TypeOK, DeathClosed, deadVars, closeVars, DecodeErrs
<1>2. ASSUME NEW c \in Callers, MarkDead(c) PROVE DeathClosed'
  BY <1>2 DEF MarkDead, Goto, TypeOK, DeathClosed, deadVars, closeVars
<1>3. ASSUME NEW c \in Callers, CloseReturns(c) PROVE DeathClosed'
  BY <1>3 DEF CloseReturns, Goto, TypeOK, DeathClosed, closeVars
<1>4. ASSUME NEW c \in Callers, ReadTorn(c) \/ ReadEnds(c) \/ NetworkFails(c) PROVE DeathClosed'
  <2>1. PICK err \in DecodeErrs : DecodeFails(c, err)
    BY <1>4 DEF ReadTorn, ReadEnds, NetworkFails, DecodeErrs
  <2>2. /\ UNCHANGED <<cret, deadVars, closeVars>> /\ deadMu # c
        /\ pc[c] # "mark"
    BY <1>4 DEF ReadTorn, ReadEnds, NetworkFails, Reading, DeathClosed
  <2> QED
    BY <2>1, <2>2, DeathFrame DEF DecodeFails, EndsWith, Goto, TypeOK, closeVars, DecodeErrs
<1>5. ASSUME NEW c \in Callers, ReadPacket(c) PROVE DeathClosed'
  <2>1. UNCHANGED <<cret, deadVars, closeVars>> /\ deadMu # c /\ pc[c] # "mark"
    BY <1>5 DEF ReadPacket, Reading, DeathClosed
  <2>2. PICK pkt : TakePacket(c, pkt)
    BY <1>5 DEF ReadPacket
  <2>3. /\ \A d \in Callers \ {c} : pc'[d] = pc[d] /\ result'[d] = result[d]
        /\ result'[c] \in Lost => pc'[c] = "mark" \/ result'[c] = result[c]
    BY <2>2 DEF TakePacket, DecodeFails, EndsWith, Goto, TypeOK, DecodeErrs
  <2> QED
    BY <2>1, <2>3, DeathFrame DEF closeVars
<1>6. ASSUME NEW c \in Callers,
             \/ CommandFails(c) \/ PostAnswered(c) \/ TrackCommandBody(c)
             \/ RangeOver(c) \/ Abandon(c) \/ Continue(c) \/ CallClose(c)
      PROVE  DeathClosed'
  <2>1. UNCHANGED <<deadVars, closeVars>> /\ deadMu # c /\ pc[c] # "mark"
    BY <1>6 DEF CommandFails, PostAnswered, TrackCommandBody, RangeOver, Abandon, Continue, CallClose,
       DeathClosed
  <2>2. /\ \A d \in Callers \ {c} : pc'[d] = pc[d] /\ cret'[d] = cret[d] /\ result'[d] = result[d]
        /\ result'[c] \in Lost => result'[c] = result[c]
    BY <1>6 DEF CommandFails, PostAnswered, TrackCommandBody, RangeOver, Abandon, Continue, CallClose,
       EndsWith, Goto, callVars, TypeOK, DecodeErrs
  <2> QED
    BY <2>1, <2>2, DeathFrame DEF closeVars
<1>7. CASE CloseStep \/ UNCHANGED vars
  BY <1>7 DEF CloseStep, CloseProbeBody, CloseSnapshot, CloseFinishes, CloseDrains, CloseBody,
     vars, callVars, deadVars, closeVars, DeathClosed
<1> QED
  BY <1>1, <1>2, <1>3, <1>4, <1>5, <1>6, <1>7 DEF Next, Step, CallerChoice

\* A goroutine that is told that its call or the session is lost finds the
\* connection closed, whichever goroutine met the error and closed it: the
\* mutex of markDead is held until Conn.Close has returned.
THEOREM ErrorMeansClosedHolds == Spec => []ErrorMeansClosed
<1>1. Init => DeathClosed
  BY NobodyAssumption DEF Init, DeathClosed, DecodeErrs, Lost
<1>2. TypeOK /\ DeathClosed /\ [Next]_vars => DeathClosed'
  BY DeathNext
<1>3. DeathClosed => ErrorMeansClosed
  BY DEF DeathClosed, ErrorMeansClosed, Lost
<1> QED
  BY <1>1, <1>2, <1>3, TypeCorrect, PTL DEF Spec

(***************************************************************************)
(* Tracking.  Close replaces what it has taken over by the tracked set, so *)
(* nothing may be left of an earlier snapshot when it does.                *)
(***************************************************************************)
BodiesKnown ==
    /\ kpc # "bodies" => snap = {}
    /\ OpenBodiesTracked

\* A body is known to the connection, to Close or to the call that received it.
Known(b) == b \in inflight \cup snap \/ \E c \in Callers : pc[c] = "track" /\ current[c] = b

\* Every step keeps open bodies tracked, or in the hands of Close.
LEMMA BodiesNext ==
    ASSUME TypeOK, CallsNumbered, BodiesKnown, [Next]_vars
    PROVE  BodiesKnown'
<1>0. \A b \in Bodies : body[b].state = "open" => Known(b)
  BY DEF BodiesKnown, OpenBodiesTracked, Known
<1>s. SUFFICES /\ (kpc # "bodies" => snap = {})'
               /\ \A b \in Bodies : body'[b].state = "open" => Known(b)'
  BY DEF BodiesKnown, OpenBodiesTracked, Known
<1>k. (kpc # "bodies" => snap = {})'
  <2>1. CASE CloseStep
    BY <2>1 DEF BodiesKnown, CloseStep, CloseProbeBody, CloseSnapshot, CloseFinishes, CloseDrains, CloseBody
  <2>2. CASE UNCHANGED closeVars
    BY <2>2 DEF closeVars, BodiesKnown
  <2> QED
    BY <2>1, <2>2 DEF Next, vars, Step, CallerChoice, Call, CommandFails, PostAnswered, TrackCommandBody,
       RangeOver, Abandon, Continue, ReadPacket, ReadTorn, ReadEnds, NetworkFails, MarkDead, CallClose,
       CloseReturns
\* A step that leaves the bodies and both sets alone, of a goroutine that is
\* not about to track one.
<1>f. ASSUME UNCHANGED <<body, inflight, snap>>,
             \A c \in Callers : pc[c] = "track" => pc'[c] = "track" /\ current'[c] = current[c]
      PROVE  \A b \in Bodies : body'[b].state = "open" => Known(b)'
  BY <1>0, <1>f DEF Known
<1>1. ASSUME NEW c \in Callers, Call(c) \/ CommandFails(c) \/ RangeOver(c) \/ Abandon(c) \/ Continue(c)
                                \/ ReadTorn(c) \/ MarkDead(c) \/ CallClose(c) \/ CloseReturns(c)
      PROVE  \A b \in Bodies : body'[b].state = "open" => Known(b)'
  <2>1. UNCHANGED <<body, inflight, snap>>
    BY <1>1 DEF Call, CommandFails, RangeOver, Abandon, Continue, ReadTorn, MarkDead, CallClose,
                CloseReturns, closeVars
  <2>2. pc[c] # "track"
    BY <1>1 DEF Call, CommandFails, RangeOver, Abandon, Continue, ReadTorn, Reading, MarkDead, CallClose,
                CloseReturns
  <2>3. \A d \in Callers \ {c} : pc'[d] = pc[d] /\ current'[d] = current[d]
    BY <1>1 DEF Call, CommandFails, RangeOver, Abandon, Continue, ReadTorn, MarkDead, CallClose,
                CloseReturns, DecodeFails, EndsWith, Goto, callVars, TypeOK
  <2> QED
    BY <1>f, <2>1, <2>2, <2>3
<1>2. ASSUME NEW c \in Callers, PostAnswered(c)
      PROVE  \A b \in Bodies : body'[b].state = "open" => Known(b)'
  <2>1. PICK r : body' = [body EXCEPT ![current[c]] = r]
    BY <1>2 DEF PostAnswered
  <2>2. pc'[c] = "track" /\ \A d \in Callers : pc[d] = "track" => pc'[d] = "track"
    BY <1>2 DEF PostAnswered, Goto, TypeOK
  <2>3. UNCHANGED <<current, inflight, snap>>
    BY <1>2 DEF PostAnswered, callVars, closeVars
  <2> QED
    BY <1>0, <2>1, <2>2, <2>3 DEF Known, TypeOK
<1>3. ASSUME NEW c \in Callers, TrackCommandBody(c)
      PROVE  \A b \in Bodies : body'[b].state = "open" => Known(b)'
  <2>1. /\ UNCHANGED <<current, body, snap>> /\ inflight' = inflight \cup {current[c]}
        /\ \A d \in Callers \ {c} : pc'[d] = pc[d]
    BY <1>3 DEF TrackCommandBody, callVars, closeVars, TypeOK
  <2> QED
    BY <1>0, <2>1 DEF Known
<1>4. ASSUME NEW c \in Callers, ReadPacket(c) \/ ReadEnds(c) \/ NetworkFails(c)
      PROVE  \A b \in Bodies : body'[b].state = "open" => Known(b)'
  <2>1. UNCHANGED <<current, snap>> /\ pc[c] # "track"
    BY <1>4 DEF ReadPacket, ReadEnds, NetworkFails, Reading, closeVars
  <2>2. \A d \in Callers \ {c} : pc'[d] = pc[d]
    BY <1>4 DEF ReadPacket, TakePacket, ReadEnds, NetworkFails, DecodeFails, EndsWith, Goto, TypeOK
  <2>3. current[c] \in Bodies
    BY <1>4, CallHasBody DEF ReadPacket, ReadEnds, NetworkFails, Reading, InCall, CallerPCs
  <2>4. \A b \in Bodies \ {current[c]} : body'[b] = body[b] /\ (b \in inflight' <=> b \in inflight)
    BY <1>4 DEF ReadPacket, ReadEnds, NetworkFails, TypeOK
  <2>5. body'[current[c]].state = "open" => body[current[c]].state = "open" /\ inflight' = inflight
    <3>1. body[current[c]] \in BodyRecords
      BY <2>3 DEF TypeOK
    <3>2. Over(body[current[c]], "ended").state = "ended"
      BY <3>1, BodyType
    <3>3. CASE ReadPacket(c)
      BY <2>3, <3>1, <3>3, BodyType DEF ReadPacket, MyBody, TypeOK
    <3>4. CASE ReadEnds(c) \/ NetworkFails(c)
      BY <2>3, <3>2, <3>4 DEF ReadEnds, NetworkFails, MyBody, TypeOK
    <3> QED
      BY <1>4, <3>3, <3>4
  <2> QED
    BY <1>0, <2>1, <2>2, <2>4, <2>5 DEF Known
<1>5. ASSUME NEW x \in Bodies, CloseDrains(x) \/ CloseBody(x)
      PROVE  \A b \in Bodies : body'[b].state = "open" => Known(b)'
  <2>1. UNCHANGED <<pc, current, inflight>> /\ x \in snap
    BY <1>5 DEF CloseDrains, CloseBody, callVars
  <2>2. \A b \in Bodies \ {x} : body'[b] = body[b] /\ (b \in snap' <=> b \in snap)
    BY <1>5 DEF CloseDrains, CloseBody, TypeOK
  <2>3. body'[x].state = "open" => snap' = snap
    <3>1. Over(body[x], "closed").state = "closed"
      BY BodyType DEF TypeOK
    <3> QED
      BY <1>5, <3>1 DEF CloseDrains, CloseBody, TypeOK
  <2> QED
    BY <1>0, <2>1, <2>2, <2>3 DEF Known
<1>6. CASE CloseProbeBody \/ CloseFinishes \/ UNCHANGED vars
  BY <1>f, <1>k, <1>6 DEF CloseProbeBody, CloseFinishes, vars, callVars, closeVars
<1>7. CASE CloseSnapshot
  BY <1>0, <1>k, <1>7 DEF CloseSnapshot, Known, BodiesKnown, callVars
<1> QED
  BY <1>k, <1>1, <1>2, <1>3, <1>4, <1>5, <1>6, <1>7 DEF Next, CloseStep, Step, CallerChoice

\* No open response body gets out of sight, and Close is over only when it has
\* dealt with its snapshot, however it interleaves with the calls: what is open
\* then was tracked later, or is still in the hands of its call.
THEOREM OpenBodiesTrackedHolds == Spec => []OpenBodiesTracked
<1>1. Init => BodiesKnown
  BY DEF Init, BodiesKnown, OpenBodiesTracked, NoBody
<1>2. TypeOK /\ CallsNumbered /\ BodiesKnown /\ [Next]_vars => BodiesKnown'
  BY BodiesNext
<1>3. BodiesKnown => OpenBodiesTracked
  BY DEF BodiesKnown
<1> QED
  BY <1>1, <1>2, <1>3, TypeCorrect, PTL DEF Spec
(***************************************************************************)
(* Completeness.  While nothing has been cut out of a body, what a call    *)
(* has delivered and what is left of the body are together the response,   *)
(* with at most one packet that is no ref line, the last one.              *)
(***************************************************************************)
\* The call of c is reading, or will read, its response from the beginning.
Streaming(c) == pc[c] \in {"track", "iter", "read", "decode", "yield"} \/ cret[c] # "idle"

Aligned(c) ==
    /\ got[c] = Lines(Len(got[c]))
    /\ MyBody(c).size = Len(got[c]) + Len(MyBody(c).left)
    /\ \A i \in 1..Len(MyBody(c).left) :
          /\ MyBody(c).left[i].kind = "line" => MyBody(c).left[i] = Packet("line", Len(got[c]) + i)
          /\ MyBody(c).left[i].kind # "line" => i = Len(MyBody(c).left)

\* The parts of the invariant that are about one goroutine.
InOrder(c) ==
    /\ cret[c] # "idle" => pc[c] = "close"
    /\ InCall(c) => result[c] # "ok"
    /\ pc[c] = "post" => got[c] = <<>>
    /\ Streaming(c) /\ MyBody(c).state = "open" /\ MyBody(c).cut = "no" => Aligned(c)
    /\ result[c] = "ok" /\ MyBody(c).cut = "no" => got[c] = Lines(MyBody(c).size - 1)

ReadInOrder == \A c \in Callers : InOrder(c)

\* No lines are the empty sequence.
LEMMA NoLines == Lines(0) = <<>>
<1>1. Lines(0) \in Seq(Packets) /\ Len(Lines(0)) = 0
  BY LinesType
<1> QED
  BY <1>1

\* One more line in its place is one more line.
LEMMA OneMoreLine ==
    ASSUME NEW n \in Nat
    PROVE  Append(Lines(n), Packet("line", n + 1)) = Lines(n + 1)
<1>1. PICK p : p = Packet("line", n + 1)
  OBVIOUS
<1>2. p \in Packets
  BY <1>1 DEF Packet, Packets
<1>3. PICK l : l = Lines(n)
  OBVIOUS
<1>4. PICK m : m = Lines(n + 1)
  OBVIOUS
<1>5. /\ l \in Seq(Packets) /\ Len(l) = n /\ \A i \in 1..n : l[i] = Packet("line", i)
      /\ m \in Seq(Packets) /\ Len(m) = n + 1 /\ \A i \in 1..(n + 1) : m[i] = Packet("line", i)
  BY <1>3, <1>4, LinesType
<1>6. /\ Append(l, p) \in Seq(Packets) /\ Len(Append(l, p)) = n + 1
      /\ \A i \in 1..n : Append(l, p)[i] = l[i] /\ Append(l, p)[n + 1] = p
  BY <1>2, <1>5, AppendProperties
<1>7. Append(l, p)[n + 1] = p
  BY <1>2, <1>5, AppendProperties
<1>8. \A i \in 1..(n + 1) : Append(l, p)[i] = m[i]
  <2> SUFFICES ASSUME NEW i \in 1..(n + 1) PROVE Append(l, p)[i] = m[i]
    OBVIOUS
  <2>1. CASE i = n + 1
    BY <1>1, <1>5, <1>7, <2>1
  <2>2. CASE i # n + 1
    <3>1. i \in 1..n
      BY <2>2
    <3> QED
      BY <1>5, <1>6, <3>1
  <2> QED
    BY <2>1, <2>2
<1>9. Append(l, p) = m
  BY <1>5, <1>6, <1>8, SeqEqual
<1> QED
  BY <1>1, <1>3, <1>4, <1>9

\* A goroutine whose own variables do not change, and whose body only loses
\* what makes the invariant say something of it.
LEMMA OrderFrame ==
    ASSUME TypeOK, NEW c \in Callers, InOrder(c),
           pc'[c] = pc[c], cret'[c] = cret[c], current'[c] = current[c],
           got'[c] = got[c], result'[c] = result[c],
           \/ body'[current[c]] = body[current[c]]
           \/ ~InCall(c) /\ result[c] # "ok"
           \/ body'[current[c]].cut # "no"
           \/ /\ body'[current[c]].state # "open"
              /\ body'[current[c]].size = body[current[c]].size
              /\ body'[current[c]].cut = body[current[c]].cut
    PROVE  InOrder(c)'
<1>1. MyBody(c)' = body'[current[c]] /\ MyBody(c) = body[current[c]]
  BY DEF MyBody
<1>2. Streaming(c) => InCall(c)
  BY DEF Streaming, InCall, CallerPCs
<1>3. (Streaming(c)' <=> Streaming(c)) /\ (InCall(c)' <=> InCall(c))
  BY DEF Streaming, InCall
<1>4. MyBody(c)' = MyBody(c) => (Aligned(c)' <=> Aligned(c))
  BY DEF Aligned
<1> QED
  BY <1>1, <1>2, <1>3, <1>4 DEF InOrder

\* A step of c leaves the order of the others alone when it touches no body
\* but its own.
LEMMA OthersFrame ==
    ASSUME TypeOK, CallsNumbered, ReadInOrder, NEW c \in Callers, NEW d \in Callers, d # c,
           pc'[d] = pc[d], cret'[d] = cret[d], current'[d] = current[d],
           got'[d] = got[d], result'[d] = result[d], current[c] # 0,
           \A b \in Bodies \ {current[c]} : body'[b] = body[b]
    PROVE  InOrder(d)'
<1>1. InOrder(d)
  BY DEF ReadInOrder
<1>2. CASE InCall(d) \/ result[d] = "ok"
  <2>1. current[d] \in Bodies
    BY <1>2, CallHasBody
  <2>2. current[d] # current[c]
    BY DEF CallsNumbered
  <2> QED
    BY <1>1, <2>1, <2>2, OrderFrame
<1>3. CASE ~(InCall(d) \/ result[d] = "ok")
  BY <1>1, <1>3, OrderFrame
<1> QED
  BY <1>2, <1>3
\* A step of c that touches no body and delivers nothing.
LEMMA OwnFrame ==
    ASSUME TypeOK, ReadInOrder, NEW c \in Callers, UNCHANGED <<body, current, got>>,
           \A d \in Callers \ {c} : pc'[d] = pc[d] /\ cret'[d] = cret[d] /\ result'[d] = result[d],
           cret'[c] # "idle" => pc'[c] = "close",
           InCall(c)' => result'[c] # "ok",
           pc'[c] # "post",
           Streaming(c)' => Streaming(c),
           result'[c] = "ok" => result[c] = "ok"
    PROVE  ReadInOrder'
<1>1. \A d \in Callers \ {c} : InOrder(d)'
  BY OrderFrame DEF ReadInOrder
<1>2. InOrder(c)'
  BY DEF ReadInOrder, InOrder, Aligned, MyBody
<1> QED
  BY <1>1, <1>2 DEF ReadInOrder

\* What is left after a packet has been taken is in place behind it.
LEMMA TakeAligned ==
    ASSUME TypeOK, NEW c \in Callers, current[c] \in Bodies, Aligned(c),
           MyBody(c).left # <<>>, UNCHANGED current,
           body'[current[c]] = AfterTake(MyBody(c)),
           body'[current[c]].state # "ended",
           Head(MyBody(c).left).kind = "line",
           got'[c] = Append(got[c], Head(MyBody(c).left))
    PROVE  Aligned(c)'
<1>1. PICK l, g, h, z : l = MyBody(c).left /\ g = got[c] /\ h = Head(l) /\ z = MyBody(c).size
  OBVIOUS
<1>2. /\ l \in Seq(Packets) /\ l # <<>> /\ g \in Seq(Packets) /\ MyBody(c) \in BodyRecords
      /\ z \in Nat
  BY <1>1 DEF TypeOK, MyBody, BodyRecords
<1>3. h = l[1] /\ Len(l) \in Nat /\ Len(l) >= 1 /\ Len(g) \in Nat /\ h \in Packets
  BY <1>1, <1>2
<1>4. /\ g = Lines(Len(g)) /\ z = Len(g) + Len(l)
      /\ \A i \in 1..Len(l) : /\ l[i].kind = "line" => l[i] = Packet("line", Len(g) + i)
                              /\ l[i].kind # "line" => i = Len(l)
  BY <1>1, Zenon DEF Aligned
<1>5. h = Packet("line", Len(g) + 1)
  BY <1>1, <1>3, <1>4
<1>6. PICK m : m = got'[c]
  OBVIOUS
<1>7. m = Lines(Len(g) + 1)
  BY <1>1, <1>3, <1>4, <1>5, <1>6, OneMoreLine
<1>8. Len(m) = Len(g) + 1
  <2>1. Len(g) + 1 \in Nat
    BY <1>3
  <2>2. Len(Lines(Len(g) + 1)) = Len(g) + 1
    BY <2>1, LinesType, Zenon
  <2> QED
    BY <1>7, <2>2, Zenon
<1>9. MyBody(c)' = AfterTake(MyBody(c))
  BY DEF MyBody
<1>10. MyBody(c)'.left = Tail(l) /\ MyBody(c)'.size = z
  BY <1>1, <1>2, <1>9, BodyType
<1>11. PICK k : k = Tail(l)
  OBVIOUS
<1>12. k \in Seq(Packets) /\ Len(k) = Len(l) - 1 /\ \A i \in 1..Len(k) : k[i] = l[i + 1]
  BY <1>2, <1>11, HeadTailProperties
<1>13. z = Len(m) + Len(k)
  BY <1>3, <1>4, <1>8, <1>12
<1>14. ASSUME NEW i \in 1..Len(k)
       PROVE  /\ k[i].kind = "line" => k[i] = Packet("line", Len(m) + i)
              /\ k[i].kind # "line" => i = Len(k)
  <2>1. i + 1 \in 1..Len(l) /\ k[i] = l[i + 1]
    BY <1>3, <1>12
  <2>2. Len(m) + i = Len(g) + (i + 1)
    BY <1>3, <1>8
  <2>3. i + 1 = Len(l) => i = Len(k)
    BY <1>3, <1>12
  <2> QED
    BY <1>4, <2>1, <2>2, <2>3
<1>15. m = Lines(Len(m))
  BY <1>7, <1>8
<1> QED
  BY <1>6, <1>10, <1>11, <1>13, <1>14, <1>15 DEF Aligned

\* The packet that is no ref line is the last: everything before it has been
\* delivered.
LEMMA FlushIsLast ==
    ASSUME TypeOK, NEW c \in Callers, current[c] \in Bodies, Aligned(c),
           MyBody(c).left # <<>>, Head(MyBody(c).left).kind # "line"
    PROVE  got[c] = Lines(MyBody(c).size - 1)
<1>1. PICK l, g, z : l = MyBody(c).left /\ g = got[c] /\ z = MyBody(c).size
  OBVIOUS
<1>2. l \in Seq(Packets) /\ l # <<>> /\ g \in Seq(Packets)
  BY <1>1 DEF TypeOK, MyBody, BodyRecords
<1>3. Head(l) = l[1] /\ Len(l) \in Nat /\ Len(l) >= 1 /\ Len(g) \in Nat
  BY <1>2
<1>4. /\ g = Lines(Len(g)) /\ z = Len(g) + Len(l)
      /\ \A i \in 1..Len(l) : l[i].kind # "line" => i = Len(l)
  BY <1>1, Zenon DEF Aligned
<1>5. Len(l) = 1
  <2>1. 1 \in 1..Len(l)
    BY <1>3
  <2>2. l[1].kind # "line"
    BY <1>1, <1>3, Zenon
  <2> QED
    BY <1>4, <2>1, <2>2, Zenon
<1>6. z - 1 = Len(g)
  <2>1. z = Len(g) + 1
    BY <1>4, <1>5, Zenon
  <2> QED
    BY <1>3, <2>1
<1> QED
  BY <1>1, <1>4, <1>6

\* A fresh response is in place: nothing has been delivered of it.
LEMMA AnsweredAligned ==
    ASSUME TypeOK, NEW c \in Callers, NEW s \in Streams, NEW eager \in BOOLEAN,
           UNCHANGED <<current, got>>, got[c] = <<>>,
           body'[current[c]] = BodyOf(s, eager)
    PROVE  Aligned(c)'
<1>1. /\ MyBody(c)'.left = s /\ MyBody(c)'.size = Len(s) /\ got'[c] = <<>>
  BY DEF MyBody, BodyOf
<1>2. s \in Seq(Packets) /\ Len(s) \in Nat
  BY StreamFacts
<1>3. Len(got'[c]) = 0
  BY <1>1
<1>4. got'[c] = Lines(Len(got'[c]))
  BY <1>1, <1>3, NoLines
<1>5. ASSUME NEW i \in 1..Len(s)
      PROVE  /\ s[i].kind = "line" => s[i] = Packet("line", Len(got'[c]) + i)
             /\ s[i].kind # "line" => i = Len(s)
  <2>1. Len(got'[c]) + i = i
    BY <1>2, <1>3
  <2> QED
    BY <2>1, StreamFacts
<1> QED
  BY <1>1, <1>2, <1>3, <1>4, <1>5 DEF Aligned

\* Every step keeps the packets of a response in order.
LEMMA OrderNext ==
    ASSUME TypeOK, CallsNumbered, ReadInOrder, [Next]_vars
    PROVE  ReadInOrder'
<1>0. \A c \in Callers : InOrder(c)
  BY DEF ReadInOrder
<1>1. ASSUME NEW c \in Callers, Call(c) PROVE ReadInOrder'
  <2>1. \A d \in Callers \ {c} : InOrder(d)'
    BY <1>0, <1>1, OrderFrame DEF Call, EndsWith, Goto, TypeOK
  <2>2. cret[c] = "idle" /\ cret' = cret
    BY <1>0, <1>1 DEF Call, InOrder
  <2>3. pc'[c] \in {"idle", "post"} /\ got'[c] = <<>> /\ result'[c] # "ok"
    BY <1>1 DEF Call, EndsWith, Goto, TypeOK
  <2> QED
    BY <2>1, <2>2, <2>3 DEF ReadInOrder, InOrder, Streaming
<1>2. ASSUME NEW c \in Callers, CommandFails(c) \/ TrackCommandBody(c) \/ RangeOver(c) \/ Abandon(c)
                                \/ Continue(c) \/ MarkDead(c)
      PROVE  ReadInOrder'
  <2>1. UNCHANGED <<body, current, got>>
    BY <1>2 DEF CommandFails, TrackCommandBody, RangeOver, Abandon, Continue, MarkDead, callVars
  <2>2. /\ pc[c] \in {"post", "track", "iter", "yield", "mark"} /\ cret[c] = "idle" /\ result[c] # "ok"
    BY <1>0, <1>2 DEF CommandFails, TrackCommandBody, RangeOver, Abandon, Continue, MarkDead,
       InOrder, InCall, CallerPCs
  <2>3. /\ \A d \in Callers \ {c} : pc'[d] = pc[d] /\ cret'[d] = cret[d] /\ result'[d] = result[d]
        /\ result'[c] # "ok" /\ cret'[c] = "idle" /\ pc'[c] # "post"
        /\ Streaming(c)' => Streaming(c)
    BY <1>2, <2>2 DEF CommandFails, TrackCommandBody, RangeOver, Abandon, Continue, MarkDead, callVars,
       EndsWith, Goto, Streaming, TypeOK
  <2> QED
    BY <2>1, <2>3, OwnFrame
<1>3. ASSUME NEW c \in Callers, CallClose(c) PROVE ReadInOrder'
  <2>1. UNCHANGED <<body, current, got, result>>
    BY <1>3 DEF CallClose
  <2>2. /\ \A d \in Callers \ {c} : pc'[d] = pc[d] /\ cret'[d] = cret[d]
        /\ pc'[c] = "close" /\ cret'[c] = pc[c] /\ pc[c] \in {"idle", "iter", "yield"}
    BY <1>3 DEF CallClose, Goto, TypeOK
  <2>3. InCall(c)' => InCall(c)
    BY <2>2 DEF InCall, CallerPCs
  <2>4. Streaming(c)' => Streaming(c)
    BY <2>2 DEF Streaming
  <2> QED
    BY <1>0, <2>1, <2>2, <2>3, <2>4, OwnFrame DEF InOrder
<1>4. ASSUME NEW c \in Callers, CloseReturns(c) PROVE ReadInOrder'
  <2>1. UNCHANGED <<body, current, got, result>>
    BY <1>4 DEF CloseReturns
  <2>2. /\ \A d \in Callers \ {c} : pc'[d] = pc[d] /\ cret'[d] = cret[d]
        /\ pc'[c] = cret[c] /\ cret'[c] = "idle" /\ cret[c] \in {"idle", "iter", "yield"}
    BY <1>4 DEF CloseReturns, Goto, TypeOK, CallerStates
  <2>3. InCall(c)' => InCall(c)
    BY <2>2 DEF InCall, CallerPCs
  <2>4. Streaming(c)' => Streaming(c)
    BY <2>2 DEF Streaming
  <2> QED
    BY <1>0, <2>1, <2>2, <2>3, <2>4, OwnFrame DEF InOrder
<1>5. ASSUME NEW c \in Callers, PostAnswered(c) PROVE ReadInOrder'
  <2>1. PICK s \in Streams, eager \in BOOLEAN :
          body' = [body EXCEPT ![current[c]] = IF s = <<>> /\ eager THEN Over(BodyOf(s, eager), "ended")
                                               ELSE BodyOf(s, eager)]
    BY <1>5 DEF PostAnswered
  <2>2. InCall(c) /\ current[c] \in Bodies /\ got[c] = <<>> /\ result[c] # "ok" /\ cret[c] = "idle"
    BY <1>0, <1>5, CallHasBody DEF PostAnswered, InCall, CallerPCs, InOrder
  <2>3. /\ \A d \in Callers \ {c} : pc'[d] = pc[d]
        /\ pc'[c] = "track" /\ UNCHANGED <<cret, current, got, result>>
    BY <1>5 DEF PostAnswered, Goto, callVars, TypeOK
  <2>4. \A b \in Bodies \ {current[c]} : body'[b] = body[b]
    BY <2>1 DEF TypeOK
  <2>5. \A d \in Callers \ {c} : InOrder(d)'
    BY <2>2, <2>3, <2>4, OthersFrame DEF Bodies
  <2>6. MyBody(c)'.state = "open" => Aligned(c)'
    <3>1. Over(BodyOf(s, eager), "ended").state = "ended"
      BY AnsweredType, BodyType
    <3>2. CASE s = <<>> /\ eager
      BY <2>1, <2>2, <2>3, <3>1, <3>2 DEF MyBody, TypeOK
    <3>3. CASE ~(s = <<>> /\ eager)
      BY <2>1, <2>2, <2>3, <3>3, AnsweredAligned DEF TypeOK
    <3> QED
      BY <3>2, <3>3
  <2>7. InOrder(c)'
    BY <2>2, <2>3, <2>6 DEF InOrder, InCall
  <2> QED
    BY <2>5, <2>7 DEF ReadInOrder
<1>6. ASSUME NEW c \in Callers, ReadTorn(c) \/ ReadEnds(c) \/ NetworkFails(c) PROVE ReadInOrder'
  <2>1. PICK err \in DecodeErrs : DecodeFails(c, err)
    BY <1>6 DEF ReadTorn, ReadEnds, NetworkFails, DecodeErrs
  <2>2. InCall(c) /\ current[c] \in Bodies /\ cret[c] = "idle" /\ UNCHANGED <<cret, current, got>>
    BY <1>0, <1>6, CallHasBody DEF ReadTorn, ReadEnds, NetworkFails, Reading, InCall, CallerPCs, InOrder
  <2>3. /\ \A d \in Callers \ {c} : pc'[d] = pc[d] /\ result'[d] = result[d]
        /\ pc'[c] \in {"idle", "mark"} /\ result'[c] # "ok"
    BY <2>1 DEF DecodeFails, EndsWith, Goto, DecodeErrs, TypeOK
  <2>4. \A b \in Bodies \ {current[c]} : body'[b] = body[b]
    BY <1>6 DEF ReadTorn, ReadEnds, NetworkFails, TypeOK
  <2>5. \A d \in Callers \ {c} : InOrder(d)'
    BY <2>2, <2>3, <2>4, OthersFrame DEF Bodies
  <2>6. InOrder(c)'
    BY <2>2, <2>3 DEF InOrder, Streaming
  <2> QED
    BY <2>5, <2>6 DEF ReadInOrder
<1>7. ASSUME NEW c \in Callers, ReadPacket(c) PROVE ReadInOrder'
  <2>1. InCall(c) /\ current[c] \in Bodies /\ cret[c] = "idle" /\ UNCHANGED <<cret, current>>
    BY <1>0, <1>7, CallHasBody DEF ReadPacket, Reading, InCall, CallerPCs, InOrder
  <2>2. result[c] # "ok"
    BY <1>0, <2>1 DEF InOrder
  <2>3. /\ MyBody(c) \in BodyRecords /\ MyBody(c).left # <<>> /\ MyBody(c).state = "open"
        /\ body'[current[c]] = AfterTake(MyBody(c))
        /\ \A b \in Bodies \ {current[c]} : body'[b] = body[b]
    BY <1>7, <2>1 DEF ReadPacket, MyBody, TypeOK
  <2>4. MyBody(c)' = AfterTake(MyBody(c))
    BY <2>1, <2>3 DEF MyBody
  <2>5. PICK pkt : pkt = Head(MyBody(c).left)
    OBVIOUS
  <2>6. TakePacket(c, pkt) /\ Reading(c)
    BY <1>7, <2>5 DEF ReadPacket
  <2>7. \A d \in Callers \ {c} : pc'[d] = pc[d] /\ result'[d] = result[d] /\ got'[d] = got[d]
    BY <2>6 DEF TakePacket, DecodeFails, EndsWith, Goto, TypeOK
  <2>8. \A d \in Callers \ {c} : InOrder(d)'
    BY <2>1, <2>3, <2>7, OthersFrame DEF Bodies
  <2>9. CASE pkt.kind = "line"
    <3>1. /\ pc'[c] \in {"yield", "decode", "drain"} /\ result'[c] # "ok"
          /\ pc'[c] = "drain" <=> pc[c] = "drain"
          /\ pc[c] # "drain" => got'[c] = Append(got[c], pkt)
      BY <2>2, <2>6, <2>9 DEF TakePacket, Reading, Goto, TypeOK
    <3>2. Streaming(c)' /\ MyBody(c)'.state = "open" /\ MyBody(c)'.cut = "no" => Aligned(c)'
      <4>1. ASSUME Streaming(c)', MyBody(c)'.state = "open", MyBody(c)'.cut = "no" PROVE Aligned(c)'
        <5>1. pc'[c] # "drain"
          BY <2>1, <4>1 DEF Streaming
        <5>2. Streaming(c)
          BY <2>6, <3>1, <5>1 DEF Streaming, Reading
        <5>3. MyBody(c).cut = "no"
          BY <2>3, <2>4, <4>1, BodyType
        <5>4. Aligned(c)
          BY <1>0, <2>3, <5>2, <5>3 DEF InOrder
        <5>5. body'[current[c]].state # "ended"
          BY <2>3, <2>4, <4>1
        <5> QED
          BY <2>1, <2>3, <2>5, <2>9, <3>1, <5>1, <5>4, <5>5, TakeAligned
      <4> QED
        BY <4>1
    <3>3. InOrder(c)'
      BY <2>1, <3>1, <3>2 DEF InOrder
    <3> QED
      BY <2>8, <3>3 DEF ReadInOrder
  <2>10. CASE pkt.kind # "line"
    <3>1. /\ \/ pc'[c] \in {"idle", "mark"}
             \/ pc'[c] = "drain" /\ result'[c] = result[c]
          /\ result'[c] = "ok" => pc[c] # "drain" /\ pkt.kind = "flush" /\ pc'[c] = "idle"
          /\ got'[c] = got[c]
      BY <2>2, <2>6, <2>10 DEF TakePacket, DecodeFails, EndsWith, Goto, TypeOK
    <3>2. result'[c] = "ok" /\ MyBody(c)'.cut = "no" => got'[c] = Lines(MyBody(c)'.size - 1)
      <4>1. ASSUME result'[c] = "ok", MyBody(c)'.cut = "no" PROVE got'[c] = Lines(MyBody(c)'.size - 1)
        <5>1. Streaming(c)
          BY <2>6, <3>1, <4>1 DEF Streaming, Reading
        <5>2. MyBody(c).cut = "no" /\ MyBody(c)'.size = MyBody(c).size
          BY <2>3, <2>4, <4>1, BodyType
        <5>3. Aligned(c)
          BY <1>0, <2>3, <5>1, <5>2 DEF InOrder
        <5> QED
          BY <2>1, <2>3, <2>5, <2>10, <3>1, <5>2, <5>3, FlushIsLast
      <4> QED
        BY <4>1
    <3>3. InCall(c)' => result'[c] # "ok"
      BY <2>1, <3>1 DEF InCall, CallerPCs
    <3>4. InOrder(c)'
      BY <2>1, <3>1, <3>2, <3>3 DEF InOrder, Streaming
    <3> QED
      BY <2>8, <3>4 DEF ReadInOrder
  <2> QED
    BY <2>9, <2>10
<1>8. ASSUME NEW b \in Bodies, CloseDrains(b) \/ CloseBody(b) PROVE ReadInOrder'
  <2>1. UNCHANGED <<pc, cret, current, got, result>>
    BY <1>8 DEF CloseDrains, CloseBody, callVars
  <2>2. body[b] \in BodyRecords /\ \A x \in Bodies \ {b} : body'[x] = body[x]
    BY <1>8 DEF CloseDrains, CloseBody, TypeOK
  <2>3. \/ body'[b].cut # "no"
        \/ body'[b].state # "open" /\ body'[b].size = body[b].size /\ body'[b].cut = body[b].cut
    <3>1. CASE CloseDrains(b)
      BY <2>2, <3>1, LosesPacketFacts DEF CloseDrains, TypeOK
    <3>2. CASE CloseBody(b)
      BY <2>2, <3>2, BodyType DEF CloseBody, TypeOK
    <3> QED
      BY <1>8, <3>1, <3>2
  <2>4. ASSUME NEW c \in Callers PROVE InOrder(c)'
    <3>1. CASE InCall(c) \/ result[c] = "ok"
      <4>1. current[c] \in Bodies
        BY <3>1, CallHasBody
      <4> QED
        BY <1>0, <2>1, <2>2, <2>3, <4>1, OrderFrame
    <3>2. CASE ~(InCall(c) \/ result[c] = "ok")
      BY <1>0, <2>1, <3>2, OrderFrame
    <3> QED
      BY <3>1, <3>2
  <2> QED
    BY <2>4 DEF ReadInOrder
<1>9. CASE CloseProbeBody \/ CloseSnapshot \/ CloseFinishes \/ UNCHANGED vars
  <2>1. UNCHANGED <<pc, cret, current, got, result, body>>
    BY <1>9 DEF CloseProbeBody, CloseSnapshot, CloseFinishes, vars, callVars
  <2> QED
    BY <1>0, <2>1, OrderFrame DEF ReadInOrder
<1> QED
  BY <1>1, <1>2, <1>3, <1>4, <1>5, <1>6, <1>7, <1>8, <1>9 DEF Next, CloseStep, Step, CallerChoice

\* A call that ends without an error has delivered every ref line of its
\* response in order, whatever other goroutines do, as long as Close has not
\* read from the same body.
THEOREM OkMeansCompleteHolds == Spec => []OkMeansComplete
<1>1. Init => ReadInOrder
  BY DEF Init, ReadInOrder, InOrder, InCall, CallerPCs, Streaming
<1>2. TypeOK /\ CallsNumbered /\ ReadInOrder /\ [Next]_vars => ReadInOrder'
  BY OrderNext
<1>3. ReadInOrder => OkMeansComplete
  BY DEF ReadInOrder, InOrder, OkMeansComplete
<1> QED
  BY <1>1, <1>2, <1>3, TypeCorrect, PTL DEF Spec
============================================================================
