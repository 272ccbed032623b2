---------------------------- MODULE DialProofs ----------------------------
(***************************************************************************)
(* Theorems about Dial and the one-shot helpers over all four transports,  *)
(* for every redirect limit, number of commands and order of answers,      *)
(* failures and cancellations.                                             *)
(***************************************************************************)
EXTENDS Dial, TLAPS

(***************************************************************************)
(* The HTTP transport.  Bodies are numbered by the operation they answer,  *)
(* so that closing the one in hand never closes another: the probe's are 0 *)
(* and 1, a command's at least 2, and a request in progress is newer than  *)
(* everything the connection tracks.                                       *)
(***************************************************************************)
ProbeTypeOK ==
    /\ policy \in Policies /\ limit \in Int /\ resolver \in BOOLEAN
    /\ pc \in {"wait", "handle", "open", "failed", "closed"}
    /\ method \in {"GET", "POST"} /\ via \in Nat /\ creds \in BOOLEAN
    /\ status \in Statuses \cup {None} /\ resolveErr \in BOOLEAN
    /\ attempts \in Nat /\ commands \in Nat
    /\ probeBody \in {None, 0, 1} /\ tracked \subseteq Nat
    /\ result \in Outcomes \cup {None}

\* A request is on its way or its response in hand.
Busy == pc \in {"wait", "handle"}

BodiesNumbered ==
    /\ \A b \in tracked : b >= 2 /\ b <= 2 * commands + 1
    /\ Busy => \A b \in tracked : b < 2 * commands
    /\ Busy /\ method = "GET" => commands = 0 /\ probeBody = None
    /\ method = "POST" => commands >= 1
    /\ pc = "failed" => probeBody = None /\ tracked = {}
    /\ pc = "closed" => tracked = {}

\* Redirects and retries in the terms of the request in progress.
RequestsCounted ==
    /\ via >= 1 /\ RequestsBounded
    /\ Busy /\ method = "GET" /\ ~creds => attempts = 1
    /\ creds \/ resolveErr => resolver

ProbeInv == ProbeTypeOK /\ BodiesNumbered /\ BodiesAccounted /\ RequestsCounted

\* What the transport does, of its own accord or answered by the server.
HttpStep ==
    \/ NetworkFails \/ RedirectFollowed \/ RedirectRefused \/ RedirectUnresolved
    \/ \E s \in Statuses : Responds(s)
    \/ RetryWithCredentials \/ NothingToOffer \/ ProbeRefused \/ ProbeAccepted
    \/ CommandRejected \/ CommandAborted \/ CommandSent \/ CommandRefused \/ CommandAccepted
    \/ ResponseRead \/ CloseConn

\* The number of redirects that may be followed is never negative.
LEMMA MaxRedirectsNat ==
    ASSUME ProbeTypeOK
    PROVE  MaxRedirects \in Nat
BY DefaultMaxRedirectsAssumption DEF ProbeTypeOK, MaxRedirects

\* The body of the operation in progress, and what distinguishes it.
LEMMA BodyFacts ==
    ASSUME ProbeInv, Busy
    PROVE  /\ Body \in Nat /\ Body \notin tracked /\ Body # probeBody
           /\ method = "GET" => Body \in {0, 1}
           /\ method = "POST" => Body >= 2 /\ Body <= 2 * commands + 1
BY NoneAssumption DEF ProbeInv, ProbeTypeOK, BodiesNumbered, Body

\* No step changes the configuration, and every operation ends in one of the
\* ways the errors name.
LEMMA StepFacts ==
    ASSUME ProbeTypeOK, HttpStep
    PROVE  /\ UNCHANGED cfgVars
           /\ status' \in Statuses \cup {None}
           /\ result' \in Outcomes \cup {None}
<1>1. UNCHANGED cfgVars
  BY DEF HttpStep, NetworkFails, RedirectFollowed, RedirectRefused, RedirectUnresolved, Responds,
     RetryWithCredentials, NothingToOffer, ProbeRefused, ProbeAccepted, CommandRejected, CommandAborted,
     CommandSent, CommandRefused, CommandAccepted, ResponseRead, CloseConn
<1>2. status' \in Statuses \cup {None}
  BY DEF HttpStep, NetworkFails, RedirectFollowed, RedirectRefused, RedirectUnresolved, Responds,
     RetryWithCredentials, NothingToOffer, ProbeRefused, ProbeAccepted, CommandRejected, CommandAborted,
     CommandSent, CommandRefused, CommandAccepted, ResponseRead, CloseConn, Fail, reqVars, ProbeTypeOK
<1>3. result' \in Outcomes \cup {None}
  <2>1. result \in Outcomes \cup {None}
    BY DEF ProbeTypeOK
  <2>2. CASE NetworkFails \/ RedirectRefused \/ RedirectUnresolved \/ NothingToOffer
    BY <2>2 DEF NetworkFails, RedirectRefused, RedirectUnresolved, NothingToOffer, RedirectCause, Fail,
       Outcomes
  <2>3. CASE ProbeRefused \/ CommandRefused
    BY <2>3 DEF ProbeRefused, CommandRefused, CommandRefusal, Refusal, Fail, Outcomes
  <2>4. CASE ProbeAccepted \/ CommandRejected \/ CommandAborted \/ CommandSent \/ CommandAccepted
    BY <2>4 DEF ProbeAccepted, CommandRejected, CommandAborted, CommandSent, CommandAccepted, Outcomes
  <2>5. CASE \/ RedirectFollowed \/ (\E s \in Statuses : Responds(s)) \/ RetryWithCredentials
             \/ ResponseRead \/ CloseConn
    BY <2>1, <2>5 DEF RedirectFollowed, Responds, RetryWithCredentials, ResponseRead, CloseConn
  <2> QED
    BY <2>2, <2>3, <2>4, <2>5 DEF HttpStep
<1> QED
  BY <1>1, <1>2, <1>3

\* Every step of the HTTP connection keeps its types.
LEMMA ProbeTypeNext ==
    ASSUME ProbeInv, HttpStep
    PROVE  ProbeTypeOK'
<1> DEFINE Rest ==
      /\ pc \in {"wait", "handle", "open", "failed", "closed"}
      /\ method \in {"GET", "POST"} /\ via \in Nat /\ creds \in BOOLEAN
      /\ resolveErr \in BOOLEAN /\ attempts \in Nat /\ commands \in Nat
      /\ probeBody \in {None, 0, 1} /\ tracked \subseteq Nat
<1>0. Rest /\ ProbeTypeOK
  BY DEF ProbeInv, ProbeTypeOK
<1>s. SUFFICES Rest'
  BY <1>0, StepFacts DEF cfgVars, ProbeTypeOK
<1>1. CASE NetworkFails \/ RedirectFollowed \/ RedirectRefused
  <2>1. via' \in Nat
    BY <1>0, <1>1 DEF NetworkFails, RedirectFollowed, RedirectRefused
  <2> QED
    BY <1>0, <1>1, <2>1 DEF NetworkFails, RedirectFollowed, RedirectRefused, Fail, connVars
<1>2. CASE RedirectUnresolved
  BY <1>0, <1>2 DEF RedirectUnresolved, Fail, connVars
<1>3. CASE (\E s \in Statuses : Responds(s)) \/ NothingToOffer \/ ProbeRefused
  BY <1>0, <1>3 DEF Responds, NothingToOffer, ProbeRefused, Fail, connVars
<1>4. CASE RetryWithCredentials
  <2>1. via' \in Nat /\ attempts' \in Nat
    BY <1>0, <1>4 DEF RetryWithCredentials
  <2> QED
    BY <1>0, <1>4, <2>1 DEF RetryWithCredentials, connVars
<1>5. CASE ProbeAccepted
  <2>1. Body \in {0, 1}
    BY <1>5, BodyFacts DEF ProbeAccepted, Handling, Busy
  <2> QED
    BY <1>0, <1>5, <2>1 DEF ProbeAccepted
<1>6. CASE CommandRejected \/ CommandAborted
  <2>1. commands' \in Nat
    BY <1>0, <1>6 DEF CommandRejected, CommandAborted
  <2> QED
    BY <1>0, <1>6, <2>1 DEF CommandRejected, CommandAborted, reqVars
<1>7. CASE CommandSent
  <2>1. commands' \in Nat /\ via' \in Nat
    BY <1>0, <1>7 DEF CommandSent
  <2>2. creds' \in BOOLEAN
    BY <1>7 DEF CommandSent
  <2> QED
    BY <1>0, <1>7, <2>1, <2>2 DEF CommandSent
<1>8. CASE CommandRefused
  BY <1>0, <1>8 DEF CommandRefused, Fail, connVars
<1>9. CASE ResponseRead \/ CloseConn
  BY <1>0, <1>9 DEF ResponseRead, CloseConn, reqVars
<1>10. CASE CommandAccepted
  <2>1. Body \in Nat
    BY <1>10, BodyFacts DEF CommandAccepted, Handling, Busy
  <2> QED
    BY <1>0, <1>10, <2>1 DEF CommandAccepted
<1> QED
  BY <1>1, <1>2, <1>3, <1>4, <1>5, <1>6, <1>7, <1>8, <1>9, <1>10 DEF HttpStep

\* Every step of the HTTP connection keeps its requests numbered.
LEMMA NumberedNext ==
    ASSUME ProbeInv, HttpStep
    PROVE  BodiesNumbered'
<1>0. /\ commands \in Nat /\ tracked \subseteq Nat /\ method \in {"GET", "POST"} /\ probeBody \in {None, 0, 1}
      /\ pc \in {"wait", "handle", "open", "failed", "closed"} /\ BodiesNumbered
  BY DEF ProbeInv, ProbeTypeOK
<1>1. ASSUME UNCHANGED <<method, connVars>>, pc' = pc
             \/ (pc \in {"wait", "handle"} /\ pc' \in {"wait", "handle"})
             \/ (pc \in {"wait", "handle"} /\ pc' = IF method = "GET" THEN "failed" ELSE "open")
      PROVE  BodiesNumbered'
  <2>1. Busy /\ method = "GET" => tracked = {}
    <3>1. ASSUME Busy, method = "GET", NEW b \in tracked PROVE FALSE
      <4>1. b < 2 * 0 /\ b >= 2
        BY <1>0, <3>1 DEF BodiesNumbered
      <4> QED
        BY <4>1, <1>0
    <3> QED
      BY <3>1
  <2> QED
    BY <1>0, <1>1, <2>1 DEF BodiesNumbered, Busy, connVars
<1>2. CASE NetworkFails \/ RedirectFollowed \/ RedirectRefused \/ RedirectUnresolved
  BY <1>1, <1>2 DEF NetworkFails, RedirectFollowed, RedirectRefused, RedirectUnresolved, Fail
<1>3. CASE (\E s \in Statuses : Responds(s)) \/ RetryWithCredentials \/ NothingToOffer \/ ProbeRefused
           \/ CommandRefused
  BY <1>1, <1>3 DEF Responds, RetryWithCredentials, NothingToOffer, ProbeRefused, CommandRefused, Fail,
     Handling
<1>4. CASE ProbeAccepted
  BY <1>0, <1>4 DEF ProbeAccepted, Handling, BodiesNumbered, Busy
<1>5. CASE CommandRejected \/ CommandAborted
  <2>1. pc = "open" /\ pc' = "open" /\ commands' = commands + 1 /\ UNCHANGED <<method, tracked>>
    BY <1>5 DEF CommandRejected, CommandAborted, reqVars
  <2> QED
    BY <1>0, <2>1 DEF BodiesNumbered, Busy
<1>6. CASE CommandSent
  BY <1>0, <1>6 DEF CommandSent, BodiesNumbered, Busy
<1>7. CASE ResponseRead
  BY <1>0, <1>7 DEF ResponseRead, reqVars, BodiesNumbered, Busy
<1>8. CASE CloseConn
  BY <1>0, <1>8 DEF CloseConn, reqVars, BodiesNumbered, Busy
<1>9. CASE CommandAccepted
  <2>1. Body \in Nat /\ Body >= 2 /\ Body <= 2 * commands + 1
    BY <1>9, BodyFacts DEF CommandAccepted, Handling, Busy
  <2> QED
    BY <1>0, <1>9, <2>1 DEF CommandAccepted, Handling, BodiesNumbered, Busy
<1> QED
  BY <1>2, <1>3, <1>4, <1>5, <1>6, <1>7, <1>8, <1>9 DEF HttpStep

\* Every step of the HTTP connection accounts for the body it holds.
LEMMA AccountedNext ==
    ASSUME ProbeInv, HttpStep
    PROVE  BodiesAccounted'
<1> USE DEF ProbeInv, BodiesAccounted
<1>1. CASE NetworkFails \/ RedirectFollowed \/ RedirectRefused \/ RedirectUnresolved
  BY <1>1 DEF NetworkFails, RedirectFollowed, RedirectRefused, RedirectUnresolved, Fail, connVars
<1>2. CASE \E s \in Statuses : Responds(s)
  <2>1. Body' = Body
    BY <1>2 DEF Responds, Body, connVars
  <2> QED
    BY <1>2, <2>1 DEF Responds, connVars
<1>3. CASE RetryWithCredentials \/ NothingToOffer \/ ProbeRefused \/ CommandRefused
  <2>1. pc = "handle" /\ pc' \in {"wait", "failed", "open"} /\ bodies' = bodies \ {Body}
    BY <1>3 DEF RetryWithCredentials, NothingToOffer, ProbeRefused, CommandRefused, Fail, Handling, Closed
  <2>2. UNCHANGED connVars
    BY <1>3 DEF RetryWithCredentials, NothingToOffer, ProbeRefused, CommandRefused
  <2>3. Body \notin tracked /\ Body # probeBody
    BY <2>1, BodyFacts DEF Busy
  <2> QED
    BY <2>1, <2>2, <2>3 DEF connVars
<1>4. CASE ProbeAccepted
  <2>1. probeBody = None /\ Body # None
    BY <1>4, BodyFacts, NoneAssumption DEF ProbeAccepted, Handling, Busy, BodiesNumbered
  <2> QED
    BY <1>4, <2>1 DEF ProbeAccepted, Handling
<1>5. CASE CommandRejected \/ CommandAborted \/ CommandSent
  BY <1>5 DEF CommandRejected, CommandAborted, CommandSent
<1>6. CASE CommandAccepted
  BY <1>6 DEF CommandAccepted, Handling
<1>7. CASE ResponseRead
  <2>1. PICK b \in tracked : tracked' = tracked \ {b} /\ bodies' = bodies \ {b}
    BY <1>7 DEF ResponseRead
  <2>2. b # probeBody
    BY NoneAssumption DEF ProbeTypeOK, BodiesNumbered
  <2>3. pc = "open" /\ pc' = "open" /\ probeBody' = probeBody
    BY <1>7 DEF ResponseRead
  <2> QED
    BY <2>1, <2>2, <2>3
<1>8. CASE CloseConn
  BY <1>8 DEF CloseConn
<1> QED
  BY <1>1, <1>2, <1>3, <1>4, <1>5, <1>6, <1>7, <1>8 DEF HttpStep

\* Every step of the HTTP connection counts the requests it sends.
LEMMA CountedNext ==
    ASSUME ProbeInv, HttpStep
    PROVE  RequestsCounted'
<1>0. MaxRedirects \in Nat
  BY MaxRedirectsNat DEF ProbeInv
<1>1. MaxRedirects' = MaxRedirects /\ UNCHANGED <<policy, resolver>>
  BY DEF HttpStep, NetworkFails, RedirectFollowed, RedirectRefused, RedirectUnresolved, Responds,
     RetryWithCredentials, NothingToOffer, ProbeRefused, ProbeAccepted, CommandRejected, CommandAborted,
     CommandSent, CommandRefused, CommandAccepted, ResponseRead, CloseConn, cfgVars, MaxRedirects
<1> USE DEF ProbeInv, ProbeTypeOK, RequestsCounted, RequestsBounded, Busy
<1>2. CASE RedirectFollowed
  BY <1>0, <1>1, <1>2 DEF RedirectFollowed, MayFollow, Policies
<1>3. CASE RetryWithCredentials
  <2>1. via' = 1 /\ attempts = 1 /\ attempts' = attempts + 1 /\ creds' = TRUE /\ resolver
    BY <1>3 DEF RetryWithCredentials, Handling, Retriable
  <2> QED
    BY <1>0, <1>1, <2>1
<1>4. CASE CommandSent
  <2>1. /\ via' = 1 /\ method' = "POST" /\ UNCHANGED <<attempts, resolveErr>>
        /\ creds' => resolver
    BY <1>4 DEF CommandSent
  <2> QED
    BY <1>0, <1>1, <2>1
<1>5. CASE RedirectUnresolved
  BY <1>0, <1>1, <1>5 DEF RedirectUnresolved, Fail
<1>6. CASE \/ NetworkFails \/ RedirectRefused \/ (\E s \in Statuses : Responds(s)) \/ NothingToOffer
           \/ ProbeRefused \/ ProbeAccepted \/ CommandRefused \/ CommandAccepted
  <2>1. UNCHANGED <<method, via, creds, resolveErr, attempts>> /\ (Busy' => Busy)
    BY <1>6 DEF NetworkFails, RedirectRefused, Responds, NothingToOffer, ProbeRefused, ProbeAccepted,
       CommandRefused, CommandAccepted, Fail, Handling
  <2> QED
    BY <1>0, <1>1, <2>1
<1>7. CASE CommandRejected \/ CommandAborted \/ ResponseRead \/ CloseConn
  <2>1. UNCHANGED <<method, via, creds, resolveErr, attempts>> /\ (Busy' => Busy)
    BY <1>7 DEF CommandRejected, CommandAborted, ResponseRead, CloseConn, reqVars
  <2> QED
    BY <1>0, <1>1, <2>1
<1> QED
  BY <1>2, <1>3, <1>4, <1>5, <1>6, <1>7 DEF HttpStep

\* The HTTP connection's part of the invariant is kept.
LEMMA ProbeNext ==
    ASSUME ProbeInv, HttpStep
    PROVE  ProbeInv'
BY ProbeTypeNext, NumberedNext, AccountedNext, CountedNext DEF ProbeInv
\* The reason given for a failure is the one the code met.
LEMMA ExplainedNext ==
    ASSUME ProbeInv, HttpStep
    PROVE  ExplainedStep
<1>0. /\ MaxRedirects \in Nat /\ via \in Nat /\ creds \in BOOLEAN /\ policy \in Policies
      /\ via <= MaxRedirects + 1 /\ (creds \/ resolveErr => resolver)
      /\ None \notin {"AuthRequired", "AuthFailed", "NotFound", "Policy", "Disabled", "TooMany", "Resolver"}
  <2>1. MaxRedirects \in Nat /\ ProbeTypeOK /\ via - 1 <= MaxRedirects
    BY MaxRedirectsNat DEF ProbeInv, RequestsCounted, RequestsBounded
  <2>2. via <= MaxRedirects + 1
    BY <2>1 DEF ProbeTypeOK
  <2>3. None \notin {"AuthRequired", "AuthFailed", "NotFound", "Policy", "Disabled", "TooMany", "Resolver"}
    BY NoneAssumption DEF Outcomes
  <2> QED
    BY <2>1, <2>2, <2>3 DEF ProbeInv, ProbeTypeOK, RequestsCounted
<1> USE DEF ExplainedStep
<1>1. CASE \/ NetworkFails \/ RedirectFollowed \/ (\E s \in Statuses : Responds(s)) \/ RetryWithCredentials
           \/ ProbeAccepted \/ CommandAccepted \/ ResponseRead \/ CloseConn \/ CommandRejected
  <2>1. result' = result \/ result' \in {"Network", "ok", "Unsupported", "NoSuffix"}
    BY <1>1 DEF NetworkFails, RedirectFollowed, Responds, RetryWithCredentials, ProbeAccepted,
       CommandAccepted, ResponseRead, CloseConn, CommandRejected, Fail
  <2> QED
    BY <2>1
<1>2. CASE RedirectRefused
  <2>1. CASE MaxRedirects > 0 /\ policy # "never" /\ ~(policy = "initial" /\ method = "POST")
    <3>1. result' = "TooMany" /\ ~(via <= MaxRedirects)
      BY <1>2, <2>1 DEF RedirectRefused, Fail, MayFollow
    <3>2. via = MaxRedirects + 1
      BY <1>0, <3>1
    <3> QED
      BY <3>1, <3>2
  <2>2. CASE ~(MaxRedirects > 0 /\ policy # "never" /\ ~(policy = "initial" /\ method = "POST"))
    <3>1. result' = RedirectCause(resolveErr)
      BY <1>2, <2>2 DEF RedirectRefused, Fail
    <3>2. CASE resolveErr
      BY <1>0, <3>1, <3>2 DEF RedirectCause
    <3>3. CASE ~resolveErr /\ MaxRedirects = 0 /\ policy # "never"
      BY <3>1, <3>3 DEF RedirectCause
    <3>4. CASE ~resolveErr /\ ~(MaxRedirects = 0 /\ policy # "never")
      <4>1. policy = "never" \/ (policy = "initial" /\ method = "POST")
        BY <1>0, <2>2, <3>4
      <4> QED
        BY <3>1, <3>4, <4>1 DEF RedirectCause
    <3> QED
      BY <3>2, <3>3, <3>4
  <2> QED
    BY <2>1, <2>2
<1>3. CASE RedirectUnresolved
  BY <1>0, <1>3 DEF RedirectUnresolved, RedirectCause, Fail
<1>4. CASE NothingToOffer
  BY <1>4 DEF NothingToOffer, Retriable, Fail
<1>5. CASE ProbeRefused
  BY <1>0, <1>5 DEF ProbeRefused, Retriable, Refusal, Fail
<1>6. CASE CommandRefused
  BY <1>0, <1>6 DEF CommandRefused, CommandRefusal, Refusal, Fail
<1>7. CASE CommandAborted
  BY <1>7 DEF CommandAborted
<1>8. CASE CommandSent
  BY <1>0, <1>8 DEF CommandSent
<1> QED
  BY <1>1, <1>2, <1>3, <1>4, <1>5, <1>6, <1>7, <1>8 DEF HttpStep

(***************************************************************************)
(* The stream transports.  What is open is bound to where Open, and then   *)
(* the connection, is; an SSH client takes the TCP connection with it, and *)
(* a handshake that has failed has closed it already.                      *)
(***************************************************************************)
StreamInv ==
    /\ tcp = "open" => opc \in {"request", "open", "handshake", "session", "exec"}
    /\ client = "open" => opc \in {"session", "exec", "open"}
    /\ opc \in {"session", "exec"} => client = "open"
    /\ session = "open" => opc \in {"exec", "open"}
    /\ agent = "open" => opc \in {"dial", "handshake", "session", "exec"}
    /\ opc \in {"idle", "start", "auth", "dial"} => shaken = "none"
    /\ opc = "handshake" /\ shaken \in {"refused", "broken"} => tcp # "open"

\* A transport that is not used holds nothing.
SchemeInv ==
    /\ scheme \in Schemes \cup {"none"}
    /\ scheme \in {"none", "http"} => opc = "idle"
    /\ scheme # "ssh" => client # "open" /\ session # "open" /\ agent # "open"
    /\ scheme # "ssh" => opc \notin {"handshake", "session", "exec"}
    /\ scheme # "http" => pc = "wait" /\ bodies = {} /\ ProbeTypeOK
    /\ openErr = "NotFound" => scheme = "file"

GitStep == GitOpen \/ GitDialCancelled \/ GitRequest \/ GitDialed \/ GitCommand \/ GitClose
FileStep == FileOpen \/ FileCommand \/ FileClose
SshStep == SshLocal \/ SshPeer \/ AgentAsked \/ RemoteExits \/ SshCommand \/ SshClose

\* git:// and file:// hold a connection, or the store, from when they have it
\* until they fail or are closed.
LEMMA PlainStreamNext ==
    ASSUME StreamInv, SchemeInv, scheme # "ssh", GitStep \/ FileStep, UNCHANGED <<sshVars, scheme>>
    PROVE  /\ StreamInv'
           /\ opc' \notin {"handshake", "session", "exec"}
<1>1. client' # "open" /\ session' # "open" /\ agent' # "open" /\ shaken' = shaken
  BY DEF SchemeInv, sshVars
<1>2. CASE GitStep
  <2>1. /\ opc' \notin {"handshake", "session", "exec"} /\ (tcp' = "open" => opc' \in {"request", "open"})
        /\ opc' \in {"idle", "start", "auth", "dial"} => opc \in {"idle", "start", "auth", "dial"}
    BY <1>2 DEF GitStep, GitOpen, GitDialCancelled, GitRequest, GitDialed, GitCommand, GitClose, Failed,
       Goes, StreamInv
  <2> QED
    BY <1>1, <2>1 DEF StreamInv
<1>3. CASE FileStep
  <2>1. /\ opc' \notin {"handshake", "session", "exec"} /\ (tcp' = "open" => opc' = "open")
        /\ opc' \notin {"idle", "start", "auth", "dial"}
    BY <1>3 DEF FileStep, FileOpen, FileCommand, FileClose, Failed, Goes, StreamInv
  <2> QED
    BY <1>1, <2>1 DEF StreamInv
<1> QED
  BY <1>2, <1>3

\* When Open fails its deferred functions leave nothing open.
LEMMA SshFailsReleases ==
    ASSUME StreamInv, NEW err, SshFails(err),
           client = "open" \/ tcp # "open"
    PROVE  StreamInv' /\ opc' = "failed"
BY DEF StreamInv, SshFails, Failed, Released

\* ssh:// holds the agent, the TCP connection, the client and the session, one
\* after the other, and gives them back together.
LEMMA SshNext ==
    ASSUME StreamInv, SshStep
    PROVE  StreamInv'
<1>1. CASE SshOpen \/ ResolveClientConfig \/ SshDialed
  BY <1>1 DEF SshOpen, ResolveClientConfig, MissingHostKey, SshDialed, Failed, Goes, sshVars, StreamInv
<1>2. CASE \E err \in {"ctx", "net"} : SshDialFails(err)
  BY <1>2, SshFailsReleases DEF SshDialFails, StreamInv
<1>3. CASE HandshakeFailed
  <2>1. tcp # "open"
    BY <1>3 DEF HandshakeFailed, StreamInv
  <2> QED
    BY <1>3, <2>1, SshFailsReleases DEF HandshakeFailed
<1>4. CASE SetupFails
  <2>1. client = "open"
    BY <1>4 DEF SetupFails, StreamInv
  <2> QED
    BY <1>4, <2>1, SshFailsReleases DEF SetupFails
<1>5. CASE WatchdogFires \/ WatchdogLeaves \/ WaiterEnds \/ CopierEnds \/ RemoteExits \/ SshCommand
  BY <1>5 DEF WatchdogFires, WatchdogLeaves, WaiterEnds, CopierEnds, RemoteExits, SshCommand, sshVars,
     StreamInv
<1>6. CASE AgentAsked \/ AgentAnswers \/ HandshakeAnswered \/ HandshakeCut
  BY <1>6 DEF AgentAsked, AgentAnswers, HandshakeAnswered, HandshakeCut, StreamInv
<1>7. CASE HandshakeCommits \/ SessionOpened \/ ExecStarted
  BY <1>7 DEF HandshakeCommits, SessionOpened, ExecStarted, Goes, Released, StreamInv
<1>8. CASE SshClose \/ SshCloseReturns
  BY <1>8 DEF SshClose, SshCloseReturns, Goes, sshVars, StreamInv
<1> QED
  BY <1>1, <1>2, <1>3, <1>4, <1>5, <1>6, <1>7, <1>8 DEF SshStep, SshLocal, SshPeer

\* A connection that has failed or is closed stays so, and one that is open is
\* only ever closed; no stream step starts a connection again.
LEMMA StreamEnds ==
    ASSUME GitStep \/ FileStep \/ SshStep
    PROVE  /\ opc # "idle" => opc' # "idle"
           /\ opc \in {"failed", "closed"} => opc' = opc /\ openErr' = openErr
           /\ opc \in {"open", "closing", "closed"} => opc' \in {"open", "closing", "closed"}
<1>1. CASE GitStep \/ FileStep
  BY <1>1 DEF GitStep, GitOpen, GitDialCancelled, GitRequest, GitDialed, GitCommand, GitClose, FileStep,
     FileOpen, FileCommand, FileClose, Failed, Goes
<1>2. CASE \/ SshOpen \/ ResolveClientConfig \/ SshDialed \/ (\E err \in {"ctx", "net"} : SshDialFails(err))
           \/ HandshakeFailed \/ SetupFails
  BY <1>2 DEF SshOpen, ResolveClientConfig, MissingHostKey, SshDialed, SshDialFails, HandshakeFailed,
     SetupFails, SshFails, Failed, Goes
<1>3. CASE WatchdogFires \/ WatchdogLeaves \/ WaiterEnds \/ CopierEnds \/ RemoteExits \/ SshCommand
  BY <1>3 DEF WatchdogFires, WatchdogLeaves, WaiterEnds, CopierEnds, RemoteExits, SshCommand
<1>4. CASE AgentAsked \/ AgentAnswers \/ HandshakeAnswered \/ HandshakeCut
  BY <1>4 DEF AgentAsked, AgentAnswers, HandshakeAnswered, HandshakeCut
<1>5. CASE HandshakeCommits \/ SessionOpened \/ ExecStarted \/ SshClose \/ SshCloseReturns
  BY <1>5 DEF HandshakeCommits, SessionOpened, ExecStarted, SshClose, SshCloseReturns, Goes
<1> QED
  BY <1>1, <1>2, <1>3, <1>4, <1>5 DEF SshStep, SshLocal, SshPeer

\* git:// and ssh:// never find that there is no repository.
LEMMA NotFoundIsFile ==
    ASSUME GitStep \/ SshStep, openErr # "NotFound"
    PROVE  openErr' # "NotFound"
<1>1. CASE GitStep
  BY <1>1 DEF GitStep, GitOpen, GitDialCancelled, GitRequest, GitDialed, GitCommand, GitClose, Failed, Goes
<1>2. CASE \/ SshOpen \/ ResolveClientConfig \/ SshDialed \/ (\E err \in {"ctx", "net"} : SshDialFails(err))
           \/ HandshakeFailed \/ SetupFails
  BY <1>2 DEF SshOpen, ResolveClientConfig, MissingHostKey, SshDialed, SshDialFails, HandshakeFailed,
     SetupFails, SshFails, Failed, Goes
<1>3. CASE WatchdogFires \/ WatchdogLeaves \/ WaiterEnds \/ CopierEnds \/ RemoteExits \/ SshCommand
  BY <1>3 DEF WatchdogFires, WatchdogLeaves, WaiterEnds, CopierEnds, RemoteExits, SshCommand
<1>4. CASE AgentAsked \/ AgentAnswers \/ HandshakeAnswered \/ HandshakeCut
  BY <1>4 DEF AgentAsked, AgentAnswers, HandshakeAnswered, HandshakeCut
<1>5. CASE HandshakeCommits \/ SessionOpened \/ ExecStarted \/ SshClose \/ SshCloseReturns
  BY <1>5 DEF HandshakeCommits, SessionOpened, ExecStarted, SshClose, SshCloseReturns, Goes
<1> QED
  BY <1>1, <1>2, <1>3, <1>4, <1>5 DEF SshStep, SshLocal, SshPeer

(***************************************************************************)
(* Dial and its callers.                                                   *)
(***************************************************************************)
CallInv ==
    /\ dpc = "idle" => scheme = "none" /\ ret = "none"
    /\ dpc = "returned" => scheme = "none" \/ ConnFailed \/ ConnClosed
    /\ ret = "false" => dpc = "returned"
    /\ ret = "true" => dpc \in {"closing", "iterator", "returned"} /\ scheme # "none"
    /\ ExistsTruthful

DialInv == ProbeInv /\ StreamInv /\ SchemeInv /\ CallInv

\* Every step is one of the HTTP transport, of a stream transport, of Dial
\* itself, the end of the context, or nothing.
LEMMA DialCases ==
    ASSUME [DialNext]_dialVars
    PROVE  \/ dpc \in {"opening", "session", "closing"} /\ Http(HttpStep) /\ (dpc = "closing" => CloseConn)
           \/ Git(GitStep) \/ File(FileStep) \/ Ssh(SshStep)
           \/ DialStart \/ OpenFailed \/ AdvertisementRead \/ AdvertisementRejected
           \/ HelperDone \/ IteratorRanged \/ CloseReturned
           \/ ContextEnds /\ UNCHANGED <<probeVars, sshVars, callVars>>
           \/ UNCHANGED dialVars
<1>1. CASE DialLocal
  BY <1>1 DEF DialLocal, Opening, Sends, Http, Git, File, Ssh, HttpStep, GitStep, FileStep, SshStep, Closing
<1>2. CASE DialPeer
  BY <1>2 DEF DialPeer, Http, Git, Ssh, HttpStep, GitStep, SshStep
<1>3. CASE DialFree
  BY <1>3 DEF DialFree, Commands, Sends, Http, Git, File, Ssh, HttpStep, GitStep, FileStep, SshStep
<1> QED
  BY <1>1, <1>2, <1>3 DEF DialNext

\* Every step of Dial, of a helper or of a transport keeps the invariant.
LEMMA DialInvNext ==
    ASSUME DialInv, [DialNext]_dialVars
    PROVE  DialInv'
<1> USE DEF DialInv
<1>1. CASE dpc \in {"opening", "session", "closing"} /\ Http(HttpStep) /\ (dpc = "closing" => CloseConn)
  <2>1. UNCHANGED <<streamVars, sshVars, callVars>> /\ scheme = "http"
    BY <1>1 DEF Http
  <2>2. ProbeInv'
    BY <1>1, ProbeNext DEF Http
  <2>3. StreamInv' /\ SchemeInv'
    BY <2>1 DEF StreamInv, SchemeInv, streamVars, sshVars, callVars
  <2>4. CallInv'
    <3>1. ret # "false" /\ dpc # "idle" /\ dpc # "returned"
      BY <1>1 DEF CallInv
    <3>2. ret = "true" => dpc = "closing" /\ CloseConn
      BY <1>1 DEF CallInv
    <3> QED
      BY <2>1, <3>1, <3>2 DEF CallInv, ExistsTruthful, ConnOpen, ConnClosed, CloseConn, callVars, streamVars
  <2> QED
    BY <2>2, <2>3, <2>4
<1>2. CASE Git(GitStep) \/ File(FileStep) \/ Ssh(SshStep)
  <2>1. UNCHANGED <<probeVars, callVars>> /\ scheme \in {"git", "file", "ssh"}
    BY <1>2 DEF Git, File, Ssh
  <2>2. ProbeInv' /\ UNCHANGED <<pc, bodies, result>> /\ ProbeTypeOK'
    BY <2>1 DEF probeVars, cfgVars, reqVars, connVars, ProbeInv, ProbeTypeOK, BodiesNumbered, Busy,
       BodiesAccounted, Body, RequestsCounted, RequestsBounded, MaxRedirects
  <2>3. StreamInv' /\ (scheme # "ssh" => opc' \notin {"handshake", "session", "exec"})
    BY <1>2, <2>1, PlainStreamNext, SshNext DEF Git, File, Ssh, callVars
  <2>4. SchemeInv'
    <3>1. scheme # "ssh" => UNCHANGED <<client, session, agent>>
      BY <1>2 DEF Git, File, Ssh, sshVars
    <3>2. (openErr = "NotFound" => scheme = "file")'
      BY <1>2, <2>1, NotFoundIsFile DEF Git, File, Ssh, SchemeInv, callVars
    <3> QED
      BY <2>1, <2>2, <2>3, <3>1, <3>2 DEF SchemeInv, callVars
  <2>5. CallInv'
    <3>1. /\ opc \in {"failed", "closed"} => opc' = opc /\ openErr' = openErr
          /\ opc \in {"open", "closing", "closed"} => opc' \in {"open", "closing", "closed"}
      BY <1>2, StreamEnds DEF Git, File, Ssh
    <3> QED
      BY <2>1, <2>2, <3>1 DEF CallInv, ExistsTruthful, ConnOpen, ConnClosed, ConnFailed, callVars
  <2> QED
    BY <2>2, <2>3, <2>4, <2>5
<1>3. ASSUME UNCHANGED <<policy, limit, resolver, pc, reqVars, bodies, connVars, result>>
      PROVE  ProbeInv' /\ ProbeTypeOK'
  BY <1>3 DEF cfgVars, reqVars, connVars, ProbeInv, ProbeTypeOK, BodiesNumbered, Busy,
     BodiesAccounted, Body, RequestsCounted, RequestsBounded, MaxRedirects
<1>4. CASE DialStart
  <2>1. /\ UNCHANGED <<probeVars, openErr, tcp, sshVars>> /\ scheme = "none" /\ opc = "idle" /\ ret = "none"
    BY <1>4 DEF DialStart, CallInv, SchemeInv
  <2>2. ProbeInv' /\ ProbeTypeOK' /\ UNCHANGED <<pc, bodies, result>>
    BY <1>3, <2>1 DEF probeVars, cfgVars
  <2>3. \/ scheme' = scheme /\ opc' = opc /\ dpc' = "returned" /\ ret' = "error"
        \/ /\ scheme' \in Schemes /\ dpc' = "opening" /\ ret' = ret
           /\ opc' = IF scheme' = "http" THEN opc ELSE "start"
    BY <1>4 DEF DialStart, Returns, ParseURL, Schemes
  <2>4. StreamInv'
    BY <2>1, <2>3 DEF StreamInv, sshVars
  <2>5. SchemeInv'
    BY <2>1, <2>2, <2>3 DEF SchemeInv, sshVars, Schemes
  <2>6. CallInv'
    BY <2>1, <2>3 DEF CallInv, ExistsTruthful
  <2> QED
    BY <2>2, <2>4, <2>5, <2>6
<1>5. ASSUME UNCHANGED <<probeVars, sshVars, scheme, opc, openErr, tcp>> PROVE ProbeInv' /\ StreamInv' /\ SchemeInv'
  <2>1. ProbeInv' /\ ProbeTypeOK'
    BY <1>3, <1>5 DEF probeVars, cfgVars
  <2>2. UNCHANGED <<pc, bodies>>
    BY <1>5 DEF probeVars
  <2> QED
    BY <1>5, <2>1, <2>2 DEF StreamInv, SchemeInv, sshVars
<1>6. CASE OpenFailed
  <2>1. UNCHANGED <<probeVars, sshVars, scheme, opc, openErr, tcp, pc, result>> /\ ConnFailed
    BY <1>6 DEF OpenFailed, streamVars, probeVars
  <2>2. dpc' = "returned" /\ ret' \in {"false", "error"}
    BY <1>6 DEF OpenFailed, ReturnsError, Returns
  <2>3. ret' = "false" => (IF scheme = "http" THEN result ELSE openErr) = "NotFound"
    BY <1>6 DEF OpenFailed, ReturnsError, Returns, BridgeOpenError, Bridged
  <2>4. CallInv'
    BY <2>1, <2>2, <2>3 DEF CallInv, ExistsTruthful, ConnFailed, SchemeInv
  <2> QED
    BY <1>5, <2>1, <2>4
<1>7. CASE AdvertisementRead \/ AdvertisementRejected \/ HelperDone \/ IteratorRanged \/ CloseReturned
  <2>1. UNCHANGED <<probeVars, sshVars, scheme, opc, openErr, tcp, pc, result>>
    BY <1>7 DEF AdvertisementRead, AdvertisementRejected, HelperDone, IteratorRanged, CloseReturned,
       streamVars, probeVars
  <2>2. /\ dpc \in {"opening", "session", "iterator", "closing"} /\ dpc' # "idle"
        /\ dpc' = "returned" => ConnClosed
        /\ ret' \in {"true", "ok", "error"} \/ ret' = ret
        /\ ret' = "true" => \/ ConnOpen /\ dpc' \in {"closing", "iterator"}
                            \/ ret = "true" /\ dpc' \in {"closing", "returned"}
    BY <1>7 DEF AdvertisementRead, AdvertisementRejected, HelperDone, IteratorRanged, CloseReturned, Returns,
                CallInv
  <2>3. ConnOpen => scheme # "none"
    BY DEF ConnOpen, SchemeInv
  <2>4. CallInv'
    BY <2>1, <2>2, <2>3 DEF CallInv, ExistsTruthful, ConnOpen, ConnClosed, ConnFailed
  <2> QED
    BY <1>5, <2>1, <2>4
<1>8. CASE \/ ContextEnds /\ UNCHANGED <<probeVars, sshVars, callVars>>
           \/ UNCHANGED dialVars
  <2>1. UNCHANGED <<probeVars, sshVars, scheme, opc, openErr, tcp, pc, result, dpc, ret>>
    BY <1>8 DEF ContextEnds, dialVars, streamVars, callVars, probeVars
  <2>2. CallInv'
    BY <2>1 DEF CallInv, ExistsTruthful, ConnOpen, ConnClosed, ConnFailed
  <2> QED
    BY <1>5, <2>1, <2>2
<1> QED
  BY <1>1, <1>2, <1>4, <1>6, <1>7, <1>8, DialCases

\* The invariant holds before Dial is called.
LEMMA DialInvInit == DialInit => DialInv
<1> SUFFICES ASSUME DialInit PROVE DialInv
  OBVIOUS
<1> USE DEF DialInit, ProbeInit, StreamInit, SshInit
<1>1. ProbeTypeOK
  BY LimitsAssumption DEF ProbeTypeOK
<1>2. MaxRedirects \in Nat
  BY <1>1, MaxRedirectsNat
<1>3. BodiesNumbered /\ BodiesAccounted
  BY DEF BodiesNumbered, BodiesAccounted, Busy
<1>4. RequestsCounted
  BY <1>2 DEF RequestsCounted, RequestsBounded
<1>5. StreamInv /\ SchemeInv /\ CallInv
  BY <1>1 DEF StreamInv, SchemeInv, CallInv, ExistsTruthful
<1> QED
  BY <1>1, <1>3, <1>4, <1>5 DEF DialInv, ProbeInv

\* Where every resource of every transport is, at every moment.
THEOREM DialInvariant == DialSpec => []DialInv
<1>1. DialInv /\ [DialNext]_dialVars => DialInv'
  BY DialInvNext
<1> QED
  BY <1>1, DialInvInit, PTL DEF DialSpec

\* Whatever fails, and whenever the context ends, a call that has returned
\* holds no response body, connection, SSH client, session or agent.
THEOREM NothingLeaksHolds == DialSpec => []NothingLeaks
<1>1. DialInv => NothingLeaks
  <2> SUFFICES ASSUME DialInv PROVE NothingLeaks
    OBVIOUS
  <2>1. BodiesAccounted /\ (agent = "open" => opc \in {"dial", "handshake", "session", "exec"})
    BY DEF DialInv, ProbeInv, StreamInv
  <2>2. ASSUME dpc = "returned" PROVE NothingHeld
    <3>1. scheme = "http" => pc \in {"failed", "closed"}
      BY <2>2 DEF DialInv, CallInv, ConnFailed, ConnClosed
    <3>2. bodies = {}
      BY <3>1 DEF DialInv, ProbeInv, BodiesAccounted, BodiesNumbered, SchemeInv
    <3>3. opc \in {"idle", "failed", "closed"}
      BY <2>2 DEF DialInv, CallInv, ConnFailed, ConnClosed, SchemeInv
    <3> QED
      BY <3>2, <3>3 DEF DialInv, StreamInv, NothingHeld
  <2> QED
    BY <2>1, <2>2 DEF NothingLeaks
<1> QED
  BY <1>1, DialInvariant, PTL

\* Redirects and retries are bounded by the caller's settings, for any limit.
THEOREM RequestsBoundedHolds == DialSpec => []RequestsBounded
<1>1. DialInv => RequestsBounded
  BY DEF DialInv, ProbeInv, RequestsCounted
<1> QED
  BY <1>1, DialInvariant, PTL

\* Exists answers no only on the word of the server or the file system.
THEOREM ExistsTruthfulHolds == DialSpec => []ExistsTruthful
<1>1. DialInv => ExistsTruthful
  BY DEF DialInv, CallInv
<1> QED
  BY <1>1, DialInvariant, PTL

\* Every failure the HTTP transport reports names its cause.
THEOREM FailureExplainedHolds == DialSpec => FailureExplained
<1>1. DialInv /\ [DialNext]_dialVars => [ExplainedStep]_probeVars
  <2> SUFFICES ASSUME DialInv, [DialNext]_dialVars PROVE [ExplainedStep]_probeVars
    OBVIOUS
  <2>1. CASE Http(HttpStep)
    BY <2>1, ExplainedNext DEF Http, DialInv
  <2>2. CASE UNCHANGED probeVars
    BY <2>2
  <2> QED
    BY <2>1, <2>2, DialCases DEF Git, File, Ssh, DialStart, OpenFailed, AdvertisementRead,
       AdvertisementRejected, HelperDone, IteratorRanged, CloseReturned, dialVars
<1> QED
  BY <1>1, DialInvariant, PTL DEF DialSpec, FailureExplained
===========================================================================
