------------------------------ MODULE SshConn ------------------------------
(***************************************************************************)
(* The ssh:// transport (transport/ssh): the handshake that a watchdog     *)
(* goroutine can cut short, the session, and the goroutines that outlive   *)
(* Open, one discarding stderr and one waiting for the remote command.     *)
(***************************************************************************)
EXTENDS StreamConn

VARIABLES
    agent,          \* the connection to the ssh-agent
    asked,          \* whether the agent owes the handshake its keys
    handshakeDone,  \* whether the channel is closed
    watchdog,       \* the goroutine that closes the connection
    shaken,         \* what NewClientConn returned
    client, session,
    copier,         \* the goroutine that reads stderr
    waiter,         \* the goroutine in session.Wait; when it ends, done is closed
    remote          \* the remote command

sshVars == <<agent, asked, handshakeDone, watchdog, shaken, client, session, copier, waiter, remote>>
goroutineVars == <<watchdog, copier, waiter>>

SshInit ==
    /\ agent = "none" /\ asked = "no" /\ handshakeDone = FALSE /\ watchdog = "none" /\ shaken = "none"
    /\ client = "none" /\ session = "none" /\ copier = "none" /\ waiter = "none" /\ remote = "none"

ctxVars == <<ctxEnded, preferred, issued, cmdErr>>

Released(resource) == IF resource = "none" THEN "none" ELSE "closed"

\* Open returns an error: its deferred functions close the session, the client,
\* which closes the TCP connection, and the agent's connection.
SshFails(err) ==
    /\ Failed(err)
    /\ session' = Released(session) /\ client' = Released(client) /\ agent' = Released(agent)
    /\ tcp' = IF client = "none" THEN tcp ELSE "closed"

SshOpen ==
    /\ opc = "start"
    /\ IF ctxEnded THEN Failed("ctx") ELSE Goes("auth")
    /\ UNCHANGED <<ctxVars, tcp, sshVars>>

\* Mutant: the agent's connection is forgotten when there is no callback.
MissingHostKeyLeaks == Failed("hostkey") /\ agent' \in {"none", "open"}

\* No HostKeyCallback: what has been resolved is cleaned up.
MissingHostKey == Failed("hostkey") /\ agent' \in {"none", "closed"}

\* resolveClientConfig: the agent's resolver holds a connection, the others and
\* a template with its own methods hold nothing.  A context that has ended
\* fails the agent's dial.
ResolveClientConfig ==
    /\ opc = "auth"
    /\ \/ Failed("resolve") /\ UNCHANGED agent
       \/ MissingHostKey
       \/ Goes("dial") /\ agent' \in {"none", "open"}
    /\ UNCHANGED <<ctxVars, tcp, asked, handshakeDone, shaken, client, session, goroutineVars, remote>>

\* dialTCP succeeds, and the watchdog is started.
SshDialed ==
    /\ opc = "dial"
    /\ Goes("handshake") /\ tcp' = "open" /\ watchdog' = "waiting"
    /\ UNCHANGED <<ctxVars, agent, asked, handshakeDone, shaken, client, session, copier, waiter, remote>>

\* dialTCP and mapDialError.
SshDialFails(err) ==
    /\ opc = "dial"
    /\ SshFails(err)
    /\ UNCHANGED <<ctxVars, asked, handshakeDone, shaken, goroutineVars, remote>>

\* Mutant: the watchdog ends without closing the connection.
WatchdogFiresInVain ==
    /\ watchdog = "waiting" /\ ctxEnded
    /\ watchdog' = "ended"
    /\ UNCHANGED <<ctxVars, opc, openErr, tcp, agent, asked, handshakeDone, shaken, client, session, copier, waiter, remote>>

\* select takes either case when both are ready.
WatchdogFires ==
    /\ watchdog = "waiting" /\ ctxEnded
    /\ watchdog' = "ended" /\ tcp' = "closed"
    /\ UNCHANGED <<ctxVars, opc, openErr, agent, asked, handshakeDone, shaken, client, session, copier, waiter, remote>>

WatchdogLeaves ==
    /\ watchdog = "waiting" /\ handshakeDone
    /\ watchdog' = "ended"
    /\ UNCHANGED <<ctxVars, opc, openErr, tcp, agent, asked, handshakeDone, shaken, client, session, copier, waiter, remote>>

\* The server asks for a key, and the agent is asked which ones it has; closing
\* the TCP connection does not end this wait.
AgentAsked ==
    /\ opc = "handshake" /\ shaken = "none" /\ tcp = "open" /\ agent = "open" /\ asked = "no"
    /\ asked' = "waiting"
    /\ UNCHANGED <<ctxVars, opc, openErr, tcp, agent, handshakeDone, shaken, client, session, goroutineVars, remote>>

AgentAnswers ==
    /\ asked = "waiting" /\ asked' = "answered"
    /\ UNCHANGED <<ctxVars, opc, openErr, tcp, agent, handshakeDone, shaken, client, session, goroutineVars, remote>>

\* NewClientConn returns, with an error for a server that refuses the key or
\* breaks off; then it has closed the connection.
HandshakeAnswered ==
    /\ opc = "handshake" /\ shaken = "none" /\ asked # "waiting" /\ tcp = "open"
    /\ shaken' \in {"ok", "refused", "broken"}
    /\ tcp' = IF shaken' = "ok" THEN tcp ELSE "closed"
    /\ UNCHANGED <<ctxVars, opc, openErr, agent, asked, handshakeDone, client, session, goroutineVars, remote>>

\* The watchdog has closed the connection under it.
HandshakeCut ==
    /\ opc = "handshake" /\ shaken = "none" /\ asked # "waiting" /\ tcp = "closed"
    /\ shaken' = "broken"
    /\ UNCHANGED <<ctxVars, opc, openErr, tcp, agent, asked, handshakeDone, client, session, goroutineVars, remote>>

\* close(handshakeDone), then the context's error before mapHandshakeError's.
HandshakeFailed ==
    /\ opc = "handshake" /\ shaken \in {"refused", "broken"}
    /\ handshakeDone' = TRUE
    /\ SshFails(IF ctxEnded THEN "ctx" ELSE IF shaken = "refused" THEN "AuthFailed" ELSE "handshake")
    /\ UNCHANGED <<ctxVars, asked, shaken, goroutineVars, remote>>

\* Mutant: the watchdog is not told.
HandshakeCommitsSilently ==
    /\ opc = "handshake" /\ shaken = "ok"
    /\ client' = "open"
    /\ Goes("session")
    /\ UNCHANGED <<ctxVars, tcp, agent, asked, handshakeDone, shaken, session, goroutineVars, remote>>

HandshakeCommits ==
    /\ opc = "handshake" /\ shaken = "ok"
    /\ handshakeDone' = TRUE
    /\ client' = "open"
    /\ Goes("session")
    /\ UNCHANGED <<ctxVars, tcp, agent, asked, shaken, session, goroutineVars, remote>>

\* NewSession.  The environment's answer is ignored.
SessionOpened ==
    /\ opc = "session" /\ tcp = "open"
    /\ session' = "open" /\ Goes("exec")
    /\ copier' = "running"
    /\ UNCHANGED <<ctxVars, tcp, agent, asked, handshakeDone, shaken, client, watchdog, waiter, remote>>

\* Start.
ExecStarted ==
    /\ opc = "exec" /\ tcp = "open"
    /\ Goes("open") /\ agent' = Released(agent)
    /\ waiter' = "running" /\ remote' = "running"
    /\ UNCHANGED <<ctxVars, tcp, asked, handshakeDone, shaken, client, session, watchdog, copier>>

\* The server refuses the session, the pipes or the command, or the connection
\* is gone.
SetupFails ==
    /\ opc \in {"session", "exec"}
    /\ SshFails("session")
    /\ UNCHANGED <<ctxVars, asked, handshakeDone, shaken, goroutineVars, remote>>

\* The remote command ends, with a status of zero or another one.
RemoteExits ==
    /\ remote = "running" /\ tcp = "open"
    /\ remote' \in {"exited", "failed"}
    /\ UNCHANGED <<ctxVars, opc, openErr, tcp, agent, asked, handshakeDone, shaken, client, session, goroutineVars>>

\* session.Wait returns when the command has ended or the connection is closed.
WaiterEnds ==
    /\ waiter = "running" /\ (remote # "running" \/ tcp = "closed")
    /\ waiter' = "ended"
    /\ UNCHANGED <<ctxVars, opc, openErr, tcp, agent, asked, handshakeDone, shaken, client, session, watchdog, copier, remote>>

CopierEnds ==
    /\ copier = "running" /\ (remote \in {"exited", "failed"} \/ tcp = "closed")
    /\ copier' = "ended"
    /\ UNCHANGED <<ctxVars, opc, openErr, tcp, agent, asked, handshakeDone, shaken, client, session, watchdog, waiter, remote>>

\* Command: wrapWriteError prefers the error of a command known to have ended.
SshCommand ==
    /\ opc = "open"
    /\ \/ CommandEnds("ctx")
       \/ tcp = "open" /\ remote = "running" /\ CommandEnds("ok")
       \/ CommandEnds("write")
       \/ waiter = "ended" /\ (remote = "failed" \/ tcp = "closed") /\ CommandEnds("exit")
    /\ UNCHANGED <<ctxEnded, preferred, opc, openErr, tcp, sshVars>>

\* Close: the session, the client, ...
SshClose ==
    /\ opc = "open"
    /\ Goes("closing")
    /\ session' = "closed" /\ client' = "closed" /\ tcp' = "closed"
    /\ UNCHANGED <<ctxVars, agent, asked, handshakeDone, shaken, goroutineVars, remote>>

\* ... and then <-c.done.
SshCloseReturns ==
    /\ opc = "closing" /\ waiter = "ended"
    /\ Goes("closed")
    /\ UNCHANGED <<ctxVars, tcp, sshVars>>

\* What the transport does by itself, and what it waits for.
SshLocal ==
    \/ SshOpen \/ ResolveClientConfig \/ (ctxEnded /\ SshDialFails("ctx"))
    \/ WatchdogFires \/ WatchdogLeaves
    \/ HandshakeCut \/ HandshakeFailed \/ HandshakeCommits
    \/ (tcp = "closed" /\ SetupFails)
    \/ WaiterEnds \/ CopierEnds \/ SshCloseReturns

SshPeer ==
    \/ SshDialed \/ SshDialFails("net") \/ AgentAnswers \/ HandshakeAnswered
    \/ SessionOpened \/ ExecStarted \/ SetupFails
=============================================================================
