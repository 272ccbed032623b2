-------------------------------- MODULE Dial --------------------------------
(***************************************************************************)
(* Dial and the one-shot helpers (dial.go, helpers.go) over the four       *)
(* transports: opening a connection, reading the advertisement, one use of *)
(* the session, and giving everything back.  (FileSession has the inside   *)
(* of the file:// transport and what commands exchange.)                   *)
(***************************************************************************)
EXTENDS HttpProbe, GitConn, SshConn, FileConn

\* ObjectInfos and DefaultBranch close the session like ListRefs, as does a
\* caller of Dial in the end.
Helpers == {"Refs", "ListRefs", "Exists"}
Schemes == {"http", "git", "ssh", "file"}

VARIABLES
    scheme,     \* of the URL
    helper,     \* the function the caller has called
    dpc,        \* where it is
    dialErr,    \* the public error of Dial
    ret         \* what the helper returns

callVars == <<scheme, helper, dpc, dialErr, ret>>
dialVars == <<probeVars, streamVars, sshVars, callVars>>

DialInit ==
    /\ ProbeInit /\ StreamInit /\ SshInit
    /\ scheme = "none" /\ helper = "none" /\ dpc = "idle" /\ dialErr = "none" /\ ret = "none"

Http(A) == scheme = "http" /\ A /\ UNCHANGED <<streamVars, sshVars, callVars>>
Git(A) == scheme = "git" /\ A /\ UNCHANGED <<probeVars, sshVars, callVars>>
File(A) == scheme = "file" /\ A /\ UNCHANGED <<probeVars, sshVars, callVars>>
Ssh(A) == scheme = "ssh" /\ A /\ UNCHANGED <<probeVars, callVars>>

Returns(value) == dpc' = "returned" /\ ret' = value

\* Exists turns one error into an answer; the others pass every error on.
ReturnsError(err) ==
    Returns(IF helper = "Exists" /\ err = "NotFound" THEN "false" ELSE "error")

\* A URL with a scheme of its own, a bare path or host:path; or no URL at all.
ParseURL == Schemes \cup {"invalid"}

\* ParseURL fails, no transport has the scheme, or the transport is asked.  Only
\* git's and file's look at the version, and only http's has redirects and
\* credentials.
DialStart ==
    /\ dpc = "idle"
    /\ helper' \in Helpers
    /\ \/ /\ \E target \in ParseURL : dialErr' = IF target = "invalid" THEN "URL" ELSE "Unsupported"
          /\ Returns("error")
          /\ UNCHANGED <<scheme, preferred, opc>>
       \/ /\ scheme' \in ParseURL \ {"invalid"} /\ preferred' \in 0..2 /\ dpc' = "opening"
          /\ scheme' \notin {"git", "file"} => preferred' = 2
          /\ scheme' # "http" => policy = "initial" /\ limit = 0 /\ ~resolver
          /\ opc' = IF scheme' = "http" THEN opc ELSE "start"
          /\ UNCHANGED <<dialErr, ret>>
    /\ UNCHANGED <<probeVars, ctxEnded, openErr, tcp, issued, cmdErr, sshVars>>

\* The connection of whatever scheme is open, or Open has failed.
ConnOpen == IF scheme = "http" THEN pc = "open" ELSE opc = "open"
ConnFailed == IF scheme = "http" THEN pc = "failed" ELSE opc = "failed"
ConnClosed == IF scheme = "http" THEN pc = "closed" ELSE opc = "closed"

\* openSentinelBridges.
Bridged == {"NotFound", "AuthRequired", "AuthFailed", "Unsupported"}

\* Mutant: a server that refuses access is reported as having no repository.
BridgeOpenErrorHiding(err) ==
    IF err = "AuthFailed" THEN "NotFound" ELSE IF err \in Bridged THEN err ELSE "other"

\* bridgeOpenError.
BridgeOpenError(err) == IF err \in Bridged THEN err ELSE "other"

\* Dial after a failed Open.
OpenFailed ==
    /\ dpc = "opening" /\ ConnFailed
    /\ dialErr' = BridgeOpenError(IF scheme = "http" THEN result ELSE openErr)
    /\ ReturnsError(dialErr')
    /\ UNCHANGED <<probeVars, streamVars, sshVars, scheme, helper>>

AdvertisementRead ==
    /\ dpc = "opening" /\ ConnOpen
    /\ dpc' = "session"
    /\ UNCHANGED <<probeVars, streamVars, sshVars, scheme, helper, dialErr, ret>>

\* ParseAdvertisement fails: Dial closes the connection before it returns.
AdvertisementRejected ==
    /\ dpc = "opening" /\ ConnOpen
    /\ dialErr' \in {"Refused", "Unsupported", "other"}
    /\ dpc' = "closing" /\ ret' = "error"
    /\ UNCHANGED <<probeVars, streamVars, sshVars, scheme, helper>>

\* What a helper does with the session: commands, for those that send some.
Commands ==
    /\ dpc = "session" /\ helper # "Exists"
    /\ \/ Http(CommandRejected \/ CommandAborted \/ CommandSent)
       \/ Git(GitCommand)
       \/ File(FileCommand)
       \/ Ssh(SshCommand)

Sends(A) == dpc = "session" /\ Http(A)

\* The session has served its purpose, or a call on it has failed: the deferred
\* Close runs, except for the iterator that Refs returns.
HelperDone ==
    /\ dpc = "session" /\ ConnOpen
    /\ ret' \in IF helper = "Exists" THEN {"true"} ELSE {"ok", "error"}
    /\ dpc' = IF helper = "Refs" /\ ret' = "ok" THEN "iterator" ELSE "closing"
    /\ UNCHANGED <<probeVars, streamVars, sshVars, scheme, helper, dialErr>>

\* The caller ranges over the iterator, to its end or not.
IteratorRanged ==
    /\ dpc = "iterator"
    /\ dpc' = "closing"
    /\ UNCHANGED <<probeVars, streamVars, sshVars, scheme, helper, dialErr, ret>>

Closing == dpc = "closing" /\ (Http(CloseConn) \/ Git(GitClose) \/ File(FileClose) \/ Ssh(SshClose))

CloseReturned ==
    /\ dpc = "closing" /\ ConnClosed
    /\ Returns(ret)
    /\ UNCHANGED <<probeVars, streamVars, sshVars, scheme, helper, dialErr>>

-----------------------------------------------------------------------------
Opening(A) == dpc = "opening" /\ A

\* The code's own steps, which need nobody's answer.  A cancelled request fails.
DialLocal ==
    \/ Opening(Http(RetryWithCredentials \/ NothingToOffer \/ ProbeRefused \/ ProbeAccepted))
    \/ Sends(CommandRefused \/ CommandAccepted)
    \/ (ctxEnded /\ dpc \in {"opening", "session"} /\ Http(NetworkFails))
    \/ Git(GitOpen \/ GitDialCancelled \/ GitRequest)
    \/ File(FileOpen)
    \/ Ssh(SshLocal)
    \/ OpenFailed \/ Closing \/ CloseReturned

\* The other side's.
DialPeer ==
    \/ (dpc \in {"opening", "session"}
            /\ Http(NetworkFails \/ RedirectFollowed \/ RedirectRefused \/ RedirectUnresolved
                        \/ \E s \in Statuses : Responds(s)))
    \/ Git(GitDialed)
    \/ Ssh(SshPeer)
    \/ AdvertisementRead \/ AdvertisementRejected

DialFree ==
    \/ (ContextEnds /\ UNCHANGED <<probeVars, sshVars, callVars>>)
    \/ DialStart \/ Commands \/ HelperDone \/ IteratorRanged
    \/ Ssh(AgentAsked) \/ Ssh(RemoteExits)
    \/ Sends(ResponseRead)
    \/ (dpc \in {"returned", "iterator"} /\ UNCHANGED dialVars)

DialNext == DialLocal \/ DialPeer \/ DialFree

DialSpec == DialInit /\ [][DialNext]_dialVars /\ WF_dialVars(DialLocal)

-----------------------------------------------------------------------------
\* Nothing of a connection is open any more: no response body, no TCP
\* connection, SSH client or session, and no connection to the agent.
NothingHeld ==
    /\ bodies = {}
    /\ tcp # "open" /\ client # "open" /\ session # "open" /\ agent # "open"

\* Response bodies are accounted for at all times, the agent's connection is
\* held only while Open runs, and when a call has returned, with an error or
\* without, nothing is held, however far it came: only Refs' iterator that is
\* never ranged over keeps its session (open.go, conn.go of the transports,
\* dial.go:133-146, helpers.go:23-106).
NothingLeaks ==
    /\ BodiesAccounted
    /\ agent = "open" => opc \in {"dial", "handshake", "session", "exec"}
    /\ dpc = "returned" => NothingHeld

\* Exists says that there is no repository only when the server has said so, or
\* the path leads to none, and that there is one only after an advertisement
\* (helpers.go:96-106, dial.go:202-209, file/open.go:217-228).
ExistsTruthful ==
    /\ ret = "false" => \/ scheme = "http" /\ result = "NotFound"
                        \/ scheme = "file" /\ openErr = "NotFound"
    /\ ret = "true" => ConnOpen \/ ConnClosed \/ opc = "closing"

WaitsForAnswer ==
    /\ dpc = "opening"
    /\ IF scheme = "http" THEN pc = "wait" ELSE opc \in {"dial", "handshake"}

\* Ending the context ends the wait for a server that does not answer, before
\* and during the SSH handshake too, unless the ssh-agent is the one that does
\* not answer (ssh/open.go:128-143, git/open.go:75-80).
CancelUnblocks == ctxEnded /\ WaitsForAnswer ~> ~WaitsForAnswer \/ asked = "waiting"

\* If the other side answers or breaks off in the end, Dial ends; and once a
\* call has returned, its goroutines end as well: the watchdog even when the
\* context never ends (ssh/open.go:128-143, 196, 217-220).
DialEnds ==
    WF_dialVars(DialPeer) =>
        /\ dpc = "opening" ~> dpc # "opening"
        /\ dpc = "closing" ~> dpc = "returned"
        /\ dpc = "returned" ~> watchdog # "waiting" /\ copier # "running" /\ waiter # "running"
=============================================================================
