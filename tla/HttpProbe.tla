----------------------------- MODULE HttpProbe -----------------------------
(***************************************************************************)
(* How the HTTP transport negotiates (transport/http): the discovery GET   *)
(* with its one authenticated retry, redirects under the caller's policy,  *)
(* the classification of every response, and the command POSTs that follow *)
(* on the same connection, one at a time.  (HttpSession has the concurrent *)
(* commands and leaves the negotiation out.)                               *)
(*                                                                         *)
(* The server may answer a request with any status, or not at all.  Which  *)
(* credentials a request carries from hop to hop is not modelled, only     *)
(* whether the operation has resolved some.                                *)
(***************************************************************************)
EXTENDS Integers, FiniteSets

CONSTANTS
    Limits,                 \* values of WithMaxRedirects
    DefaultMaxRedirects,    \* defaultMaxRedirects
    MaxCommands,            \* bound: commands on the connection
    None

ASSUME LimitsAssumption == Limits \subseteq Int
ASSUME DefaultMaxRedirectsAssumption == DefaultMaxRedirects \in Nat \ {0}
ASSUME MaxCommandsAssumption == MaxCommands \in Nat

Policies == {"initial", "always", "never"}

\* How an operation can end, as the errors name it.
Outcomes == {"ok", "Network", "TooMany", "Resolver", "Disabled", "Policy", "AuthRequired", "AuthFailed",
             "NotFound", "Status", "Preamble", "Unsupported", "NoSuffix", "Encode"}

ASSUME NoneAssumption == None \notin Nat /\ None \notin Outcomes

VARIABLES
    policy,     \* Transport.followRedirects
    limit,      \* Transport.maxRedirects, as given
    resolver,   \* whether Transport.creds is set
    pc,
    method,     \* of the request the current chain began with
    via,        \* requests made on the current chain of redirects
    creds,      \* whether the operation has resolved credentials
    path,       \* whether the current URL ends in /info/refs
    status,     \* of the response being handled
    resolveErr, \* probeRedirector.resolveErr
    attempts,   \* times the probe has been started
    bodies,     \* response bodies that are open
    probeBody,  \* Conn.body
    tracked,    \* Conn.inflight
    dumb,       \* Conn.dumb
    connPath,   \* Conn.url: whether it ends in /info/refs
    commands,   \* commands issued
    result      \* how the last operation ended

cfgVars == <<policy, limit, resolver>>
reqVars == <<method, via, creds, path, status, resolveErr, attempts>>
connVars == <<probeBody, tracked, dumb, connPath, commands>>
probeVars == <<cfgVars, pc, reqVars, bodies, connVars, result>>

Statuses == {"smart", "preamble", "dumb", "unauthorized", "forbidden", "missing", "other"}

\* The response of the operation in progress: the two probes and every
\* command have one.
Body == 2 * commands + (IF creds THEN 1 ELSE 0)

\* resolveMaxRedirects.
MaxRedirects ==
    IF limit = 0 THEN DefaultMaxRedirects ELSE IF limit < 0 THEN 0 ELSE limit

ProbeInit ==
    /\ policy \in Policies /\ limit \in Limits /\ resolver \in BOOLEAN
    /\ pc = "wait" /\ method = "GET" /\ via = 1 /\ creds = FALSE /\ path = "info"
    /\ status = None /\ resolveErr = FALSE
    /\ attempts = 1
    /\ bodies = {} /\ probeBody = None /\ tracked = {} /\ dumb = FALSE /\ connPath = None
    /\ commands = 0 /\ result = None

\* The operation in progress fails: Open for good, a command alone.
Fail(why) ==
    /\ result' = why
    /\ pc' = IF method = "GET" THEN "failed" ELSE "open"
    /\ status' = None

-----------------------------------------------------------------------------
(***************************************************************************)
(* client.Do: the server's answers.                                        *)
(***************************************************************************)
\* doProbe, doCommandPOST: no response, or a context that has ended.
NetworkFails ==
    /\ pc = "wait"
    /\ Fail("Network")
    /\ UNCHANGED <<cfgVars, method, via, creds, path, resolveErr, attempts, bodies, connVars>>

\* A final response arrives, its body open.
Responds(s) ==
    /\ pc = "wait"
    /\ pc' = "handle" /\ status' = s
    /\ bodies' = bodies \cup {Body}
    /\ UNCHANGED <<cfgVars, method, via, creds, path, resolveErr, attempts, connVars, result>>

\* Mutant: the limit is compared one request late.
MayFollowOneMore ==
    /\ policy # "never" /\ MaxRedirects > 0
    /\ ~(policy = "initial" /\ method = "POST")
    /\ via <= MaxRedirects + 1

\* probeRedirector.check up to the limit.
MayFollow ==
    /\ policy # "never" /\ MaxRedirects > 0
    /\ ~(policy = "initial" /\ method = "POST")
    /\ via <= MaxRedirects

\* A redirect that check lets pass: net/http has closed the redirect's body
\* and sends the next request, to whatever URL the server named.
RedirectFollowed ==
    /\ pc = "wait" /\ MayFollow
    /\ via' = via + 1
    /\ path' \in {"info", "elsewhere"}
    /\ UNCHANGED <<cfgVars, pc, method, creds, status, resolveErr, attempts, bodies, connVars, result>>

\* Mutant: a policy that refuses redirects is reported as a limit.
RedirectCauseSwapped(err) == IF err THEN "Resolver" ELSE IF policy = "never" THEN "TooMany" ELSE "Policy"

\* classifyRedirectError for errRedirectRejected.
RedirectCause(err) ==
    IF err THEN "Resolver"
    ELSE IF MaxRedirects = 0 /\ policy # "never" THEN "Disabled"
    ELSE "Policy"

\* A redirect that the policy or the limit refuses.
RedirectRefused ==
    /\ pc = "wait" /\ ~MayFollow
    /\ Fail(IF MaxRedirects > 0 /\ policy # "never" /\ ~(policy = "initial" /\ method = "POST")
            THEN "TooMany" ELSE RedirectCause(resolveErr))
    /\ UNCHANGED <<cfgVars, method, via, creds, path, resolveErr, attempts, bodies, connVars>>

\* A redirect to another origin for which the resolver, or applying what it
\* returns, fails.
RedirectUnresolved ==
    /\ pc = "wait" /\ MayFollow /\ creds
    /\ resolveErr' = TRUE
    /\ Fail(RedirectCause(TRUE))
    /\ UNCHANGED <<cfgVars, method, via, creds, path, attempts, bodies, connVars>>

-----------------------------------------------------------------------------
(***************************************************************************)
(* open: what is made of a response to the probe.                          *)
(***************************************************************************)
Handling(m) == pc = "handle" /\ method = m

\* drainAndClose, or readServerExcerpt and Close.
Closed == bodies \ {Body}

\* A 401 is answered once, when nothing has been resolved yet.
Retriable == status = "unauthorized" /\ ~creds

\* 401 to the anonymous probe: the resolver is asked for the URL the 401 came
\* from, and the probe sent again to it.
RetryWithCredentials ==
    /\ Handling("GET") /\ Retriable /\ resolver
    /\ bodies' = Closed
    /\ creds' = TRUE /\ resolveErr' = FALSE
    /\ pc' = "wait" /\ status' = None /\ via' = 1
    /\ attempts' = attempts + 1
    /\ UNCHANGED <<cfgVars, method, path, connVars, result>>

\* No resolver, one that has nothing for this URL, or one that fails.
NothingToOffer ==
    /\ Handling("GET") /\ Retriable
    /\ bodies' = Closed
    /\ \/ Fail("AuthRequired")
       \/ resolver /\ Fail("Resolver")
    /\ UNCHANGED <<cfgVars, method, via, creds, path, resolveErr, attempts, connVars>>

\* The errors of open's switch.
Refusal ==
    [unauthorized |-> "AuthFailed", forbidden |-> "AuthFailed", missing |-> "NotFound",
     other |-> "Status", preamble |-> "Preamble"]

\* Every other status than 200, and handleSmart with a preamble that is none.
ProbeRefused ==
    /\ Handling("GET") /\ ~Retriable /\ status \in DOMAIN Refusal
    /\ bodies' = Closed
    /\ Fail(Refusal[status])
    /\ UNCHANGED <<cfgVars, method, via, creds, path, resolveErr, attempts, connVars>>

\* handleOK: handleSmart and handleDumb keep the body, and the URL it came from.
ProbeAccepted ==
    /\ Handling("GET") /\ status \in {"smart", "dumb"}
    /\ probeBody' = Body
    /\ dumb' = (status = "dumb")
    /\ connPath' = path
    /\ pc' = "open" /\ status' = None /\ result' = "ok"
    /\ UNCHANGED <<cfgVars, method, via, creds, path, resolveErr, attempts, bodies, tracked, commands>>

-----------------------------------------------------------------------------
(***************************************************************************)
(* Command.                                                                *)
(***************************************************************************)
Usable == ~dumb /\ connPath = "info"

\* A dumb server, or a probe that was redirected to a URL commandPostURL
\* cannot take apart.
CommandRejected ==
    /\ pc = "open" /\ commands < MaxCommands /\ ~Usable
    /\ commands' = commands + 1
    /\ result' = IF dumb THEN "Unsupported" ELSE "NoSuffix"
    /\ UNCHANGED <<cfgVars, pc, reqVars, bodies, probeBody, tracked, dumb, connPath>>

\* encodeCommandBody or the resolver fails.
CommandAborted ==
    /\ pc = "open" /\ commands < MaxCommands /\ Usable
    /\ commands' = commands + 1
    /\ result' \in {"Encode"} \cup (IF resolver THEN {"Resolver"} ELSE {})
    /\ UNCHANGED <<cfgVars, pc, reqVars, bodies, probeBody, tracked, dumb, connPath>>

\* The POST is sent, with credentials if the resolver has some.
CommandSent ==
    /\ pc = "open" /\ commands < MaxCommands /\ Usable
    /\ commands' = commands + 1
    /\ creds' \in IF resolver THEN BOOLEAN ELSE {FALSE}
    /\ method' = "POST" /\ via' = 1 /\ path' = "elsewhere"
    /\ pc' = "wait" /\ result' = None
    /\ UNCHANGED <<cfgVars, status, resolveErr, attempts, bodies, probeBody, tracked, dumb, connPath>>

\* handleCommandResponse's statuses.
CommandRefusal ==
    IF status = "unauthorized" /\ ~creds THEN "AuthRequired" ELSE Refusal[status]

CommandRefused ==
    /\ Handling("POST") /\ status \in {"unauthorized", "forbidden", "missing", "other"}
    /\ bodies' = Closed
    /\ Fail(CommandRefusal)
    /\ UNCHANGED <<cfgVars, method, via, creds, path, resolveErr, attempts, connVars>>

\* 200: the body is tracked until it is read to its end.  Its content type
\* is not looked at.
CommandAccepted ==
    /\ Handling("POST") /\ status \in {"smart", "dumb", "preamble"}
    /\ tracked' = tracked \cup {Body}
    /\ pc' = "open" /\ status' = None /\ result' = "ok"
    /\ UNCHANGED <<cfgVars, method, via, creds, path, resolveErr, attempts, bodies,
                   probeBody, dumb, connPath, commands>>

\* trackedBody.Read at the end of the response, which is when net/http is done
\* with it.
ResponseRead ==
    /\ pc = "open"
    /\ \E b \in tracked : tracked' = tracked \ {b} /\ bodies' = bodies \ {b}
    /\ UNCHANGED <<cfgVars, pc, reqVars, probeBody, dumb, connPath, commands, result>>

\* Conn.Close.
CloseConn ==
    /\ pc = "open"
    /\ pc' = "closed"
    /\ bodies' = bodies \ ({probeBody} \cup tracked)
    /\ tracked' = {}
    /\ UNCHANGED <<cfgVars, reqVars, probeBody, dumb, connPath, commands, result>>

-----------------------------------------------------------------------------
\* A response body is open only while its response is being handled, while it
\* is the probe's and the connection has not been closed, or while it is
\* tracked: no way out of open, Command or Close forgets one
\* (open.go:75-186, command.go:105-138, conn.go:143-170).
BodiesAccounted ==
    bodies = (IF pc = "handle" THEN {Body} ELSE {})
                \cup (IF probeBody # None /\ pc # "closed" THEN {probeBody} ELSE {})
                \cup tracked

\* However the server redirects, a chain never has more hops than the limit,
\* none under "never" and none for a POST under "initial"; and the probe is
\* repeated once at most (redirect.go:82-112, open.go:91-153, options.go:69-105).
RequestsBounded ==
    /\ via - 1 <= MaxRedirects
    /\ via > 1 => policy # "never"
    /\ via > 1 /\ method = "POST" => policy = "always"
    /\ attempts <= 2

\* What FailureExplained says of one step.
ExplainedStep ==
    result' # result =>
        CASE result' = "AuthRequired" -> status = "unauthorized" /\ ~creds
          [] result' = "AuthFailed" -> status = "forbidden" \/ (status = "unauthorized" /\ creds)
          [] result' = "NotFound" -> status = "missing"
          [] result' = "Policy" -> policy = "never" \/ (policy = "initial" /\ method = "POST")
          [] result' = "Disabled" -> MaxRedirects = 0 /\ policy # "never"
          [] result' = "TooMany" -> via = MaxRedirects + 1
          [] result' = "Resolver" -> resolver
          [] OTHER -> TRUE

\* The failure reported is the one that happened: credentials are asked for
\* only when none were resolved, and reported as refused only for a 403 or
\* when some were; a refused redirect names the setting that refused it
\* (errors.go:22-36, redirect.go:227-258, command.go:263-323).
FailureExplained == [][ExplainedStep]_probeVars
=============================================================================
