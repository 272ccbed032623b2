----------------------------- MODULE StreamConn -----------------------------
(***************************************************************************)
(* What the git://, ssh:// and file:// transports have in common: one      *)
(* stream, opened once, and commands written to it one after another.      *)
(***************************************************************************)
EXTENDS Naturals

CONSTANTS MaxStreamCommands     \* bound: commands on a connection

ASSUME MaxStreamCommandsAssumption == MaxStreamCommands \in Nat

VARIABLES
    ctxEnded,   \* the context given to Open has been cancelled or has expired
    preferred,  \* OpenOptions.PreferredProtocol
    opc,        \* where Open is, and then the connection's state
    openErr,    \* why Open failed
    tcp,        \* the TCP connection; for file://, the store with its pipes
    issued,     \* commands issued
    cmdErr      \* how the last one ended

streamVars == <<ctxEnded, preferred, opc, openErr, tcp, issued, cmdErr>>

StreamInit ==
    /\ ctxEnded = FALSE /\ preferred = 2 /\ opc = "idle" /\ openErr = "none" /\ tcp = "none"
    /\ issued = 0 /\ cmdErr = "none"

\* The caller cancels, or the deadline passes.
ContextEnds ==
    /\ ~ctxEnded /\ ctxEnded' = TRUE
    /\ UNCHANGED <<preferred, opc, openErr, tcp, issued, cmdErr>>

\* The file and git transports speak v0 and v2, and v2 unless told otherwise.
ResolvePreferredProtocol == preferred # 1

Failed(err) == opc' = "failed" /\ openErr' = err

Goes(state) == opc' = state /\ UNCHANGED openErr

CommandEnds(err) ==
    /\ issued < MaxStreamCommands /\ issued' = issued + 1
    /\ cmdErr' = err
=============================================================================
