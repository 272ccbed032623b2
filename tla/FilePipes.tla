----------------------------- MODULE FilePipes -----------------------------
(***************************************************************************)
(* The two in-memory pipes that join a file:// session to the server       *)
(* goroutine of its connection (transport/file/open.go, openTyped), with   *)
(* the context that bounds the goroutine's life.                           *)
(*                                                                         *)
(* io.Pipe is Go's synchronous pipe and no part of the repository: a write *)
(* completes when a reader has taken its bytes, nothing is buffered, and   *)
(* closing either end wakes whoever is blocked on the other one.  One      *)
(* pkt-line is one Write, so a pkt-line changes hands in one step, a joint *)
(* step of its writer and its reader.                                      *)
(***************************************************************************)

VARIABLES
    c2s,        \* client to server: clientWriter / serverReader
    s2c,        \* server to client: serverWriter / clientReader
    ctx         \* derivedCtx.Err(): what the goroutine's context reports

pipeVars == <<c2s, s2c, ctx>>

(***************************************************************************)
(* Errors, by the identity errors.Is can see.  "nil" is no error.          *)
(***************************************************************************)
PipeErrs == {"EOF", "UnexpectedEOF", "ClosedPipe"}
CtxErrs == {"Canceled", "DeadlineExceeded"}
ServeErrs == PipeErrs \cup CtxErrs \cup {"Store", "Refused", "Protocol"}

(***************************************************************************)
(* A pipe remembers the first error each of its ends was closed with.      *)
(***************************************************************************)
Pipe == [rerr : ServeErrs \cup {"nil"}, werr : ServeErrs \cup {"nil"}]
NewPipe == [rerr |-> "nil", werr |-> "nil"]

Closed(p) == p.rerr # "nil" \/ p.werr # "nil"

\* PipeReader.CloseWithError: no error means ErrClosedPipe; the first wins.
CloseReader(p, err) ==
    IF p.rerr # "nil" THEN p
    ELSE [p EXCEPT !.rerr = IF err = "nil" THEN "ClosedPipe" ELSE err]

\* PipeWriter.CloseWithError: no error means EOF; the first wins.
CloseWriter(p, err) ==
    IF p.werr # "nil" THEN p
    ELSE [p EXCEPT !.werr = IF err = "nil" THEN "EOF" ELSE err]

\* What Read returns on a closed pipe: the writer's error, unless the reader
\* itself has been closed.
ReadErr(p) == IF p.rerr = "nil" THEN p.werr ELSE "ClosedPipe"

\* What Write returns on a closed pipe: the reader's error, unless the writer
\* itself has been closed.
WriteErr(p) == IF p.werr = "nil" THEN p.rerr ELSE "ClosedPipe"

\* openTyped: two fresh pipes and a live context.
PipesInit == c2s = NewPipe /\ s2c = NewPipe /\ ctx = "nil"

PipesTypeOK == c2s \in Pipe /\ s2c \in Pipe /\ ctx \in CtxErrs \cup {"nil"}
============================================================================
