-------------------------- MODULE AbstractSession --------------------------
(***************************************************************************)
(* What a Session promises to the one caller that uses it, whatever        *)
(* carries its commands: no stream, no server goroutine, no Close.         *)
(*                                                                         *)
(* A call is answered with the whole of its response, in order, or it is   *)
(* left by the caller, or it fails.  A failure before the server has       *)
(* decided on a response leaves the session usable; a failure while the    *)
(* response is read is the last thing the session does.  What the server   *)
(* listed when it was dialled (protocol v0) is what every later call sees. *)
(***************************************************************************)
EXTENDS Naturals, Sequences

VARIABLES
    phase,      \* "dialing", "ready", "calling" or "over"
    number,     \* how many calls there have been
    kept,       \* the listing the session keeps from Dial
    whole,      \* the response to the current call: {} until it is decided
    given,      \* what the caller has been given of it
    outcome,    \* how the last call ended: "none", "ok", "broke" or "error"
    dead        \* whether a failure has ended the session

vars == <<phase, number, kept, whole, given, outcome, dead>>

Init ==
    /\ phase = "dialing" /\ number = 0 /\ kept = <<>>
    /\ \E w \in whole : whole = {w}
    /\ given = <<>> /\ outcome = "none" /\ dead = FALSE

\* Dial has read the whole of what the server listed, and nothing else.
Connect ==
    /\ phase = "dialing" /\ phase' = "ready"
    /\ \E w \in whole : kept' = w
    /\ whole' = {}
    /\ UNCHANGED <<number, given, outcome, dead>>

DialFails ==
    /\ phase = "dialing" /\ phase' = "over"
    /\ outcome' = "error" /\ whole' = {}
    /\ UNCHANGED <<number, kept, given, dead>>

NextCall == phase = "ready" /\ number' = number + 1 /\ UNCHANGED <<kept, dead>>

Begin ==
    /\ NextCall /\ ~dead
    /\ phase' = "calling" /\ given' = <<>> /\ outcome' = "none"
    /\ UNCHANGED whole

AnswerFromDial ==
    /\ NextCall /\ ~dead
    /\ given' = kept /\ outcome' = "ok"
    /\ UNCHANGED <<phase, whole>>

\* A dead session and an unsupported command: no request is made.
AnswerWithError ==
    /\ NextCall
    /\ given' = <<>> /\ outcome' = "error"
    /\ UNCHANGED <<phase, whole>>

\* The server decides on its response to this very call, once.
Decide ==
    /\ phase = "calling" /\ whole = {}
    /\ \E w \in whole' :
          /\ whole' = {w}
          /\ \A i \in DOMAIN w : w[i].id = number
    /\ UNCHANGED <<phase, number, kept, given, outcome, dead>>

Deliver ==
    /\ phase = "calling" /\ outcome = "none"
    /\ \E w \in whole :
          /\ Len(given) < Len(w)
          /\ given' = Append(given, w[Len(given) + 1])
    /\ UNCHANGED <<phase, number, kept, whole, outcome, dead>>

\* The call ends.
Ends(res) ==
    /\ phase = "calling" /\ phase' = "ready"
    /\ whole' = {} /\ outcome' = res
    /\ UNCHANGED <<number, kept>>

Complete == Ends("ok") /\ given' \in whole /\ UNCHANGED dead
Leave == Ends("broke") /\ UNCHANGED <<given, dead>>
Unanswered == Ends("error") /\ whole = {} /\ given = <<>> /\ UNCHANGED <<given, dead>>
Die == Ends("error") /\ ~dead /\ dead' = TRUE /\ UNCHANGED given

Next ==
    \/ Connect \/ DialFails \/ Begin \/ AnswerFromDial \/ AnswerWithError \/ Decide
    \/ Deliver \/ Complete \/ Leave \/ Unanswered \/ Die

Spec == Init /\ [][Next]_vars
============================================================================
