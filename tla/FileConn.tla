------------------------------ MODULE FileConn ------------------------------
(***************************************************************************)
(* The file:// transport as Dial sees it (transport/file/open.go): what    *)
(* can be at the path of the URL, and a connection that is open or closed. *)
(* What goes on inside the connection is FileSession.                      *)
(***************************************************************************)
EXTENDS StreamConn

\* What DiscoverAlgo and objstore.Open find wrong.
StoreErrs == {"NotARepo", "UnsupportedFormat", "Corrupt", "io"}

MapOpenError(err) ==
    CASE err = "NotARepo" -> "NotFound"
      [] err = "UnsupportedFormat" -> "UnsupportedFormat"
      [] err = "Corrupt" -> "Refused"
      [] err = "io" -> "io"

\* The version, the escapes of the path, the repository's object format and
\* the store; the context plays no part.
FileOpen ==
    /\ opc = "start"
    /\ \/ ~ResolvePreferredProtocol /\ Failed("Unsupported") /\ UNCHANGED tcp
       \/ ResolvePreferredProtocol /\ Failed("NotFound") /\ UNCHANGED tcp
       \/ /\ ResolvePreferredProtocol
          /\ \E err \in StoreErrs : Failed(MapOpenError(err))
          /\ UNCHANGED tcp
       \/ ResolvePreferredProtocol /\ Goes("open") /\ tcp' = "open"
    /\ UNCHANGED <<ctxEnded, preferred, issued, cmdErr>>

\* Command: its context has ended, the write fails, or not.
FileCommand ==
    /\ opc = "open"
    /\ \E err \in {"ok", "ctx", "write"} : CommandEnds(err)
    /\ UNCHANGED <<ctxEnded, preferred, opc, openErr, tcp>>

FileClose ==
    /\ opc = "open"
    /\ Goes("closed") /\ tcp' = "closed"
    /\ UNCHANGED <<ctxEnded, preferred, issued, cmdErr>>
=============================================================================
