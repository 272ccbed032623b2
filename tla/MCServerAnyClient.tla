------------------------- MODULE MCServerAnyClient -------------------------
(* The instance of ServerAnyClient that TLC checks.                        *)
EXTENDS ServerAnyClient
============================================================================
