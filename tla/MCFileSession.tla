--------------------------- MODULE MCFileSession ---------------------------
(* The instance of FileSession that TLC checks; the .cfg files give the    *)
(* bounds.                                                                 *)
EXTENDS FileSessionRefinement
============================================================================
