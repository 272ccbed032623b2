--------------------------- MODULE MCHttpSession ---------------------------
(* HttpSession on small instances: symmetric goroutines.                   *)
EXTENDS HttpSession, TLC
Symmetry == Permutations(Callers)
============================================================================
