\* Two goroutines, two calls between them.  No symmetry: it is not sound for
\* liveness.
SPECIFICATION Spec
CONSTANTS
    Callers = {g1, g2}
    Nobody = nobody
    MaxCalls = 2
    MaxLines = 1
    DrainCap = 1
    UserClose = TRUE
CHECK_DEADLOCK FALSE
INVARIANTS ErrorMeansClosed OpenBodiesTracked OkMeansComplete
PROPERTIES CallsReturn
