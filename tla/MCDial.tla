------------------------------- MODULE MCDial -------------------------------
EXTENDS Dial

\* No redirects, the default, and a limit of one.
MCLimits == {-1, 0, 1}
=============================================================================
