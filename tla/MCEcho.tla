------------------------------- MODULE MCEcho -------------------------------
EXTENDS EchoSystem

CONSTANTS c1, c2
=============================================================================
