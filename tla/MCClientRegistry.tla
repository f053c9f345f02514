--------------------------- MODULE MCClientRegistry ---------------------------
\* Instances of ClientRegistry for TLC.
EXTENDS ClientRegistry, TLC
CONSTANTS a, b, x, y
================================================================================
