------------------------- MODULE MCMetatypeRegistry -------------------------
\* The registry for TLC; MaxTypeId is given in the configuration.
EXTENDS MetatypeRegistry
=============================================================================
