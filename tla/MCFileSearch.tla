----------------------------- MODULE MCFileSearch -----------------------------
EXTENDS FileSearch, TLC

CONSTANTS relative, absolute, script, copy, other

\* "./" before a relative name means the same file; an absolute name behind a
\* directory means another one.
MCFileOf ==
  relative :> (0 :> script @@ 1 :> script @@ 2 :> copy) @@
  absolute :> (0 :> script @@ 1 :> other @@ 2 :> copy)
=============================================================================
