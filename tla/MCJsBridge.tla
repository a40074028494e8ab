----------------------------- MODULE MCJsBridge -----------------------------
\* JsBridge for TLC.
EXTENDS JsBridge
=============================================================================
