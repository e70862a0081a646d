----------------------------- MODULE MCCodexRunner -----------------------------
(* One issue, two lanes and small bounds for it.                              *)
EXTENDS CodexRunner
=============================================================================
