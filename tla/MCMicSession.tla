----------------------------- MODULE MCMicSession -----------------------------
(* MicSession on small instances.                                           *)
EXTENDS MicSession
=============================================================================
