--------------------------- MODULE MCPublishBuffer ---------------------------
(* PublishBuffer on a small instance: three spans through a buffer of two.   *)
EXTENDS PublishBuffer
=============================================================================
