---------------------------- MODULE MCRtmpPipeline ----------------------------
(* RtmpPipeline on a small instance.                                        *)
EXTENDS RtmpPipeline
=============================================================================
