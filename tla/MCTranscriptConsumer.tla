------------------------- MODULE MCTranscriptConsumer -------------------------
(* TranscriptConsumer on small instances: two sessions and a watermark map  *)
(* that has room for one.                                                   *)
EXTENDS TranscriptConsumer
=============================================================================
