------------------------- MODULE MCSentenceSeparator -------------------------
(* SentenceSeparator on small instances.                                    *)
EXTENDS SentenceSeparator
=============================================================================
