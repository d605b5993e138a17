-------------------------- MODULE MCSessionRecords --------------------------
(* Two dashboards and two stops of a session, with a database that may fail *)
(* once and a process that may restart once.                                *)
EXTENDS SessionRecords
=============================================================================
