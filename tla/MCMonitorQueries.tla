-------------------------- MODULE MCMonitorQueries --------------------------
(* Three pairs, the last two with one time and the first with a later one   *)
(* than its id suggests.                                                    *)
EXTENDS MonitorQueries

MCAt      == <<2, 1, 1>>
MCFilters == {{1, 2, 3}, {1, 3}}
MCLimits  == {0, 1, 2, None}
=============================================================================
