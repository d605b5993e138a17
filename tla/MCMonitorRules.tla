--------------------------- MODULE MCMonitorRules ---------------------------
(* One rule of each gate and a counter, alone, and two rules that a broken  *)
(* host lets fire together.                                                 *)
EXTENDS MonitorRules

MCScenarios == {{"stt_paused"}, {"nats_down"}, {"scrape_failed"},
                {"rtmp_auth_disabled"}, {"send_failed"},
                {"nats_down", "scrape_failed"}}
=============================================================================
