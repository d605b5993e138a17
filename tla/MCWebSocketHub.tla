---------------------------- MODULE MCWebSocketHub ----------------------------
(* WebSocketHub on small instances.  Sessions are interchangeable, and so   *)
(* are sockets and stop requests.                                           *)
EXTENDS WebSocketHub, TLC

HubSymmetry ==
    Permutations(Sessions) \cup Permutations(Sockets) \cup Permutations(Stops)
=============================================================================
