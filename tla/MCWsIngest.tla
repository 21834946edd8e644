----------------------------- MODULE MCWsIngest -----------------------------
(* Small instance of WsIngest.  A unit of time is five seconds: run_real_ws   *)
(* looks every two and pings after four, run_mock_ws every one after one; the *)
(* pauses of five and three seconds are one unit each.  A frame holds fewer   *)
(* ticks than sample_every, so that a step shows how many it read.            *)
EXTENDS WsIngest

MCPingEvery == [real |-> 2, mock |-> 1]
MCKeepAlive == [real |-> 4, mock |-> 1]
MCPause == [real |-> 1, mock |-> 1]
==============================================================================
