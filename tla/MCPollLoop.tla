----------------------------- MODULE MCPollLoop -----------------------------
(* The program's own numbers, with two ticks to the second: intervals of   *)
(* 5, 30, 100, 300 and 3600 seconds, a backoff from 5 to 300 seconds.      *)
EXTENDS PollLoop
=============================================================================
