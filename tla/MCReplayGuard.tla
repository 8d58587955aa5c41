--------------------------- MODULE MCReplayGuard ---------------------------
(* Small instances of ReplayGuard: a clock whose range is longer than the  *)
(* window MaxAge + MaxSkew and that can be set back by the whole skew      *)
(* allowance, and messages of which some share an id or a timestamp.       *)
EXTENDS ReplayGuard

MCTimes == 0..5
MCMessage == {[id |-> "a", ts |-> 1], [id |-> "b", ts |-> 1],
              [id |-> "a", ts |-> 2], [id |-> "c", ts |-> 2]}
=============================================================================
