------------------------------ MODULE MCPoller ------------------------------
(* A fast service, the agent, whose interval is shorter than the backoff,  *)
(* and a slow one whose interval is longer, as plex-recent.                *)
EXTENDS Poller, TLC
CONSTANTS agent, slow, logs, alerts
MCPosition == agent :> 1 @@ slow :> 2 @@ logs :> 3 @@ alerts :> 4
MCInterval == agent :> 2 @@ slow :> 4
MCJitter == agent :> 0 @@ slow :> 1
MCEvery == logs :> 2 @@ alerts :> 4
=============================================================================
