--------------------------- MODULE MCReplayService ---------------------------
(* Instances of ReplayService for TLC: the requests a client uses.           *)
EXTENDS ReplayService

StudioRequests == {"start", "stop", "inject"}   \* the buttons of Replay Studio
PlaybackRequests == {"start", "stop"}
=============================================================================
