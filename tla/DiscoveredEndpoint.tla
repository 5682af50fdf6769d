-------------------------- MODULE DiscoveredEndpoint --------------------------
(***************************************************************************)
(* What the two responsibilities of the block node traffic-shaper monitor  *)
(* share (internal/daemon/blocknode/traffic_shaper_monitor.go): the        *)
(* statusz endpoint that the pod watcher discovers and the poll loop       *)
(* reads, the channel that wakes the loop, and the process they live in.   *)
(***************************************************************************)
CONSTANTS
    NoURL,         \* ""
    MaxRestarts    \* bound on restarts of the daemon

VARIABLES
    discoveredStatuszURL,
    toSignal,      \* the watcher has changed the URL and will signal next
    urlChanged,    \* a token is in the channel of capacity 1
    restarted
==============================================================================
