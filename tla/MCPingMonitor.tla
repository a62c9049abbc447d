--------------------------- MODULE MCPingMonitor ---------------------------
(* PingMonitor on small buffers. *)
EXTENDS PingMonitor
=============================================================================
