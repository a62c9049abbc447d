-------------------------- MODULE MCSensorPublish --------------------------
(* SensorPublish with one connection callback beside the publish loop. *)
EXTENDS SensorPublish
=============================================================================
