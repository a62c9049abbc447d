--------------------------- MODULE MCHADiscovery ---------------------------
(* HADiscovery with a sensor of one field and one button. *)
EXTENDS HADiscovery

MCEntitiesOf == [s \in Sensors |-> {"s1_temp"}]
=============================================================================
