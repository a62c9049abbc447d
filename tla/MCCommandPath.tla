--------------------------- MODULE MCCommandPath ---------------------------
(* CommandPath with an MQTT and an HTTP caller, and a payload for each fate of *)
(* NormalizeCommand and CommandAllowed.                                        *)
EXTENDS CommandPath

MCNormal == [p \in Payloads |->
  CASE p = "10;X;ON" -> "10;X;ON;"  [] p = "10;X;ON;" -> "10;X;ON;"
    [] p = "20;Y;OFF;" -> "20;Y;OFF;" [] OTHER -> Bad]
=============================================================================
