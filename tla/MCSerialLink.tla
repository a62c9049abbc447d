---------------------------- MODULE MCSerialLink ----------------------------
(* SerialLink with two overlapping connection callbacks. *)
EXTENDS SerialLink
=============================================================================
