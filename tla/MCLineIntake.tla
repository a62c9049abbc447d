---------------------------- MODULE MCLineIntake ----------------------------
(* LineIntake with a PONG in two receptions and a sensor, and the parsers on *)
(* every line of up to three pieces behind the sequence counter.             *)
EXTENDS LineIntake

Seqs == {Word("01"), Word("02")}
Pong(seq) == <<Word("20"), seq, Word("PONG"), Empty>>
MCLines ==
  {Pong(seq) : seq \in Seqs}
    \cup {<<Word("20"), Word("01"), Word("EV1527"), Field("ID", "1"), Field("CMD", "on")>>}

Pieces ==
  {Empty, Word("EV1527"), Word("PONG"), Field("ID", "1"), Field("ID", ""), Field("RFID", "1"),
   Field("VER", "1"), Field("TEMP", "d7"), Field("TEMP", "on"), Field("HUM", "1"),
   Field("HUM", "d7"), Field("SWITCH", "1"), Field("CMD", "on")}
MCFrames ==
  LET behind == UNION {[1..n -> Pieces] : n \in 0..3}
  IN  {<<Word("20"), Word("01")>> \o t : t \in behind} \cup {<<Word("10")>> \o t : t \in behind}
=============================================================================
