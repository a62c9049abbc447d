--------------------------- MODULE SensorMessage ---------------------------
(***************************************************************************)
(* What a serial line says (rflink/sensor_data.go; dedupKey in             *)
(* rflink/publisher.go).  A line is the sequence of its pieces between     *)
(* semicolons, already trimmed and in upper case where the code folds      *)
(* case.  A piece key=value is a record; a piece without "=" has the value *)
(* Bare.  Of the values only the emptiness and the base they can be read   *)
(* in matter.                                                              *)
(***************************************************************************)
EXTENDS Sequences, SequencesExt, FiniteSets, Integers

Piece == [key : STRING, val : STRING]
Bare == "bare"
Word(k) == [key |-> k, val |-> Bare]
Field(k, v) == [key |-> k, val |-> v]
Empty == Word("")

\* strToUint16 accepts these values: "1" stands for a decimal numeral, "d7" for
\* a hexadecimal one; both in range.
Numerals(base) == IF base = 16 THEN {"1", "d7"} ELSE {"1"}

Known == {"ID", "TEMP", "HUM", "BAT", "SWITCH", "CMD"}
Unset == [k \in Known |-> ""]

\* Keys that contain ID at their end, so that the line contains "ID=".
EndsInID == {"ID", "RFID"}

-----------------------------------------------------------------------------
(* SensorDataFromMessage.  The error of a line is not told apart: whatever it *)
(* is, the line is skipped.                                                   *)

Invalid == [ok |-> FALSE]

\* One turn of the loop over the fields; sd is the SensorData so far: the known
\* fields, and in extra the others.
ParseField(sd, piece) ==
  LET k == piece.key  v == piece.val IN
  IF ~sd.ok \/ piece = Empty THEN sd
  ELSE IF \/ v = Bare
          \/ k = "TEMP" /\ v \notin Numerals(16)
          \/ k = "HUM" /\ v \notin Numerals(10)
  THEN Invalid
  ELSE IF k \in Known THEN [sd EXCEPT !.known[k] = v]
  ELSE [sd EXCEPT !.extra = [x \in DOMAIN @ \cup {k} |-> IF x = k THEN v ELSE @[x]]]

SensorDataFromMessage(m) ==
  LET none == [ok |-> TRUE, model |-> m[3], known |-> Unset, extra |-> [k \in {} |-> ""]]
      sd == FoldLeft(ParseField, none, SubSeq(m, 4, Len(m)))
  IN  IF Len(m) < 3 THEN Invalid
      ELSE IF sd.ok /\ sd.known["ID"] # "" THEN sd ELSE Invalid

\* FieldsForPublish: the subtopics a sensor is published on.  A remote that says
\* both which button (SWITCH) and what it did (CMD) has one for each button.
FieldsForPublish(sd) ==
  LET set == {k \in Known \ {"ID"} : sd.known[k] # ""}
      events == {"SWITCH", "CMD"}
      topic(k) == <<k, "">>
      button == <<"sw_", sd.known["SWITCH"]>>
  IN  (IF events \subseteq set THEN {topic(k) : k \in set \ events} \cup {button}
                               ELSE {topic(k) : k \in set})
        \cup {topic(k) : k \in {x \in DOMAIN sd.extra : sd.extra[x] # ""}}

-----------------------------------------------------------------------------
(* ParseGatewayMessage. *)

NotGateway == [ok |-> FALSE]
VersionKeys == {"VERSION", "REV", "BUILD", "NAME"}

\* GatewayInfo.Version has two spellings.
Slot(k) == IF k = "VER" THEN "VERSION" ELSE k

\* What the loop over the pieces leaves in Version and Extra: the last of each.
GatewayFields(m) ==
  LET fields == {i \in DOMAIN m : m[i].val # Bare}
      last(s) == Max({i \in fields : Slot(m[i].key) = s})
  IN  [s \in {Slot(m[i].key) : i \in fields} |-> m[last(s)].val]

GatewayInfo(m) ==
  LET pong == Word("PONG") \in ToSet(m)
      said == GatewayFields(m)
  IN  IF pong \/ DOMAIN said \cap VersionKeys # {}
      THEN [ok |-> TRUE, pong |-> pong, said |-> said]
      ELSE NotGateway

\* Mutant: the line of a device is looked at, too.
ParseAnyMessage(m) == IF Len(m) < 2 \/ m[1] # Word("20") THEN NotGateway ELSE GatewayInfo(m)

ParseGatewayMessage(m) ==
  IF \/ Len(m) < 2 \/ m[1] # Word("20")
     \/ \E p \in ToSet(m) : p.key \in EndsInID /\ p.val # Bare
  THEN NotGateway
  ELSE GatewayInfo(m)

-----------------------------------------------------------------------------
\* Mutant: the sequence counter is part of the key.
DedupKeyWhole(m) == m

\* dedupKey: without the sequence counter, the second piece of a 20; line.
DedupKey(m) ==
  IF Len(m) >= 3 /\ m[1] = Word("20") THEN <<m[1]>> \o SubSeq(m, 3, Len(m)) ELSE m

\* What handleSerialMessage makes of a line that it does not drop.
Reading(m) ==
  LET gateway == ParseGatewayMessage(m)
      sd == SensorDataFromMessage(m)
  IN  IF gateway.ok THEN [kind |-> "gateway", info |-> gateway]
      ELSE IF sd.ok THEN [kind |-> "sensor", data |-> sd, fields |-> FieldsForPublish(sd)]
      ELSE [kind |-> "skipped"]

-----------------------------------------------------------------------------
(* The reference. *)

\* Every field of a device line is key=value, the numbers are numbers, and the
\* last ID says which device.
WellFormed(m) ==
  /\ Len(m) >= 3
  /\ \A i \in 4..Len(m) :
       \/ m[i] = Empty
       \/ /\ m[i].val # Bare
          /\ m[i].key = "TEMP" => m[i].val \in Numerals(16)
          /\ m[i].key = "HUM" => m[i].val \in Numerals(10)

\* What the line says of key k: its last value, "" for nothing.
LastOf(m, k) ==
  LET at == {i \in 4..Len(m) : m[i].key = k /\ m[i] # Empty}
  IN  IF at = {} THEN "" ELSE m[CHOOSE i \in at : \A j \in at : j <= i].val

SensorLine(m) == WellFormed(m) /\ LastOf(m, "ID") # ""

\* Over the lines of set Lines: no line is both a gateway reply and a sensor's,
\* so that the order in which handleSerialMessage asks the two parsers decides
\* nothing; and the sensor parser accepts a line as a whole or not at all, with
\* the last value of every field.
OneReadingOf(Lines) ==
  \A m \in Lines :
    LET sd == SensorDataFromMessage(m) IN
    /\ ~(sd.ok /\ ParseGatewayMessage(m).ok)
    /\ sd.ok <=> SensorLine(m)
    /\ sd.ok =>
         /\ \A k \in Known : sd.known[k] = LastOf(m, k)
         /\ \A k \in DOMAIN sd.extra : sd.extra[k] = LastOf(m, k)
         /\ {m[i].key : i \in {j \in 4..Len(m) : m[j] # Empty}} \subseteq
              Known \cup DOMAIN sd.extra
=============================================================================
