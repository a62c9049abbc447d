---------------------------- MODULE SensorPublish ----------------------------
(***************************************************************************)
(* Publishing sensor values over an unreliable MQTT connection             *)
(* (rflink/publisher.go).  Two kinds of goroutine run PublishSensor: the   *)
(* publish loop, on each message from the radio, and the OnConnectionUp    *)
(* callback, which flushes the pending buffer of what could not be         *)
(* published while the connection was down.  They share the buffer, under  *)
(* pendingMu, and the broker's retained topics.                            *)
(*                                                                         *)
(* A message is numbered (seq) in the order the radio delivered it, and    *)
(* carries a measurement (temperature, humidity, battery, extra fields),   *)
(* an event (cmd, switch), both or neither.                                *)
(***************************************************************************)
EXTENDS Integers, FiniteSets

CONSTANTS
  Sensors,     \* topic ids
  Ignored,     \* those on the ignore list
  Callbacks,   \* OnConnectionUp goroutines that may be running at a time
  Loop,        \* the publish loop
  TTL,         \* pendingTTL(), in ticks; 0 disables the buffer
  MaxMsgs,     \* bound on the messages of the radio
  MaxTime      \* bound on the clock

ASSUME SensorAssumption ==
  /\ Loop \notin Callbacks /\ Ignored \subseteq Sensors
  /\ TTL \in Nat /\ MaxMsgs \in Nat /\ MaxTime \in Nat

VARIABLES
  now,         \* the clock
  link,        \* cm.Publish can reach the broker
  received,    \* number of messages received
  pc,          \* where each goroutine is
  cur,         \* the message its PublishSensor works on
  todo,        \* fields of cur still to be published
  items,       \* what a callback's flushPending has taken and not yet published
  pending,     \* topic id -> buffered message and storedAt, or None
  value,       \* broker: seq of the retained measurement of each sensor
  delivered,   \* history: seqs whose measurement reached the broker
  events,      \* history: how often the event of each message did
  expired,     \* history: seqs dropped from the buffer as too old
  latest,      \* history: seq of each sensor's last message with a measurement
  raced        \* history: sensors whose buffer entry met one of the two hazards:
               \* two goroutines on it, or cleared by a message without measurement

Threads == Callbacks \cup {Loop}
None == [seq |-> 0]
Msgs == [seq : 1..MaxMsgs, sensor : Sensors, meas : BOOLEAN, event : BOOLEAN]
Entries == [msg : Msgs, storedAt : Nat]

environment == <<now, link, received>>
history == <<delivered, events, expired, latest, raced>>
vars == <<environment, pc, cur, todo, items, pending, value, history>>

Init ==
  /\ now = 0
  /\ link \in BOOLEAN
  /\ received = 0
  /\ pc = [t \in Threads |-> "idle"]
  /\ cur = [t \in Threads |-> None]
  /\ todo = [t \in Threads |-> {}]
  /\ items = [c \in Callbacks |-> {}]
  /\ pending = [s \in Sensors |-> None]
  /\ value = [s \in Sensors |-> 0]
  /\ delivered = {}
  /\ events = [q \in 1..MaxMsgs |-> 0]
  /\ expired = {}
  /\ latest = [s \in Sensors |-> 0]
  /\ raced = {}

-----------------------------------------------------------------------------
(* PublishSensor. *)

\* Mutant: the buffer keeps cmd and switch.
StripEventFieldsNot(m) == m

StripEventFields(m) == [m EXCEPT !.event = FALSE]

FieldsForPublish(m) == (IF m.meas THEN {"meas"} ELSE {})
                       \cup (IF m.event THEN {"event"} ELSE {})

\* Goroutine t returns from PublishSensor: to the publish loop's select, or to
\* the next item of flushPending.
Return(t) ==
  /\ pc' = [pc EXCEPT ![t] = IF t = Loop THEN "idle" ELSE "next"]
  /\ cur' = [cur EXCEPT ![t] = None]
  /\ todo' = [todo EXCEPT ![t] = {}]

\* PublishSensor(m): returns at once for an ignored sensor.
Enter(t, m) ==
  IF m.sensor \in Ignored
  THEN Return(t)
  ELSE /\ pc' = [pc EXCEPT ![t] = "fields"]
       /\ cur' = [cur EXCEPT ![t] = m]
       /\ todo' = [todo EXCEPT ![t] = FieldsForPublish(m)]

\* The broker gets field f of message m.
Deliver(f, m) ==
  /\ value' = IF f = "meas" THEN [value EXCEPT ![m.sensor] = m.seq] ELSE value
  /\ delivered' = IF f = "meas" THEN delivered \cup {m.seq} ELSE delivered
  /\ events' = IF f = "event" THEN [events EXCEPT ![m.seq] = @ + 1] ELSE events
  /\ UNCHANGED <<expired, latest, raced>>

\* A field is published and acknowledged; the fields come in any order (they
\* are the keys of a map), sumJson comes last.
PublishField(t) ==
  /\ pc[t] = "fields"
  /\ link
  /\ \E f \in todo[t] :
       /\ Deliver(f, cur[t])
       /\ todo' = [todo EXCEPT ![t] = @ \ {f}]
  /\ UNCHANGED <<environment, pc, cur, items, pending>>

PublishSumJSON(t) ==
  /\ pc[t] = "fields"
  /\ todo[t] = {}
  /\ link
  /\ pc' = [pc EXCEPT ![t] = "published"]
  /\ UNCHANGED <<environment, cur, todo, items, pending, value, history>>

\* publishRaw fails or times out; the broker may have got the message all the
\* same, if it is the acknowledgement that was lost.
PublishFails(t) ==
  /\ pc[t] = "fields"
  /\ \/ UNCHANGED <<value, history>>
     \/ link /\ \E f \in todo[t] : Deliver(f, cur[t])
  /\ pc' = [pc EXCEPT ![t] = "failed"]
  /\ UNCHANGED <<environment, cur, todo, items, pending>>

\* Sensors whose value some other goroutine is working on as well.
Elsewhere(t) ==
  {cur[u].sensor : u \in {v \in Threads \ {t} : cur[v] # None}}
    \cup {m.sensor : m \in UNION {items[c] : c \in Callbacks \ {t}}}

\* Mutant: the first value is kept, not the latest.
StorePendingFirst(t) ==
  /\ pc[t] = "failed"
  /\ LET m == StripEventFields(cur[t])
     IN  /\ pending' = IF TTL > 0 /\ m.meas /\ pending[m.sensor] = None
                       THEN [pending EXCEPT ![m.sensor] = [msg |-> m, storedAt |-> now]]
                       ELSE pending
         /\ raced' = raced \cup ({m.sensor} \cap Elsewhere(t))
  /\ Return(t)
  /\ UNCHANGED <<environment, items, value, delivered, events, expired, latest>>

\* storePending, and publishFailed.Add: the latest caller wins.
StorePending(t) ==
  /\ pc[t] = "failed"
  /\ LET m == StripEventFields(cur[t])
     IN  /\ pending' = IF TTL > 0 /\ m.meas
                       THEN [pending EXCEPT ![m.sensor] = [msg |-> m, storedAt |-> now]]
                       ELSE pending
         /\ raced' = raced \cup ({m.sensor} \cap Elsewhere(t))
  /\ Return(t)
  /\ UNCHANGED <<environment, items, value, delivered, events, expired, latest>>

\* published.Add, clearPending, the sample buffer and the webhook; whatever is
\* buffered under the topic id goes.
ClearPending(t) ==
  /\ pc[t] = "published"
  /\ pending' = [pending EXCEPT ![cur[t].sensor] = None]
  /\ raced' = raced \cup ({cur[t].sensor} \cap Elsewhere(t))
                    \cup {s \in {cur[t].sensor} : pending[s] # None /\ ~cur[t].meas}
  /\ Return(t)
  /\ UNCHANGED <<environment, items, value, delivered, events, expired, latest>>

PublishSensor(t) ==
  PublishField(t) \/ PublishSumJSON(t) \/ PublishFails(t) \/ StorePending(t)
    \/ ClearPending(t)

-----------------------------------------------------------------------------
(* The publish loop takes a message from the channel. *)

\* Mutant: what is buffered is published instead of the new message.
ReceiveBuffered ==
  /\ pc[Loop] = "idle"
  /\ received < MaxMsgs
  /\ received' = received + 1
  /\ \E s \in Sensors, meas, event \in BOOLEAN :
       /\ Enter(Loop, IF pending[s] # None THEN pending[s].msg
                      ELSE [seq |-> received', sensor |-> s, meas |-> meas, event |-> event])
       /\ latest' = IF meas THEN [latest EXCEPT ![s] = received'] ELSE latest
  /\ UNCHANGED <<now, link, items, pending, value, delivered, events, expired, raced>>

Receive ==
  /\ pc[Loop] = "idle"
  /\ received < MaxMsgs
  /\ received' = received + 1
  /\ \E s \in Sensors, meas, event \in BOOLEAN :
       /\ Enter(Loop, [seq |-> received', sensor |-> s, meas |-> meas, event |-> event])
       /\ latest' = IF meas THEN [latest EXCEPT ![s] = received'] ELSE latest
  /\ UNCHANGED <<now, link, items, pending, value, delivered, events, expired, raced>>

-----------------------------------------------------------------------------
(* The connection, and flushPending in the OnConnectionUp callback. *)

ConnectionUp(c) ==
  /\ ~link
  /\ pc[c] = "idle"
  /\ link' = TRUE
  /\ pc' = [pc EXCEPT ![c] = "flush"]
  /\ UNCHANGED <<now, received, cur, todo, items, pending, value, history>>

ConnectionDown ==
  /\ link
  /\ link' = FALSE
  /\ UNCHANGED <<now, received, pc, cur, todo, items, pending, value, history>>

TooOld(e) == now - e.storedAt > TTL

\* Under pendingMu: drop what is too old, take the rest, leave nothing.
TakePending(c) ==
  /\ pc[c] = "flush"
  /\ LET full == {s \in Sensors : pending[s] # None}
         old  == {s \in full : TooOld(pending[s])}
     IN  /\ items' = [items EXCEPT ![c] = {pending[s].msg : s \in full \ old}]
         /\ expired' = expired \cup {pending[s].msg.seq : s \in old}
         /\ pending' = [s \in Sensors |-> None]
         /\ raced' = raced \cup (full \cap Elsewhere(c))
  /\ pc' = [pc EXCEPT ![c] = "next"]
  /\ UNCHANGED <<environment, cur, todo, value, delivered, events, latest>>

\* Mutant: a flushed item is not taken off the list.
FlushNextKeeps(c) ==
  /\ pc[c] = "next"
  /\ \E m \in items[c] : Enter(c, m)
  /\ UNCHANGED <<environment, items, pending, value, history>>

FlushNext(c) ==
  /\ pc[c] = "next"
  /\ \E m \in items[c] :
       /\ items' = [items EXCEPT ![c] = @ \ {m}]
       /\ Enter(c, m)
  /\ UNCHANGED <<environment, pending, value, history>>

FlushDone(c) ==
  /\ pc[c] = "next"
  /\ items[c] = {}
  /\ pc' = [pc EXCEPT ![c] = "idle"]
  /\ UNCHANGED <<environment, cur, todo, items, pending, value, history>>

FlushPending(c) == TakePending(c) \/ FlushNext(c) \/ FlushDone(c)

Tick ==
  /\ now < MaxTime
  /\ now' = now + 1
  /\ UNCHANGED <<link, received, pc, cur, todo, items, pending, value, history>>

Next ==
  \/ Receive \/ ConnectionDown \/ Tick
  \/ \E c \in Callbacks : ConnectionUp(c) \/ FlushPending(c)
  \/ \E t \in Threads : PublishSensor(t)

\* Goroutines run on, and every publish returns within its 10 s timeout.
Fairness ==
  /\ \A t \in Threads : WF_vars(PublishSensor(t))
  /\ \A c \in Callbacks : WF_vars(FlushPending(c))

Spec == Init /\ [][Next]_vars /\ Fairness

-----------------------------------------------------------------------------
\* Every variable stays in its range.
TypeOK ==
  /\ now \in Nat /\ link \in BOOLEAN /\ received \in 0..MaxMsgs
  /\ pc \in [Threads -> {"idle", "fields", "failed", "published", "flush", "next"}]
  /\ pc[Loop] \notin {"flush", "next"}
  /\ cur \in [Threads -> Msgs \cup {None}]
  /\ \A t \in Threads : pc[t] \in {"fields", "failed", "published"} => cur[t] # None
  /\ todo \in [Threads -> SUBSET {"meas", "event"}]
  /\ items \in [Callbacks -> SUBSET Msgs]
  /\ pending \in [Sensors -> Entries \cup {None}]
  /\ value \in [Sensors -> 0..MaxMsgs]
  /\ delivered \subseteq 1..MaxMsgs /\ expired \subseteq 1..MaxMsgs
  /\ events \in [1..MaxMsgs -> Nat]
  /\ latest \in [Sensors -> 0..MaxMsgs] /\ raced \subseteq Sensors

\* An event (a button press) reaches the broker at most once, though the
\* message that carried it may be buffered, flushed and buffered again, and
\* though a publish may fail after the broker got it: whatever the buffer and
\* the flushes hold has a measurement and no event.
NoEventReplay ==
  /\ \A q \in 1..MaxMsgs : events[q] <= 1
  /\ \A s \in Sensors : pending[s] # None => pending[s].msg.meas /\ ~pending[s].msg.event
  /\ \A c \in Callbacks : \A m \in items[c] : m.meas /\ ~m.event

\* Only a flush can take the retained value of a sensor back to an older one:
\* the publish loop always holds the newest message there is.
OnlyFlushGoesBack ==
  [][\A s \in Sensors : value'[s] < value[s] =>
       \E c \in Callbacks : cur[c] # None /\ cur[c].sensor = s]_vars

\* The last measurement of a sensor is not lost: it reached the broker, waits
\* in the buffer, is being worked on, or expired.
Survives(s) ==
  \/ latest[s] \in delivered \cup expired \cup {0}
  \/ pending[s] # None /\ pending[s].msg.seq = latest[s]
  \/ \E t \in Threads : cur[t] # None /\ cur[t].seq = latest[s]
  \/ \E c \in Callbacks : \E m \in items[c] : m.seq = latest[s]

\* It can be lost in two ways only: two goroutines (a flush and the loop, or
\* two flushes) have the sensor at the same time, or a message of the sensor
\* that carries only an event is published while the measurement is buffered.
LatestSurvivesUnlessRaced ==
  TTL > 0 => \A s \in Sensors \ (Ignored \cup raced) : Survives(s)

\* A flush comes to its end, whatever the connection does meanwhile.
FlushEnds == \A c \in Callbacks : (pc[c] # "idle") ~> (pc[c] = "idle")

\* What the README and the options promise of the buffer: it keeps the latest
\* value while the connection is down.
LatestSurvives == TTL > 0 => \A s \in Sensors \ Ignored : Survives(s)

=============================================================================
