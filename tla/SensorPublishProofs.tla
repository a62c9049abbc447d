------------------------ MODULE SensorPublishProofs ------------------------
(***************************************************************************)
(* Type correctness of SensorPublish, that no event is replayed, that only *)
(* a flush takes a retained value back, and that the last measurement of a *)
(* sensor survives unless raced, for every set of sensors, every number of *)
(* concurrent callbacks and every TTL.                                     *)
(***************************************************************************)
EXTENDS SensorPublish, TLAPS

\* The absent message is no message.
LEMMA NoneIsNoMsg == None \notin Msgs /\ \A m \in Msgs : m # None
BY SensorAssumption DEF None, Msgs

\* Stripping the event leaves a message of the same sensor, number and
\* measurement (StripEventFields, sensor_data.go).
LEMMA StripFacts ==
  ASSUME NEW m \in Msgs
  PROVE  /\ StripEventFields(m) \in Msgs
         /\ StripEventFields(m).seq = m.seq /\ StripEventFields(m).sensor = m.sensor
         /\ StripEventFields(m).meas = m.meas /\ StripEventFields(m).event = FALSE
BY DEF StripEventFields, Msgs

\* Fields exist only for what the message carries.
LEMMA FieldFacts ==
  ASSUME NEW m \in Msgs
  PROVE  /\ FieldsForPublish(m) \subseteq {"meas", "event"}
         /\ "event" \in FieldsForPublish(m) <=> m.event
         /\ "meas" \in FieldsForPublish(m) <=> m.meas
BY DEF FieldsForPublish, Msgs

\* The variables of PublishSensor, apart from the shared ones.
CallOK ==
  /\ pc \in [Threads -> {"idle", "fields", "failed", "published", "flush", "next"}]
  /\ pc[Loop] \notin {"flush", "next"}
  /\ cur \in [Threads -> Msgs \cup {None}]
  /\ \A t \in Threads : pc[t] \in {"fields", "failed", "published"} => cur[t] # None
  /\ todo \in [Threads -> SUBSET {"meas", "event"}]

\* The end of PublishSensor keeps the types.
LEMMA ReturnOK ==
  ASSUME CallOK, NEW t \in Threads, Return(t)
  PROVE  CallOK'
BY DEF CallOK, Return, Threads

\* The beginning of PublishSensor keeps the types.
LEMMA EnterOK ==
  ASSUME CallOK, NEW t \in Threads, NEW m \in Msgs, Enter(t, m)
  PROVE  CallOK'
<1>1. CASE m.sensor \in Ignored
  BY <1>1, ReturnOK DEF Enter
<1>2. CASE m.sensor \notin Ignored
  BY <1>2, FieldFacts, NoneIsNoMsg DEF Enter, CallOK, Threads
<1> QED
  BY <1>1, <1>2

\* The shared variables: buffer, broker and histories.
SharedOK ==
  /\ now \in Nat /\ link \in BOOLEAN /\ received \in 0..MaxMsgs
  /\ items \in [Callbacks -> SUBSET Msgs]
  /\ pending \in [Sensors -> Entries \cup {None}]
  /\ value \in [Sensors -> 0..MaxMsgs]
  /\ delivered \subseteq 1..MaxMsgs /\ expired \subseteq 1..MaxMsgs
  /\ events \in [1..MaxMsgs -> Nat]
  /\ latest \in [Sensors -> 0..MaxMsgs] /\ raced \subseteq Sensors

\* TypeOK in its two parts.
LEMMA TypeParts == TypeOK <=> CallOK /\ SharedOK
BY DEF TypeOK, CallOK, SharedOK

\* What Deliver does to the broker's side.
LEMMA DeliverOK ==
  ASSUME SharedOK, NEW m \in Msgs, NEW f \in {"meas", "event"}, Deliver(f, m)
  PROVE  /\ value' \in [Sensors -> 0..MaxMsgs]
         /\ delivered' \subseteq 1..MaxMsgs
         /\ events' \in [1..MaxMsgs -> Nat]
         /\ UNCHANGED <<expired, latest, raced>>
<1>1. m.seq \in 1..MaxMsgs /\ m.sensor \in Sensors
  BY DEF Msgs
<1>2. m.seq \in 0..MaxMsgs
  BY <1>1, SensorAssumption
<1>3. CASE f = "meas"
  BY <1>1, <1>2, <1>3 DEF SharedOK, Deliver
<1>4. CASE f = "event"
  <2>1. events' = [events EXCEPT ![m.seq] = @ + 1] /\ UNCHANGED <<value, delivered>>
    BY <1>4 DEF Deliver
  <2>2. events[m.seq] + 1 \in Nat
    BY <1>1 DEF SharedOK
  <2> QED
    BY <1>1, <2>1, <2>2 DEF SharedOK, Deliver
<1> QED BY <1>3, <1>4

\* The initial states have their types.
LEMMA TypeInit == Init => TypeOK
BY SensorAssumption DEF Init, TypeOK, Threads

\* TypeOK is inductive.
LEMMA TypeInductive ==
  ASSUME TypeOK, [Next]_vars
  PROVE  TypeOK'
<1>0. CallOK /\ SharedOK
  BY TypeParts
<1> SUFFICES CallOK' /\ SharedOK'
  BY DEF TypeOK, CallOK, SharedOK
<1>1. ASSUME NEW t \in Threads, PublishField(t)  PROVE CallOK' /\ SharedOK'
  <2>1. PICK f \in todo[t] : Deliver(f, cur[t]) /\ todo' = [todo EXCEPT ![t] = @ \ {f}]
    BY <1>1 DEF PublishField
  <2>2. cur[t] \in Msgs /\ f \in {"meas", "event"}
    BY <1>0, <1>1 DEF CallOK, PublishField
  <2>3. CallOK'
    BY <1>0, <1>1, <2>1 DEF CallOK, PublishField
  <2>4. SharedOK'
    BY <1>0, <1>1, <2>1, <2>2, DeliverOK DEF SharedOK, PublishField, environment
  <2> QED BY <2>3, <2>4
<1>2. ASSUME NEW t \in Threads, PublishSumJSON(t)  PROVE CallOK' /\ SharedOK'
  BY <1>0, <1>2 DEF PublishSumJSON, CallOK, SharedOK, environment, history
<1>3. ASSUME NEW t \in Threads, PublishFails(t)  PROVE CallOK' /\ SharedOK'
  <2>1. CallOK'
    BY <1>0, <1>3 DEF CallOK, PublishFails
  <2>2. cur[t] \in Msgs
    BY <1>0, <1>3 DEF CallOK, PublishFails
  <2>3. CASE UNCHANGED <<value, history>>
    BY <1>0, <1>3, <2>1, <2>3 DEF PublishFails, SharedOK, environment, history
  <2>4. CASE \E f \in todo[t] : Deliver(f, cur[t])
    <3>1. PICK f \in todo[t] : Deliver(f, cur[t])
      BY <2>4
    <3>2. f \in {"meas", "event"}
      BY <1>0, <3>1 DEF CallOK
    <3> QED
      BY <1>0, <1>3, <2>1, <2>2, <3>1, <3>2, DeliverOK
         DEF PublishFails, SharedOK, environment
  <2> QED
    BY <1>3, <2>3, <2>4 DEF PublishFails
<1>4. ASSUME NEW t \in Threads, StorePending(t)  PROVE CallOK' /\ SharedOK'
  <2>1. cur[t] \in Msgs
    BY <1>0, <1>4 DEF CallOK, StorePending
  <2> DEFINE m == StripEventFields(cur[t])
  <2>2. m \in Msgs /\ m.sensor \in Sensors
    BY <2>1, StripFacts DEF Msgs
  <2>3. [msg |-> m, storedAt |-> now] \in Entries
    BY <1>0, <2>2 DEF Entries, SharedOK
  <2>4. CallOK'
    BY <1>0, <1>4, ReturnOK DEF StorePending
  <2>5. pending' \in [Sensors -> Entries \cup {None}] /\ raced' \subseteq Sensors
    BY <1>0, <1>4, <2>2, <2>3 DEF StorePending, SharedOK
  <2> QED
    BY <1>0, <1>4, <2>4, <2>5 DEF StorePending, SharedOK, environment
<1>5. ASSUME NEW t \in Threads, ClearPending(t)  PROVE CallOK' /\ SharedOK'
  <2>1. cur[t] \in Msgs /\ cur[t].sensor \in Sensors
    BY <1>0, <1>5 DEF CallOK, ClearPending, Msgs
  <2>2. CallOK'
    BY <1>0, <1>5, ReturnOK DEF ClearPending
  <2> QED
    BY <1>0, <1>5, <2>1, <2>2 DEF ClearPending, SharedOK, environment
<1>6. CASE Receive
  <2>1. PICK s \in Sensors, meas \in BOOLEAN, event \in BOOLEAN :
          /\ Enter(Loop, [seq |-> received', sensor |-> s, meas |-> meas, event |-> event])
          /\ latest' = IF meas THEN [latest EXCEPT ![s] = received'] ELSE latest
    BY <1>6 DEF Receive
  <2>2. received' \in 1..MaxMsgs /\ received' \in 0..MaxMsgs
    BY <1>0, <1>6, SensorAssumption DEF Receive, SharedOK
  <2>3. [seq |-> received', sensor |-> s, meas |-> meas, event |-> event] \in Msgs
    BY <2>2 DEF Msgs
  <2>4. CallOK'
    BY <1>0, <2>1, <2>3, EnterOK DEF Threads
  <2> QED
    BY <1>0, <1>6, <2>1, <2>2, <2>4 DEF Receive, SharedOK
<1>7. ASSUME NEW c \in Callbacks, ConnectionUp(c)  PROVE CallOK' /\ SharedOK'
  BY <1>0, <1>7, SensorAssumption
     DEF ConnectionUp, CallOK, SharedOK, Threads, history
<1>8. ASSUME NEW c \in Callbacks, TakePending(c)  PROVE CallOK' /\ SharedOK'
  <2> DEFINE full == {s \in Sensors : pending[s] # None}
             old == {s \in full : TooOld(pending[s])}
  <2>1. \A s \in full : pending[s].msg \in Msgs /\ pending[s].msg.seq \in 1..MaxMsgs
    BY <1>0 DEF SharedOK, Entries, Msgs
  <2>2. CallOK'
    BY <1>0, <1>8, SensorAssumption DEF TakePending, CallOK, Threads
  <2>3. items' = [items EXCEPT ![c] = {pending[s].msg : s \in full \ old}]
        /\ expired' = expired \cup {pending[s].msg.seq : s \in old}
        /\ pending' = [s \in Sensors |-> None]
        /\ raced' = raced \cup (full \cap Elsewhere(c))
        /\ UNCHANGED <<environment, value, delivered, events, latest>>
    BY <1>8 DEF TakePending
  <2>4. {pending[s].msg : s \in full \ old} \subseteq Msgs
        /\ {pending[s].msg.seq : s \in old} \subseteq 1..MaxMsgs
        /\ full \subseteq Sensors
    BY <2>1
  <2> QED
    BY <1>0, <2>2, <2>3, <2>4 DEF SharedOK, environment
<1>9. ASSUME NEW c \in Callbacks, FlushNext(c)  PROVE CallOK' /\ SharedOK'
  <2>1. PICK m \in items[c] : items' = [items EXCEPT ![c] = @ \ {m}] /\ Enter(c, m)
    BY <1>9 DEF FlushNext
  <2>2. m \in Msgs /\ c \in Threads
    BY <1>0 DEF SharedOK, Threads
  <2>3. CallOK'
    BY <1>0, <2>1, <2>2, EnterOK
  <2> QED
    BY <1>0, <1>9, <2>1, <2>3 DEF FlushNext, SharedOK, environment, history
<1>10. ASSUME NEW c \in Callbacks, FlushDone(c)  PROVE CallOK' /\ SharedOK'
  BY <1>0, <1>10, SensorAssumption
     DEF FlushDone, CallOK, SharedOK, Threads, environment, history
<1>11. CASE ConnectionDown
  BY <1>0, <1>11 DEF ConnectionDown, CallOK, SharedOK, history
<1>12. CASE Tick
  BY <1>0, <1>12 DEF Tick, CallOK, SharedOK, history
<1>13. CASE UNCHANGED vars
  BY <1>0, <1>13 DEF vars, CallOK, SharedOK, environment, history
<1> QED
  BY <1>1, <1>2, <1>3, <1>4, <1>5, <1>6, <1>7, <1>8, <1>9, <1>10, <1>11,
     <1>12, <1>13
     DEF Next, PublishSensor, FlushPending

\* Every variable keeps its range.
THEOREM TypeCorrect == Spec => []TypeOK
<1>1. TypeOK /\ [Next]_vars => TypeOK'
  BY TypeInductive
<1> QED
  BY TypeInit, <1>1, PTL DEF Spec

-----------------------------------------------------------------------------
(* The inductive invariant behind the two properties. *)

\* A message in a callback's hands, or on its list, or in the buffer, carries a
\* measurement and no event, and has been received.
Stripped(m) == m.meas /\ ~m.event /\ m.seq <= received
CallbacksStripped ==
  \A c \in Callbacks :
    /\ cur[c] # None => Stripped(cur[c])
    /\ "event" \notin todo[c]
    /\ \A m \in items[c] : Stripped(m)
PendingStripped == \A s \in Sensors : pending[s] # None => Stripped(pending[s].msg)

\* The publish loop works on the newest message, whose event has not been
\* published while it is still to do; later events have not been published.
LoopNewest ==
  /\ cur[Loop] # None => cur[Loop].seq = received
  /\ \A q \in 1..MaxMsgs : q > received => events[q] = 0
  /\ pc[Loop] = "fields" /\ "event" \in todo[Loop] => events[received] = 0
ValuesOld == \A s \in Sensors : value[s] <= received
EventsOnce == \A q \in 1..MaxMsgs : events[q] <= 1

ReplayInv ==
  /\ TypeOK /\ CallbacksStripped /\ PendingStripped /\ LoopNewest /\ ValuesOld
  /\ EventsOnce

\* One delivery keeps the broker's side of ReplayInv, provided an event is
\* delivered only by the loop and only if it was still to do.
LEMMA DeliverReplay ==
  ASSUME ReplayInv, NEW t \in Threads, pc[t] = "fields", NEW f \in todo[t],
         Deliver(f, cur[t]), received' = received
  PROVE  /\ ValuesOld' /\ EventsOnce'
         /\ \A q \in 1..MaxMsgs : q > received => events'[q] = 0
         /\ f # "event" => events' = events
<1>1. cur[t] \in Msgs /\ cur[t].seq \in 1..MaxMsgs /\ cur[t].sensor \in Sensors
  BY DEF ReplayInv, TypeOK, Msgs
<1>2. f \in {"meas", "event"} /\ received \in 0..MaxMsgs
      /\ events \in [1..MaxMsgs -> Nat] /\ value \in [Sensors -> 0..MaxMsgs]
  BY DEF ReplayInv, TypeOK
<1>3. CASE f = "event"
  <2>1. t = Loop
    BY <1>3 DEF ReplayInv, CallbacksStripped, Threads
  <2>2. cur[t].seq = received /\ events[received] = 0
    BY <1>1, <1>3, <2>1, NoneIsNoMsg DEF ReplayInv, LoopNewest
  <2>3. events' = [events EXCEPT ![received] = @ + 1] /\ value' = value
    BY <1>3, <2>2 DEF Deliver
  <2> QED
    BY <1>1, <1>2, <1>3, <2>2, <2>3 DEF ReplayInv, ValuesOld, EventsOnce, LoopNewest
<1>4. CASE f = "meas"
  <2>1. value' = [value EXCEPT ![cur[t].sensor] = cur[t].seq] /\ events' = events
    BY <1>4 DEF Deliver
  <2>2. cur[t].seq <= received
    <3>1. CASE t = Loop
      BY <1>1, <1>2, <3>1, NoneIsNoMsg DEF ReplayInv, LoopNewest
    <3>2. CASE t \in Callbacks
      BY <1>1, <3>2, NoneIsNoMsg DEF ReplayInv, CallbacksStripped, Stripped
    <3> QED BY <3>1, <3>2 DEF Threads
  <2> QED
    BY <1>1, <1>2, <1>4, <2>1, <2>2 DEF ReplayInv, ValuesOld, EventsOnce, LoopNewest
<1> QED BY <1>2, <1>3, <1>4

\* Return drops the message.
LEMMA ReturnReplay ==
  ASSUME ReplayInv, NEW t \in Threads, Return(t)
  PROVE  /\ \A c \in Callbacks : /\ cur'[c] # None => Stripped(cur'[c])
                                 /\ "event" \notin todo'[c]
         /\ cur'[Loop] # None => cur'[Loop].seq = received
         /\ pc'[Loop] = "fields" /\ "event" \in todo'[Loop] => events[received] = 0
BY DEF ReplayInv, TypeOK, CallbacksStripped, LoopNewest, Return, Threads

\* ReplayInv is inductive.
LEMMA ReplayInductive ==
  ASSUME ReplayInv, [Next]_vars
  PROVE  ReplayInv'
<1>0. TypeOK'
  BY TypeInductive DEF ReplayInv
<1>a. Loop \in Threads /\ Loop \notin Callbacks /\ Callbacks \subseteq Threads
  BY SensorAssumption DEF Threads
<1> SUFFICES CallbacksStripped' /\ PendingStripped' /\ LoopNewest' /\ ValuesOld' /\ EventsOnce'
  BY <1>0 DEF ReplayInv
<1>1. ASSUME NEW t \in Threads, PublishField(t)
      PROVE  CallbacksStripped' /\ PendingStripped' /\ LoopNewest' /\ ValuesOld' /\ EventsOnce'
  <2>1. PICK f \in todo[t] : Deliver(f, cur[t]) /\ todo' = [todo EXCEPT ![t] = @ \ {f}]
    BY <1>1 DEF PublishField
  <2>2. /\ pc[t] = "fields" /\ received' = received
        /\ UNCHANGED <<pc, cur, items, pending>>
    BY <1>1 DEF PublishField, environment
  <2>3. /\ ValuesOld' /\ EventsOnce'
        /\ \A q \in 1..MaxMsgs : q > received => events'[q] = 0
        /\ f # "event" => events' = events
    BY <2>1, <2>2, DeliverReplay
  <2>4. \A u \in Threads : todo'[u] \subseteq todo[u]
    BY <2>1 DEF ReplayInv, TypeOK
  <2>5. CallbacksStripped' /\ PendingStripped'
    BY <1>a, <2>2, <2>4 DEF ReplayInv, CallbacksStripped, PendingStripped, Stripped
  <2>6. pc[Loop] = "fields" /\ "event" \in todo'[Loop] => events'[received] = 0
    <3>1. CASE f = "event"
      <4>1. t = Loop
        BY <3>1 DEF ReplayInv, CallbacksStripped, Threads
      <4>2. "event" \notin todo'[Loop]
        BY <1>a, <2>1, <3>1, <4>1 DEF ReplayInv, TypeOK
      <4> QED BY <4>2
    <3>2. CASE f # "event"
      BY <1>a, <2>3, <2>4, <3>2 DEF ReplayInv, LoopNewest
    <3> QED BY <3>1, <3>2
  <2>7. LoopNewest'
    BY <2>2, <2>3, <2>6 DEF ReplayInv, LoopNewest
  <2> QED BY <2>3, <2>5, <2>7
<1>2. ASSUME NEW t \in Threads, PublishSumJSON(t)
      PROVE  CallbacksStripped' /\ PendingStripped' /\ LoopNewest' /\ ValuesOld' /\ EventsOnce'
  BY <1>2, <1>a DEF PublishSumJSON, ReplayInv, TypeOK, CallbacksStripped, PendingStripped,
               Stripped, LoopNewest, ValuesOld, EventsOnce, environment, history
<1>3. ASSUME NEW t \in Threads, PublishFails(t)
      PROVE  CallbacksStripped' /\ PendingStripped' /\ LoopNewest' /\ ValuesOld' /\ EventsOnce'
  <2>1. /\ pc[t] = "fields" /\ received' = received
        /\ pc' = [pc EXCEPT ![t] = "failed"]
        /\ UNCHANGED <<cur, todo, items, pending>>
    BY <1>3 DEF PublishFails, environment
  <2>2. CallbacksStripped' /\ PendingStripped'
    BY <2>1 DEF ReplayInv, CallbacksStripped, PendingStripped, Stripped
  <2>3. CASE UNCHANGED <<value, history>>
    BY <1>a, <2>1, <2>2, <2>3
       DEF ReplayInv, TypeOK, LoopNewest, ValuesOld, EventsOnce, history
  <2>4. CASE \E f \in todo[t] : Deliver(f, cur[t])
    <3>1. PICK f \in todo[t] : Deliver(f, cur[t])
      BY <2>4
    <3>2. /\ ValuesOld' /\ EventsOnce'
          /\ \A q \in 1..MaxMsgs : q > received => events'[q] = 0
          /\ f # "event" => events' = events
      BY <2>1, <3>1, DeliverReplay
    <3>3. pc'[Loop] = "fields" /\ "event" \in todo[Loop] => events'[received] = 0
      <4>1. CASE t = Loop
        BY <1>a, <2>1, <4>1 DEF ReplayInv, TypeOK
      <4>2. CASE t # Loop
        <5>1. f # "event"
          BY <4>2 DEF ReplayInv, CallbacksStripped, Threads
        <5> QED
          BY <1>a, <2>1, <3>2, <4>2, <5>1 DEF ReplayInv, TypeOK, LoopNewest
      <4> QED BY <4>1, <4>2
    <3> QED
      BY <2>1, <2>2, <3>2, <3>3 DEF ReplayInv, LoopNewest
  <2> QED
    BY <1>3, <2>3, <2>4 DEF PublishFails
<1>4. ASSUME NEW t \in Threads, StorePending(t)
      PROVE  CallbacksStripped' /\ PendingStripped' /\ LoopNewest' /\ ValuesOld' /\ EventsOnce'
  <2>1. cur[t] \in Msgs
    BY <1>4 DEF ReplayInv, TypeOK, StorePending
  <2> DEFINE m == StripEventFields(cur[t])
  <2>2. cur[t].seq <= received
    <3>1. CASE t = Loop
      BY <2>1, <3>1, NoneIsNoMsg DEF ReplayInv, LoopNewest, TypeOK
    <3>2. CASE t \in Callbacks
      BY <2>1, <3>2, NoneIsNoMsg DEF ReplayInv, CallbacksStripped, Stripped
    <3> QED BY <3>1, <3>2 DEF Threads
  <2>3. m.meas => Stripped(m)
    BY <2>1, <2>2, StripFacts DEF Stripped
  <2>4. /\ Return(t)
        /\ UNCHANGED <<environment, items, value, events>>
        /\ pending' = IF TTL > 0 /\ m.meas
                      THEN [pending EXCEPT ![m.sensor] = [msg |-> m, storedAt |-> now]]
                      ELSE pending
    BY <1>4 DEF StorePending
  <2>5. received' = received
    BY <2>4 DEF environment
  <2>6. PendingStripped'
    <3> SUFFICES ASSUME NEW s \in Sensors, pending'[s] # None
                 PROVE  Stripped(pending'[s].msg)
      BY <2>5 DEF PendingStripped, Stripped
    <3>1. CASE pending'[s] = pending[s]
      BY <3>1 DEF ReplayInv, PendingStripped
    <3>2. CASE pending'[s] # pending[s]
      <4>1. pending'[s] = [msg |-> m, storedAt |-> now] /\ m.meas
        BY <2>4, <3>2 DEF ReplayInv, TypeOK
      <4> QED BY <2>3, <4>1
    <3> QED BY <3>1, <3>2
  <2>7. CallbacksStripped' /\ LoopNewest' /\ ValuesOld' /\ EventsOnce'
    BY <2>4, <2>5, ReturnReplay
       DEF ReplayInv, CallbacksStripped, Stripped, LoopNewest, ValuesOld, EventsOnce
  <2> QED BY <2>6, <2>7
<1>5. ASSUME NEW t \in Threads, ClearPending(t)
      PROVE  CallbacksStripped' /\ PendingStripped' /\ LoopNewest' /\ ValuesOld' /\ EventsOnce'
  <2>1. /\ Return(t) /\ received' = received /\ UNCHANGED <<items, value, events>>
        /\ pending' = [pending EXCEPT ![cur[t].sensor] = None]
    BY <1>5 DEF ClearPending, environment
  <2>2. PendingStripped'
    BY <2>1 DEF ReplayInv, TypeOK, PendingStripped, Stripped
  <2>3. CallbacksStripped' /\ LoopNewest' /\ ValuesOld' /\ EventsOnce'
    BY <2>1, ReturnReplay
       DEF ReplayInv, CallbacksStripped, Stripped, LoopNewest, ValuesOld, EventsOnce
  <2> QED BY <2>2, <2>3
<1>6. CASE Receive
  <2>1. PICK s \in Sensors, meas \in BOOLEAN, event \in BOOLEAN :
          Enter(Loop, [seq |-> received', sensor |-> s, meas |-> meas, event |-> event])
    BY <1>6 DEF Receive
  <2> DEFINE m == [seq |-> received', sensor |-> s, meas |-> meas, event |-> event]
  <2>2. /\ received' = received + 1 /\ received \in 0..MaxMsgs
        /\ received' \in 1..MaxMsgs /\ UNCHANGED <<items, pending, value, events>>
    BY <1>6, SensorAssumption DEF Receive, ReplayInv, TypeOK
  <2>3. \A x \in Msgs : Stripped(x) => Stripped(x)'
    BY <2>2 DEF Stripped, Msgs
  <2>4. \A c \in Callbacks : cur'[c] = cur[c] /\ todo'[c] = todo[c]
    BY <1>a, <2>1 DEF Enter, Return, ReplayInv, TypeOK
  <2>5. CallbacksStripped' /\ PendingStripped'
    <3>1. \A c \in Callbacks : cur[c] # None => cur[c] \in Msgs
      BY <1>a DEF ReplayInv, TypeOK
    <3>2. \A c \in Callbacks : \A x \in items[c] : x \in Msgs
      BY DEF ReplayInv, TypeOK
    <3>3. \A r \in Sensors : pending[r] # None => pending[r].msg \in Msgs
      BY DEF ReplayInv, TypeOK, Entries
    <3>4. CallbacksStripped'
      BY <2>2, <2>3, <2>4, <3>1, <3>2 DEF ReplayInv, CallbacksStripped, Stripped
    <3>5. PendingStripped'
      BY <2>2, <2>3, <3>3 DEF ReplayInv, PendingStripped, Stripped
    <3> QED BY <3>4, <3>5
  <2>6. ValuesOld' /\ EventsOnce'
    BY <2>2 DEF ReplayInv, TypeOK, ValuesOld, EventsOnce
  <2>7. events[received'] = 0 /\ \A q \in 1..MaxMsgs : q > received' => events[q] = 0
    BY <2>2 DEF ReplayInv, LoopNewest
  <2>8. cur'[Loop] # None => cur'[Loop].seq = received'
    <3>1. cur'[Loop] \in {None, m}
      BY <1>a, <2>1 DEF Enter, Return, ReplayInv, TypeOK
    <3> QED BY <3>1
  <2> QED
    BY <2>2, <2>5, <2>6, <2>7, <2>8 DEF LoopNewest
<1>7. ASSUME NEW c \in Callbacks, ConnectionUp(c) \/ FlushDone(c)
      PROVE  CallbacksStripped' /\ PendingStripped' /\ LoopNewest' /\ ValuesOld' /\ EventsOnce'
  <2>1. /\ received' = received /\ UNCHANGED <<cur, todo, items, pending, value, events>>
        /\ pc'[Loop] = pc[Loop]
    BY <1>7, <1>a DEF ConnectionUp, FlushDone, environment, history, ReplayInv, TypeOK
  <2> QED
    BY <2>1 DEF ReplayInv, CallbacksStripped, PendingStripped, Stripped, LoopNewest,
                ValuesOld, EventsOnce
<1>8. ASSUME NEW c \in Callbacks, TakePending(c)
      PROVE  CallbacksStripped' /\ PendingStripped' /\ LoopNewest' /\ ValuesOld' /\ EventsOnce'
  <2>1. /\ received' = received /\ UNCHANGED <<cur, todo, value, events>>
        /\ pc'[Loop] = pc[Loop] /\ pending' = [s \in Sensors |-> None]
    BY <1>8, <1>a DEF TakePending, environment, ReplayInv, TypeOK
  <2>2. \A d \in Callbacks : \A m \in items'[d] :
          m \in items[d] \/ \E s \in Sensors : pending[s] # None /\ m = pending[s].msg
    BY <1>8 DEF TakePending, ReplayInv, TypeOK
  <2>3. CallbacksStripped'
    BY <2>1, <2>2 DEF ReplayInv, CallbacksStripped, PendingStripped, Stripped
  <2> QED
    BY <2>1, <2>3 DEF ReplayInv, PendingStripped, LoopNewest, ValuesOld, EventsOnce
<1>9. ASSUME NEW c \in Callbacks, FlushNext(c)
      PROVE  CallbacksStripped' /\ PendingStripped' /\ LoopNewest' /\ ValuesOld' /\ EventsOnce'
  <2>1. PICK m \in items[c] : items' = [items EXCEPT ![c] = @ \ {m}] /\ Enter(c, m)
    BY <1>9 DEF FlushNext
  <2>2. received' = received /\ UNCHANGED <<pending, value, events>>
    BY <1>9 DEF FlushNext, environment, history
  <2>3. m \in Msgs /\ Stripped(m)
    BY DEF ReplayInv, TypeOK, CallbacksStripped
  <2>4. cur'[Loop] = cur[Loop] /\ todo'[Loop] = todo[Loop] /\ pc'[Loop] = pc[Loop]
    BY <1>a, <2>1 DEF Enter, Return, ReplayInv, TypeOK
  <2>5. \A d \in Callbacks : cur'[d] \in {cur[d], m, None}
    BY <1>a, <2>1 DEF Enter, Return, ReplayInv, TypeOK
  <2>6. \A d \in Callbacks : "event" \notin todo'[d]
    <3>1. "event" \notin FieldsForPublish(m)
      BY <2>3, FieldFacts DEF Stripped
    <3>2. \A d \in Callbacks : todo'[d] \in {todo[d], {}, FieldsForPublish(m)}
      BY <1>a, <2>1 DEF Enter, Return, ReplayInv, TypeOK
    <3> QED BY <3>1, <3>2 DEF ReplayInv, CallbacksStripped
  <2>7. \A d \in Callbacks : items'[d] \subseteq items[d]
    BY <2>1 DEF ReplayInv, TypeOK
  <2>8. CallbacksStripped'
    BY <2>2, <2>3, <2>5, <2>6, <2>7 DEF ReplayInv, CallbacksStripped, Stripped
  <2> QED
    BY <2>2, <2>4, <2>8
       DEF ReplayInv, PendingStripped, Stripped, LoopNewest, ValuesOld, EventsOnce
<1>10. CASE ConnectionDown \/ Tick \/ UNCHANGED vars
  BY <1>10 DEF ConnectionDown, Tick, vars, environment, history, ReplayInv,
     CallbacksStripped, PendingStripped, Stripped, LoopNewest, ValuesOld, EventsOnce
<1> QED
  BY <1>1, <1>2, <1>3, <1>4, <1>5, <1>6, <1>7, <1>8, <1>9, <1>10
     DEF Next, PublishSensor, FlushPending

\* ReplayInv holds throughout.
LEMMA ReplayInvariant == Spec => []ReplayInv
<1>1. Init => ReplayInv
  BY TypeInit, SensorAssumption DEF Init, ReplayInv, CallbacksStripped, PendingStripped,
     LoopNewest, ValuesOld, EventsOnce, Threads
<1>2. ReplayInv /\ [Next]_vars => ReplayInv'
  BY ReplayInductive
<1> QED
  BY <1>1, <1>2, PTL DEF Spec

\* No button press is published twice, for any number of reconnections, failed
\* flushes and lost acknowledgements (storePending, StripEventFields).
THEOREM EventsNotReplayed == Spec => []NoEventReplay
<1>1. ReplayInv => NoEventReplay
  BY DEF ReplayInv, NoEventReplay, EventsOnce, PendingStripped, CallbacksStripped, Stripped
<1> QED
  BY ReplayInvariant, <1>1, PTL

\* A retained value goes back to an older one only while a flush has a message
\* of that sensor in hand: the publish loop itself never publishes old values.
THEOREM LoopNeverGoesBack == Spec => OnlyFlushGoesBack
<1>1. ASSUME ReplayInv, ReplayInv', [Next]_vars
      PROVE  [\A s \in Sensors : value'[s] < value[s] =>
                \E c \in Callbacks : cur[c] # None /\ cur[c].sensor = s]_vars
  <2> SUFFICES ASSUME NEW s \in Sensors, value'[s] < value[s]
               PROVE  \E c \in Callbacks : cur[c] # None /\ cur[c].sensor = s
    OBVIOUS
  <2>1. value[s] \in Int /\ value' # value
    BY <1>1 DEF ReplayInv, TypeOK
  <2>2. PICK t \in Threads : pc[t] = "fields" /\ \E f \in todo[t] : Deliver(f, cur[t])
    BY <1>1, <2>1 DEF Next, PublishSensor, FlushPending, PublishField, PublishSumJSON,
       PublishFails, StorePending, ClearPending, Receive, ConnectionUp, ConnectionDown,
       Tick, TakePending, FlushNext, FlushDone, vars
  <2>3. PICK f \in todo[t] : Deliver(f, cur[t])
    BY <2>2
  <2>4. cur[t] \in Msgs /\ cur[t].seq \in Int /\ cur[t].sensor \in Sensors
    BY <1>1, <2>2 DEF ReplayInv, TypeOK, Msgs
  <2>5. value' = [value EXCEPT ![cur[t].sensor] = cur[t].seq]
    BY <2>1, <2>3 DEF Deliver
  <2>6. cur[t].sensor = s /\ cur[t].seq < value[s]
    BY <1>1, <2>1, <2>4, <2>5 DEF ReplayInv, TypeOK
  <2>7. t # Loop
    BY <1>1, <2>1, <2>4, <2>6, NoneIsNoMsg DEF ReplayInv, LoopNewest, ValuesOld, TypeOK
  <2> QED
    BY <2>4, <2>6, <2>7, NoneIsNoMsg DEF Threads
<1> QED
  BY ReplayInvariant, <1>1, PTL DEF Spec, OnlyFlushGoesBack
-----------------------------------------------------------------------------
(* The last measurement of a sensor. *)

\* A goroutine that is not in PublishSensor has no message, one that does not
\* flush has no list.
AtRest ==
  /\ \A t \in Threads : pc[t] \in {"idle", "flush", "next"} => cur[t] = None
  /\ \A c \in Callbacks : pc[c] \in {"idle", "flush"} => items[c] = {}

\* The sensors a flush works on or has yet to work on.
Holds(c, s) == (cur[c] # None /\ cur[c].sensor = s) \/ \E m \in items[c] : m.sensor = s

\* The buffer has one message per sensor, under its own topic id, and so has
\* what a flush has taken from it.
OnePerSensor ==
  /\ \A s \in Sensors : pending[s] # None => pending[s].msg.sensor = s
  /\ \A c \in Callbacks : \A m, n \in items[c] : m.sensor = n.sensor => m = n
  /\ \A c \in Callbacks : cur[c] # None => \A m \in items[c] : m.sensor # cur[c].sensor

\* The measurement the publish loop works on is its sensor's last one.
LoopHasLatest ==
  cur[Loop] # None /\ cur[Loop].meas => latest[cur[Loop].sensor] = cur[Loop].seq

\* A measurement that is no longer to be published was.
PublishedDelivered ==
  \A t \in Threads :
    /\ pc[t] = "published" => todo[t] = {}
    /\ pc[t] \in {"fields", "published"} /\ cur[t].meas /\ "meas" \notin todo[t] =>
         cur[t].seq \in delivered

\* What a flush has in hand is not in the buffer as well, unless raced.
NotBufferedTwice ==
  \A s \in Sensors \ raced : (\E c \in Callbacks : Holds(c, s)) => pending[s] = None

\* Goroutine t has the measurement q of sensor s and has yet to publish it, or to
\* buffer it.
Carries(t, s, q) ==
  /\ cur[t] # None /\ cur[t].sensor = s /\ cur[t].seq = q /\ cur[t].meas
  /\ pc[t] = "failed" \/ (pc[t] = "fields" /\ "meas" \in todo[t])

\* Where the last measurement of s is.
Kept(s) ==
  \/ latest[s] \in delivered \cup expired \cup {0}
  \/ pending[s] # None /\ pending[s].msg.seq = latest[s]
  \/ \E t \in Threads : Carries(t, s, latest[s])
  \/ \E c \in Callbacks : \E m \in items[c] : m.sensor = s /\ m.seq = latest[s]

LatestKept == TTL > 0 => \A s \in Sensors \ (Ignored \cup raced) : Kept(s)

LatestInv ==
  /\ AtRest /\ OnePerSensor /\ LoopHasLatest /\ PublishedDelivered /\ NotBufferedTwice
  /\ LatestKept

\* What PublishSensor's beginning and end do to each goroutine.
LEMMA ReturnAt ==
  ASSUME TypeOK, NEW t \in Threads, Return(t)
  PROVE  /\ cur'[t] = None /\ todo'[t] = {} /\ pc'[t] = IF t = Loop THEN "idle" ELSE "next"
         /\ \A u \in Threads : u # t => cur'[u] = cur[u] /\ todo'[u] = todo[u] /\ pc'[u] = pc[u]
BY DEF Return, TypeOK

LEMMA EnterAt ==
  ASSUME TypeOK, NEW t \in Threads, NEW m, Enter(t, m)
  PROVE  /\ m.sensor \in Ignored =>
              cur'[t] = None /\ todo'[t] = {} /\ pc'[t] = IF t = Loop THEN "idle" ELSE "next"
         /\ m.sensor \notin Ignored =>
              cur'[t] = m /\ todo'[t] = FieldsForPublish(m) /\ pc'[t] = "fields"
         /\ \A u \in Threads : u # t => cur'[u] = cur[u] /\ todo'[u] = todo[u] /\ pc'[u] = pc[u]
<1>1. CASE m.sensor \in Ignored
  BY <1>1, ReturnAt DEF Enter
<1>2. CASE m.sensor \notin Ignored
  BY <1>2 DEF Enter, TypeOK
<1> QED
  BY <1>1, <1>2

\* Elsewhere sees what any other flush holds.
LEMMA ElsewhereSees ==
  ASSUME NEW t \in Threads, NEW c \in Callbacks, c # t, NEW s, Holds(c, s)
  PROVE  s \in Elsewhere(t)
<1>1. CASE cur[c] # None /\ cur[c].sensor = s
  BY <1>1 DEF Elsewhere, Threads
<1>2. CASE \E m \in items[c] : m.sensor = s
  <2>1. PICK m \in items[c] : m.sensor = s
    BY <1>2
  <2>2. m \in UNION {items[d] : d \in Callbacks \ {t}}
    BY <2>1
  <2> QED
    BY <2>1, <2>2 DEF Elsewhere
<1> QED
  BY <1>1, <1>2 DEF Holds

\* Fields are published, or fail to be.
LEMMA LatestField ==
  ASSUME ReplayInv, LatestInv, NEW t \in Threads,
         PublishField(t) \/ PublishSumJSON(t) \/ PublishFails(t)
  PROVE  LatestInv'
<1>1. /\ pc[t] = "fields" /\ UNCHANGED <<cur, items, pending, latest, expired, raced>>
      /\ pc \in [Threads -> {"idle", "fields", "failed", "published", "flush", "next"}]
      /\ todo \in [Threads -> SUBSET {"meas", "event"}]
  BY DEF PublishField, PublishSumJSON, PublishFails, Deliver, history, ReplayInv, TypeOK
<1>2. \A u \in Threads : u # t => pc'[u] = pc[u] /\ todo'[u] = todo[u]
  BY <1>1 DEF PublishField, PublishSumJSON, PublishFails
<1>3. \/ /\ pc'[t] = "fields"
         /\ \/ todo'[t] = todo[t] \ {"meas"} /\ cur[t].seq \in delivered'
            \/ "meas" \in todo[t] => "meas" \in todo'[t]
      \/ pc'[t] = "published" /\ todo[t] = {} /\ todo'[t] = {}
      \/ pc'[t] = "failed"
  <2>1. CASE PublishField(t)
    <3>1. PICK g \in todo[t] : Deliver(g, cur[t]) /\ todo' = [todo EXCEPT ![t] = @ \ {g}]
      BY <2>1 DEF PublishField
    <3>2. pc'[t] = "fields" /\ todo'[t] = todo[t] \ {g}
      BY <1>1, <2>1, <3>1 DEF PublishField
    <3>3. g = "meas" => cur[t].seq \in delivered'
      BY <3>1 DEF Deliver
    <3> QED
      BY <3>2, <3>3
  <2>2. CASE PublishSumJSON(t)
    BY <1>1, <2>2 DEF PublishSumJSON
  <2>3. CASE PublishFails(t)
    BY <1>1, <2>3 DEF PublishFails
  <2> QED
    BY <2>1, <2>2, <2>3
<1>4. \A q \in delivered : q \in delivered'
  BY DEF PublishField, PublishSumJSON, PublishFails, Deliver, history
<1>5. AtRest'
  BY <1>1, <1>2, <1>3 DEF LatestInv, AtRest, Threads
<1>6. OnePerSensor' /\ LoopHasLatest' /\ NotBufferedTwice'
  BY <1>1 DEF LatestInv, OnePerSensor, LoopHasLatest, NotBufferedTwice, Holds
<1>7. PublishedDelivered'
  <2> SUFFICES ASSUME NEW u \in Threads
               PROVE  /\ pc'[u] = "published" => todo'[u] = {}
                      /\ pc'[u] \in {"fields", "published"} /\ cur[u].meas /\ "meas" \notin todo'[u] =>
                           cur[u].seq \in delivered'
    BY <1>1 DEF PublishedDelivered
  <2>1. CASE u # t
    BY <1>2, <1>4, <2>1 DEF LatestInv, PublishedDelivered
  <2>2. CASE u = t
    BY <1>1, <1>3, <1>4, <2>2 DEF LatestInv, PublishedDelivered
  <2> QED
    BY <2>1, <2>2
<1>8. LatestKept'
  <2> SUFFICES ASSUME TTL > 0, NEW s \in Sensors \ (Ignored \cup raced) PROVE Kept(s)'
    BY <1>1 DEF LatestKept
  <2>1. Kept(s)
    BY DEF LatestInv, LatestKept
  <2>2. ASSUME NEW u \in Threads, Carries(u, s, latest[s]) PROVE Kept(s)'
    <3>1. CASE u # t
      <4>1. Carries(u, s, latest[s])'
        BY <1>1, <1>2, <2>2, <3>1 DEF Carries
      <4> QED
        BY <4>1 DEF Kept
    <3>2. CASE u = t
      <4>1. "meas" \in todo[t] /\ cur[t].seq = latest[s]
        BY <1>1, <2>2, <3>2 DEF Carries
      <4>2. latest'[s] \in delivered' \/ Carries(t, s, latest[s])'
        BY <1>1, <1>3, <2>2, <3>2, <4>1 DEF Carries
      <4> QED
        BY <4>2 DEF Kept
    <3> QED
      BY <3>1, <3>2
  <2> QED
    BY <1>1, <1>4, <2>1, <2>2 DEF Kept
<1> QED
  BY <1>5, <1>6, <1>7, <1>8 DEF LatestInv

\* A message that could not be published goes to the buffer.  It replaces an
\* older one of the same sensor, or the sensor is raced.
LEMMA LatestStore ==
  ASSUME ReplayInv, LatestInv, NEW t \in Threads, StorePending(t)
  PROVE  LatestInv'
<1> DEFINE m == StripEventFields(cur[t])
<1>0. Loop \in Threads /\ Loop \notin Callbacks /\ Callbacks \subseteq Threads
  BY SensorAssumption DEF Threads
<1>a. PICK z \in Sensors : z = cur[t].sensor
  BY DEF ReplayInv, TypeOK, StorePending, Msgs
<1>1. z = cur[t].sensor /\ cur[t] \in Msgs /\ cur[t] # None /\ pc[t] = "failed" /\ TypeOK
  BY <1>a DEF ReplayInv, TypeOK, StorePending, Msgs
<1>2. m.seq = cur[t].seq /\ m.sensor = z /\ m.meas = cur[t].meas
  BY <1>1, StripFacts
<1>3. /\ UNCHANGED <<items, delivered, expired, latest>> /\ Return(t)
      /\ raced' = raced \cup ({z} \cap Elsewhere(t))
      /\ pending' = IF TTL > 0 /\ cur[t].meas
                    THEN [pending EXCEPT ![z] = [msg |-> m, storedAt |-> now]] ELSE pending
  BY <1>1, <1>2 DEF StorePending
<1>4. /\ cur'[t] = None /\ pc'[t] \in {"idle", "next"} /\ (t # Loop => pc'[t] = "next")
      /\ \A u \in Threads : u # t => cur'[u] = cur[u] /\ todo'[u] = todo[u] /\ pc'[u] = pc[u]
  BY <1>1, <1>3, ReturnAt
<1>5. /\ \A s \in Sensors : s # z => pending'[s] = pending[s]
      /\ TTL > 0 /\ cur[t].meas => pending'[z].msg = m /\ pending'[z] # None
      /\ ~(TTL > 0 /\ cur[t].meas) => pending' = pending
  <2>1. [msg |-> m, storedAt |-> now] # None /\ [msg |-> m, storedAt |-> now].msg = m
    BY DEF None
  <2> HIDE DEF m
  <2> QED
    BY <1>1, <1>3, <2>1 DEF TypeOK
<1> HIDE DEF m
<1>6. raced \subseteq raced' /\ (z \notin raced' => z \notin raced /\ z \notin Elsewhere(t))
  BY <1>3
<1>7. \A c \in Callbacks, s \in Sensors : Holds(c, s)' => Holds(c, s)
  BY <1>0, <1>3, <1>4 DEF Holds
<1>8. z \notin raced' => \A c \in Callbacks : ~Holds(c, z)'
  <2> SUFFICES ASSUME z \notin raced', NEW c \in Callbacks, Holds(c, z)' PROVE FALSE
    OBVIOUS
  <2>1. Holds(c, z)
    BY <1>7
  <2>2. c = t
    BY <1>6, <2>1, ElsewhereSees
  <2>3. \E n \in items[t] : n.sensor = z
    BY <1>3, <1>4, <2>2 DEF Holds
  <2> QED
    BY <1>1, <2>2, <2>3 DEF LatestInv, OnePerSensor
<1>9. t # Loop /\ z \notin raced => pending[z] = None
  <2>1. t # Loop => t \in Callbacks /\ Holds(t, z)
    BY <1>1 DEF Threads, Holds
  <2> QED
    BY <1>1, <2>1 DEF LatestInv, NotBufferedTwice
<1>10. AtRest'
  BY <1>0, <1>3, <1>4 DEF LatestInv, AtRest
<1>11. OnePerSensor'
  <2>1. \A s \in Sensors : pending'[s] # None => pending'[s].msg.sensor = s
    BY <1>1, <1>2, <1>5 DEF LatestInv, OnePerSensor
  <2> QED
    BY <1>0, <1>3, <1>4, <2>1 DEF LatestInv, OnePerSensor
<1>12. LoopHasLatest' /\ PublishedDelivered'
  BY <1>0, <1>3, <1>4 DEF LatestInv, LoopHasLatest, PublishedDelivered
<1>13. NotBufferedTwice'
  <2> SUFFICES ASSUME NEW s \in Sensors \ raced', NEW c \in Callbacks, Holds(c, s)'
               PROVE  pending'[s] = None
    BY DEF NotBufferedTwice
  <2>1. s # z
    BY <1>8
  <2>2. s \notin raced /\ Holds(c, s)
    BY <1>6, <1>7
  <2> QED
    BY <1>5, <2>1, <2>2 DEF LatestInv, NotBufferedTwice
<1>14. LatestKept'
  <2> SUFFICES ASSUME TTL > 0, NEW s \in Sensors \ (Ignored \cup raced') PROVE Kept(s)'
    BY DEF LatestKept
  <2>1. Kept(s)
    BY <1>6 DEF LatestInv, LatestKept
  <2>2. ASSUME pending[s] # None, pending[s].msg.seq = latest[s] PROVE Kept(s)'
    <3>1. CASE pending'[s] = pending[s]
      BY <1>3, <2>2, <3>1 DEF Kept
    <3>2. CASE pending'[s] # pending[s]
      <4>1. s = z /\ cur[t].meas /\ pending'[z].msg = m /\ pending'[z] # None
        BY <1>5, <3>2
      <4>2. t = Loop
        BY <1>6, <1>9, <2>2, <4>1
      <4>3. latest[s] = m.seq
        BY <1>1, <1>2, <4>1, <4>2 DEF LatestInv, LoopHasLatest
      <4> QED
        BY <1>3, <4>1, <4>3 DEF Kept
    <3> QED
      BY <3>1, <3>2
  <2>3. ASSUME NEW u \in Threads, Carries(u, s, latest[s]) PROVE Kept(s)'
    <3>1. CASE u # t
      <4>1. Carries(u, s, latest[s])'
        BY <1>3, <1>4, <2>3, <3>1 DEF Carries
      <4> QED
        BY <4>1 DEF Kept
    <3>2. CASE u = t
      <4>1. s = z /\ cur[t].meas /\ m.seq = latest[s]
        BY <1>1, <1>2, <2>3, <3>2 DEF Carries
      <4> QED
        BY <1>3, <1>5, <4>1 DEF Kept
    <3> QED
      BY <3>1, <3>2
  <2> QED
    BY <1>3, <2>1, <2>2, <2>3 DEF Kept
<1> QED
  BY <1>10, <1>11, <1>12, <1>13, <1>14 DEF LatestInv

\* A message that was published clears the buffer of its sensor; a measurement
\* that was buffered there is the one that was published, or the sensor is raced.
LEMMA LatestClear ==
  ASSUME ReplayInv, LatestInv, NEW t \in Threads, ClearPending(t)
  PROVE  LatestInv'
<1>0. Loop \in Threads /\ Loop \notin Callbacks /\ Callbacks \subseteq Threads
  BY SensorAssumption DEF Threads
<1>a. PICK z \in Sensors : z = cur[t].sensor
  BY DEF ReplayInv, TypeOK, ClearPending, Msgs
<1>1. z = cur[t].sensor /\ cur[t] \in Msgs /\ cur[t] # None /\ pc[t] = "published" /\ TypeOK
  BY <1>a DEF ReplayInv, TypeOK, ClearPending, Msgs
<1>2. /\ UNCHANGED <<items, delivered, expired, latest>> /\ Return(t)
      /\ raced \subseteq raced'
      /\ z \notin raced' => pending[z] = None \/ cur[t].meas
      /\ pending' = [pending EXCEPT ![z] = None]
  BY <1>1 DEF ClearPending
<1>3. /\ cur'[t] = None /\ pc'[t] \in {"idle", "next"} /\ (t # Loop => pc'[t] = "next")
      /\ \A u \in Threads : u # t => cur'[u] = cur[u] /\ todo'[u] = todo[u] /\ pc'[u] = pc[u]
  BY <1>1, <1>2, ReturnAt
<1>4. pending'[z] = None /\ \A s \in Sensors : s # z => pending'[s] = pending[s]
  BY <1>1, <1>2 DEF TypeOK
<1>5. \A c \in Callbacks, s \in Sensors : Holds(c, s)' => Holds(c, s)
  BY <1>0, <1>2, <1>3 DEF Holds
<1>6. AtRest'
  BY <1>0, <1>2, <1>3 DEF LatestInv, AtRest
<1>7. OnePerSensor'
  <2>1. \A s \in Sensors : pending'[s] # None => pending'[s].msg.sensor = s
    BY <1>4 DEF LatestInv, OnePerSensor
  <2> QED
    BY <1>0, <1>2, <1>3, <2>1 DEF LatestInv, OnePerSensor
<1>8. LoopHasLatest' /\ PublishedDelivered'
  BY <1>0, <1>2, <1>3 DEF LatestInv, LoopHasLatest, PublishedDelivered
<1>9. NotBufferedTwice'
  BY <1>2, <1>4, <1>5 DEF LatestInv, NotBufferedTwice
<1>10. LatestKept'
  <2> SUFFICES ASSUME TTL > 0, NEW s \in Sensors \ (Ignored \cup raced') PROVE Kept(s)'
    BY DEF LatestKept
  <2>1. Kept(s)
    BY <1>2 DEF LatestInv, LatestKept
  <2>2. ASSUME pending[s] # None, pending[s].msg.seq = latest[s] PROVE Kept(s)'
    <3>1. CASE s # z
      BY <1>2, <1>4, <2>2, <3>1 DEF Kept
    <3>2. CASE s = z
      <4>1. cur[t].meas /\ z \notin raced
        BY <1>2, <2>2, <3>2
      <4>2. t = Loop
        <5>1. t # Loop => t \in Callbacks /\ Holds(t, z)
          BY <1>1 DEF Threads, Holds
        <5> QED
          BY <2>2, <3>2, <4>1, <5>1 DEF LatestInv, NotBufferedTwice
      <4>3. cur[t].seq \in delivered
        BY <1>1, <4>1 DEF LatestInv, PublishedDelivered
      <4>4. latest[s] = cur[t].seq
        BY <1>1, <3>2, <4>1, <4>2 DEF LatestInv, LoopHasLatest
      <4> QED
        BY <1>2, <4>3, <4>4 DEF Kept
    <3> QED
      BY <3>1, <3>2
  <2>3. ASSUME NEW u \in Threads, Carries(u, s, latest[s]) PROVE Kept(s)'
    <3>1. u # t
      BY <1>1, <2>3 DEF Carries
    <3>2. Carries(u, s, latest[s])'
      BY <1>2, <1>3, <2>3, <3>1 DEF Carries
    <3> QED
      BY <3>2 DEF Kept
  <2> QED
    BY <1>2, <2>1, <2>2, <2>3 DEF Kept
<1> QED
  BY <1>6, <1>7, <1>8, <1>9, <1>10 DEF LatestInv

\* A message from the radio: its measurement is the last one now, and the loop
\* has it.
LEMMA LatestReceive ==
  ASSUME ReplayInv, LatestInv, Receive
  PROVE  LatestInv'
<1>0. Loop \in Threads /\ Loop \notin Callbacks /\ Callbacks \subseteq Threads /\ TypeOK
  BY SensorAssumption DEF Threads, ReplayInv
<1>1. PICK z \in Sensors, meas \in BOOLEAN, event \in BOOLEAN :
        /\ Enter(Loop, [seq |-> received', sensor |-> z, meas |-> meas, event |-> event])
        /\ latest' = IF meas THEN [latest EXCEPT ![z] = received'] ELSE latest
  BY DEF Receive
<1> DEFINE m == [seq |-> received', sensor |-> z, meas |-> meas, event |-> event]
<1>2. /\ UNCHANGED <<items, pending, delivered, expired, raced>> /\ pc[Loop] = "idle"
      /\ cur[Loop] = None
  BY <1>0 DEF Receive, LatestInv, AtRest
<1>3. m.seq = received' /\ m.sensor = z /\ m.meas = meas
  OBVIOUS
<1>4. m.meas => "meas" \in FieldsForPublish(m)
  BY DEF FieldsForPublish
<1>5. m # None
  BY DEF None
<1> HIDE DEF m
<1>6. /\ z \in Ignored => cur'[Loop] = None /\ pc'[Loop] = "idle"
      /\ z \notin Ignored =>
           cur'[Loop] = m /\ todo'[Loop] = FieldsForPublish(m) /\ pc'[Loop] = "fields"
      /\ \A u \in Threads : u # Loop => cur'[u] = cur[u] /\ todo'[u] = todo[u] /\ pc'[u] = pc[u]
  BY <1>0, <1>1, <1>3, EnterAt DEF m
<1>7. /\ meas => latest'[z] = received'
      /\ \A s \in Sensors : ~(meas /\ s = z) => latest'[s] = latest[s]
  BY <1>0, <1>1 DEF TypeOK
<1>8. AtRest'
  BY <1>0, <1>2, <1>6 DEF LatestInv, AtRest
<1>9. OnePerSensor' /\ NotBufferedTwice'
  <2>1. \A c \in Callbacks : cur'[c] = cur[c] /\ items'[c] = items[c]
    BY <1>0, <1>2, <1>6
  <2> QED
    BY <1>2, <2>1 DEF LatestInv, OnePerSensor, NotBufferedTwice, Holds
<1>10. LoopHasLatest'
  BY <1>3, <1>6, <1>7 DEF LoopHasLatest
<1>11. PublishedDelivered'
  <2> SUFFICES ASSUME NEW u \in Threads
               PROVE  /\ pc'[u] = "published" => todo'[u] = {}
                      /\ pc'[u] \in {"fields", "published"} /\ cur'[u].meas /\ "meas" \notin todo'[u] =>
                           cur'[u].seq \in delivered'
    BY DEF PublishedDelivered
  <2>1. CASE u # Loop
    BY <1>2, <1>6, <2>1 DEF LatestInv, PublishedDelivered
  <2>2. CASE u = Loop
    BY <1>4, <1>6, <2>2
  <2> QED
    BY <2>1, <2>2
<1>12. LatestKept'
  <2> SUFFICES ASSUME TTL > 0, NEW s \in Sensors \ (Ignored \cup raced) PROVE Kept(s)'
    BY <1>2 DEF LatestKept
  <2>1. CASE meas /\ s = z
    <3>1. Carries(Loop, s, latest[s])'
      BY <1>3, <1>4, <1>5, <1>6, <1>7, <2>1 DEF Carries
    <3> QED
      BY <1>0, <3>1 DEF Kept
  <2>2. CASE ~(meas /\ s = z)
    <3>1. Kept(s) /\ latest'[s] = latest[s]
      BY <1>7, <2>2 DEF LatestInv, LatestKept
    <3>2. \A u \in Threads : Carries(u, s, latest[s]) => Carries(u, s, latest[s])'
      BY <1>2, <1>6, <3>1 DEF Carries
    <3> QED
      BY <1>2, <3>1, <3>2 DEF Kept
  <2> QED
    BY <2>1, <2>2
<1> QED
  BY <1>8, <1>9, <1>10, <1>11, <1>12 DEF LatestInv

\* A flush takes what is in the buffer; what it does not take has expired.
LEMMA LatestTake ==
  ASSUME ReplayInv, LatestInv, NEW c \in Callbacks, TakePending(c)
  PROVE  LatestInv'
<1> DEFINE full == {s \in Sensors : pending[s] # None}
           old  == {s \in full : TooOld(pending[s])}
           taken == {pending[s].msg : s \in full \ old}
<1>0. Loop \in Threads /\ Loop \notin Callbacks /\ Callbacks \subseteq Threads /\ TypeOK
  BY SensorAssumption DEF Threads, ReplayInv
<1>1. /\ pc[c] = "flush" /\ UNCHANGED <<cur, todo, delivered, latest>>
      /\ items' = [items EXCEPT ![c] = taken]
      /\ expired' = expired \cup {pending[s].msg.seq : s \in old}
      /\ pending' = [s \in Sensors |-> None] /\ raced \subseteq raced'
      /\ pc' = [pc EXCEPT ![c] = "next"]
  BY DEF TakePending
<1>2. /\ cur[c] = None /\ items[c] = {} /\ items'[c] = taken
      /\ \A d \in Callbacks : d # c => items'[d] = items[d]
      /\ pc'[c] = "next" /\ \A u \in Threads : u # c => pc'[u] = pc[u]
  BY <1>0, <1>1 DEF TypeOK, LatestInv, AtRest
<1>3. \A n \in taken : \E s \in Sensors : pending[s] # None /\ n = pending[s].msg /\ n.sensor = s
  BY DEF LatestInv, OnePerSensor
<1>4. \A n, k \in taken : n.sensor = k.sensor => n = k
  BY <1>3
<1>5. \A s \in Sensors : pending[s] # None =>
        pending[s].msg \in taken \/ pending[s].msg.seq \in expired'
  BY <1>1
<1> HIDE DEF taken
<1>6. AtRest'
  BY <1>0, <1>1, <1>2 DEF LatestInv, AtRest
<1>7. OnePerSensor'
  <2>1. \A d \in Callbacks : \A n, k \in items'[d] : n.sensor = k.sensor => n = k
    BY <1>2, <1>4 DEF LatestInv, OnePerSensor
  <2>2. \A d \in Callbacks : cur'[d] # None => \A n \in items'[d] : n.sensor # cur'[d].sensor
    BY <1>1, <1>2 DEF LatestInv, OnePerSensor
  <2> QED
    BY <1>1, <2>1, <2>2 DEF OnePerSensor
<1>8. LoopHasLatest' /\ PublishedDelivered' /\ NotBufferedTwice'
  BY <1>0, <1>1, <1>2 DEF LatestInv, LoopHasLatest, PublishedDelivered, NotBufferedTwice
<1>9. LatestKept'
  <2> SUFFICES ASSUME TTL > 0, NEW s \in Sensors \ (Ignored \cup raced') PROVE Kept(s)'
    BY DEF LatestKept
  <2>1. Kept(s)
    BY <1>1 DEF LatestInv, LatestKept
  <2>2. ASSUME pending[s] # None, pending[s].msg.seq = latest[s] PROVE Kept(s)'
    <3>1. pending[s].msg.sensor = s
      BY <2>2 DEF LatestInv, OnePerSensor
    <3> QED
      BY <1>1, <1>2, <1>5, <2>2, <3>1 DEF Kept
  <2>3. ASSUME NEW u \in Threads, Carries(u, s, latest[s]) PROVE Kept(s)'
    <3>1. u # c
      BY <1>2, <2>3 DEF Carries
    <3>2. Carries(u, s, latest[s])'
      BY <1>1, <1>2, <2>3, <3>1 DEF Carries
    <3> QED
      BY <3>2 DEF Kept
  <2>4. ASSUME NEW d \in Callbacks, NEW n \in items[d], n.sensor = s, n.seq = latest[s] PROVE Kept(s)'
    <3>1. d # c
      BY <1>2
    <3>2. n \in items'[d]
      BY <1>2, <3>1
    <3> QED
      BY <1>1, <2>4, <3>2 DEF Kept
  <2>5. CASE latest[s] \in delivered \cup expired \cup {0}
    BY <1>1, <2>5 DEF Kept
  <2> QED
    BY <2>1, <2>2, <2>3, <2>4, <2>5 DEF Kept
<1> QED
  BY <1>6, <1>7, <1>8, <1>9 DEF LatestInv

\* A flush publishes the next of its messages.
LEMMA LatestFlushNext ==
  ASSUME ReplayInv, LatestInv, NEW c \in Callbacks, FlushNext(c)
  PROVE  LatestInv'
<1>0. /\ Loop \in Threads /\ Loop \notin Callbacks /\ Callbacks \subseteq Threads /\ TypeOK
      /\ c \in Threads /\ c # Loop
  BY SensorAssumption DEF Threads, ReplayInv
<1>1. PICK m \in items[c] : items' = [items EXCEPT ![c] = @ \ {m}] /\ Enter(c, m)
  BY DEF FlushNext
<1>2. /\ UNCHANGED <<pending, delivered, expired, latest, raced>>
      /\ cur[c] = None /\ pc[c] = "next"
  BY <1>0 DEF FlushNext, history, LatestInv, AtRest
<1>3. m \in Msgs /\ m.meas /\ m # None /\ "meas" \in FieldsForPublish(m)
  <2>1. m \in Msgs /\ m.meas
    BY DEF ReplayInv, TypeOK, CallbacksStripped, Stripped
  <2> QED
    BY <2>1, NoneIsNoMsg, FieldFacts
<1>4. /\ m.sensor \in Ignored => cur'[c] = None /\ pc'[c] = "next"
      /\ m.sensor \notin Ignored =>
           cur'[c] = m /\ todo'[c] = FieldsForPublish(m) /\ pc'[c] = "fields"
      /\ \A u \in Threads : u # c => cur'[u] = cur[u] /\ todo'[u] = todo[u] /\ pc'[u] = pc[u]
  BY <1>0, <1>1, EnterAt
<1>5. items'[c] = items[c] \ {m} /\ \A d \in Callbacks : d # c => items'[d] = items[d]
  BY <1>0, <1>1 DEF TypeOK
<1>6. AtRest'
  BY <1>0, <1>4, <1>5 DEF LatestInv, AtRest
<1>7. OnePerSensor'
  <2>1. \A d \in Callbacks : \A n, k \in items'[d] : n.sensor = k.sensor => n = k
    BY <1>5 DEF LatestInv, OnePerSensor
  <2>2. \A d \in Callbacks : cur'[d] # None => \A n \in items'[d] : n.sensor # cur'[d].sensor
    <3>1. \A n \in items'[c] : n.sensor # m.sensor
      BY <1>5 DEF LatestInv, OnePerSensor
    <3> QED
      BY <1>0, <1>4, <1>5, <3>1 DEF LatestInv, OnePerSensor
  <2> QED
    BY <1>2, <2>1, <2>2 DEF LatestInv, OnePerSensor
<1>8. LoopHasLatest'
  BY <1>0, <1>2, <1>4 DEF LatestInv, LoopHasLatest
<1>9. PublishedDelivered'
  <2> SUFFICES ASSUME NEW u \in Threads
               PROVE  /\ pc'[u] = "published" => todo'[u] = {}
                      /\ pc'[u] \in {"fields", "published"} /\ cur'[u].meas /\ "meas" \notin todo'[u] =>
                           cur'[u].seq \in delivered'
    BY DEF PublishedDelivered
  <2>1. CASE u # c
    BY <1>2, <1>4, <2>1 DEF LatestInv, PublishedDelivered
  <2>2. CASE u = c
    BY <1>3, <1>4, <2>2
  <2> QED
    BY <2>1, <2>2
<1>10. NotBufferedTwice'
  <2>1. \A d \in Callbacks, s \in Sensors : Holds(d, s)' => Holds(d, s)
    BY <1>0, <1>4, <1>5 DEF Holds
  <2> QED
    BY <1>2, <2>1 DEF LatestInv, NotBufferedTwice
<1>11. LatestKept'
  <2> SUFFICES ASSUME TTL > 0, NEW s \in Sensors \ (Ignored \cup raced) PROVE Kept(s)'
    BY <1>2 DEF LatestKept
  <2>1. Kept(s)
    BY DEF LatestInv, LatestKept
  <2>2. ASSUME NEW u \in Threads, Carries(u, s, latest[s]) PROVE Kept(s)'
    <3>1. u # c
      BY <1>2, <2>2 DEF Carries
    <3>2. Carries(u, s, latest[s])'
      BY <1>2, <1>4, <2>2, <3>1 DEF Carries
    <3> QED
      BY <3>2 DEF Kept
  <2>3. ASSUME NEW d \in Callbacks, NEW n \in items[d], n.sensor = s, n.seq = latest[s] PROVE Kept(s)'
    <3>1. CASE d = c /\ n = m
      <4>1. Carries(c, s, latest[s])'
        BY <1>2, <1>3, <1>4, <2>3, <3>1 DEF Carries
      <4> QED
        BY <1>0, <4>1 DEF Kept
    <3>2. CASE ~(d = c /\ n = m)
      <4>1. n \in items'[d]
        BY <1>5, <3>2
      <4> QED
        BY <1>2, <2>3, <4>1 DEF Kept
    <3> QED
      BY <3>1, <3>2
  <2> QED
    BY <1>2, <2>1, <2>2, <2>3 DEF Kept
<1> QED
  BY <1>6, <1>7, <1>8, <1>9, <1>10, <1>11 DEF LatestInv

\* The other steps touch neither the messages nor the buffer.
LEMMA LatestOther ==
  ASSUME ReplayInv, LatestInv,
         \/ ConnectionDown \/ Tick \/ UNCHANGED vars
         \/ \E c \in Callbacks : ConnectionUp(c) \/ FlushDone(c)
  PROVE  LatestInv'
<1>1. /\ UNCHANGED <<cur, todo, items, pending, delivered, expired, latest, raced>>
      /\ pc' = pc \/ \E c \in Callbacks : pc[c] \in {"idle", "next"} /\ items[c] = {} /\
                       (pc' = [pc EXCEPT ![c] = "flush"] \/ pc' = [pc EXCEPT ![c] = "idle"])
  BY DEF ConnectionDown, Tick, vars, environment, history, ConnectionUp, FlushDone, LatestInv, AtRest
<1>2. \A u \in Threads :
        \/ pc'[u] = pc[u]
        \/ /\ pc[u] \in {"idle", "next"} /\ pc'[u] \in {"idle", "flush"}
           /\ u \in Callbacks => items[u] = {}
  BY <1>1 DEF ReplayInv, TypeOK
<1>3. AtRest'
  BY <1>1, <1>2 DEF LatestInv, AtRest, Threads
<1>4. OnePerSensor' /\ LoopHasLatest' /\ NotBufferedTwice'
  BY <1>1 DEF LatestInv, OnePerSensor, LoopHasLatest, NotBufferedTwice, Holds
<1>5. PublishedDelivered'
  BY <1>1, <1>2 DEF LatestInv, PublishedDelivered
<1>6. LatestKept'
  <2>1. \A u \in Threads, s \in Sensors : Carries(u, s, latest[s]) => Carries(u, s, latest[s])'
    BY <1>1, <1>2 DEF Carries
  <2> QED
    BY <1>1, <2>1 DEF LatestInv, LatestKept, Kept
<1> QED
  BY <1>3, <1>4, <1>5, <1>6 DEF LatestInv

\* With the buffer enabled, the last measurement of a sensor reached the broker,
\* is buffered, is in a goroutine's hands or expired, whatever fails and however
\* often the connection comes and goes, unless two goroutines had the sensor at
\* the same time or a message with an event alone cleared the buffer: these two
\* ways of losing it are the only ones (storePending, clearPending, flushPending).
THEOREM LatestCorrect == Spec => []LatestSurvivesUnlessRaced
<1>1. Init => LatestInv
  BY DEF Init, LatestInv, AtRest, OnePerSensor, LoopHasLatest, PublishedDelivered,
     NotBufferedTwice, LatestKept, Kept, Threads
<1>2. ReplayInv /\ LatestInv /\ [Next]_vars => LatestInv'
  BY LatestField, LatestStore, LatestClear, LatestReceive, LatestTake, LatestFlushNext,
     LatestOther DEF Next, PublishSensor, FlushPending
<1>3. LatestInv => LatestSurvivesUnlessRaced
  BY DEF LatestInv, LatestKept, Kept, Carries, LatestSurvivesUnlessRaced, Survives
<1> QED
  BY <1>1, <1>2, <1>3, ReplayInvariant, PTL DEF Spec

=============================================================================
