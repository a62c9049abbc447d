-------------------------- MODULE SerialLinkProofs --------------------------
(***************************************************************************)
(* Proofs about SerialLink for any number of connection callbacks and any  *)
(* backoff bounds.                                                         *)
(***************************************************************************)
EXTENDS SerialLink, FiniteSetTheorems, TLAPS

\* NextBackoff stays between the configured bounds.
LEMMA NextBackoffBounded ==
  ASSUME NEW d \in MinDelay..MaxDelay
  PROVE  NextBackoff(d) \in MinDelay..MaxDelay
  BY DelayAssumption DEF NextBackoff

\* However a publish ends, the topic holds a status.
LEMMA PublishTyped ==
  ASSUME TypeOK, NEW sends \in BOOLEAN, NEW t \in Topics, NEW s \in {"online", "offline"},
         PublishReturns(sends, t, s)
  PROVE  topic' \in Retained /\ lost' \subseteq Topics
<1>1. topic \in Retained /\ [topic EXCEPT ![t] = s] \in Retained /\ lost \subseteq Topics
  BY DEF TypeOK, Retained
<1>2. topic' \in {topic, [topic EXCEPT ![t] = s]}
  BY DEF PublishReturns
<1>3. lost' \in {lost \cup {t}, lost \ {t}}
  BY DEF PublishReturns
<1> QED
  BY <1>1, <1>2, <1>3

\* A step of the serial loop keeps every variable in its range.
LEMMA TypeLoop ==
  ASSUME TypeOK, SerialLoop
  PROVE  TypeOK'
<1>1. CASE LoopExits
  BY <1>1 DEF TypeOK, LoopPlaces, LoopExits, mqtt, shutdown, retained
<1>2. CASE StartSession
  BY <1>2 DEF TypeOK, LoopPlaces, StartSession, mqtt, shutdown, retained
<1>3. CASE ReconnectOK
  BY <1>3, DelayAssumption DEF TypeOK, LoopPlaces, ReconnectOK, mqtt, shutdown, retained
<1>4. CASE ReconnectFails
  BY <1>4 DEF TypeOK, LoopPlaces, ReconnectFails, mqtt, shutdown, retained
<1>5. CASE StoreOnline
  BY <1>5 DEF TypeOK, LoopPlaces, StoreOnline, SetSerialConnected, CallbackBetween, mqtt, shutdown, retained
<1>6. CASE PublishOnline
  <2>1. topic' \in Retained /\ lost' \subseteq Topics
    BY <1>6, PublishTyped DEF PublishOnline, Topics, TypeOK
  <2> QED
    BY <1>6, <2>1, Zenon DEF TypeOK, LoopPlaces, PublishOnline, mqtt, shutdown
<1>7. CASE ReadLine
  BY <1>7 DEF TypeOK, LoopPlaces, ReadLine, mqtt, shutdown, retained
<1>8. CASE ReadEnds
  BY <1>8 DEF TypeOK, LoopPlaces, ReadEnds, mqtt, shutdown, retained
<1>9. CASE Panic
  BY <1>9 DEF TypeOK, LoopPlaces, Panic, mqtt, shutdown, retained
<1>10. CASE StoreOffline
  BY <1>10 DEF TypeOK, LoopPlaces, StoreOffline, SetSerialConnected, CallbackBetween, mqtt, shutdown, retained
<1>11. CASE PublishOffline
  <2>1. topic' \in Retained /\ lost' \subseteq Topics
    BY <1>11, PublishTyped DEF PublishOffline, Topics, TypeOK
  <2>2. loopPc' \in {"sleep", "top"}
    BY <1>11 DEF PublishOffline
  <2> QED
    BY <1>11, <2>1, <2>2, Zenon DEF TypeOK, LoopPlaces, PublishOffline, mqtt, shutdown
<1>12. CASE Sleep
  BY <1>12, NextBackoffBounded DEF TypeOK, LoopPlaces, Sleep, mqtt, shutdown, retained
<1>13. CASE LoopSends
  BY <1>13 DEF TypeOK, LoopPlaces, LoopSends, mqtt, shutdown, retained
<1> QED
  BY <1>1, <1>2, <1>3, <1>4, <1>5, <1>6, <1>7, <1>8, <1>9, <1>10, <1>11, <1>12, <1>13
  DEF SerialLoop

\* So does a step of the MQTT connection or of a callback.
LEMMA TypeConnection ==
  ASSUME TypeOK,
         \/ ConnectionLost \/ ManagerStops
         \/ \E c \in Callbacks : ConnectionUp(c) \/ Callback(c)
  PROVE  TypeOK'
<1>1. CASE ConnectionLost
  <2>1. topic' \in Retained
    BY <1>1 DEF TypeOK, ConnectionLost, Retained, Topics
  <2> QED
    BY <1>1, <2>1, Zenon DEF TypeOK, ConnectionLost, serial, shutdown
<1>2. CASE ManagerStops
  <2>1. topic' \in Retained
    BY <1>2 DEF TypeOK, ManagerStops, Retained, Topics
  <2> QED
    BY <1>2, <2>1, Zenon DEF TypeOK, ManagerStops, serial, shutdown
<1>3. ASSUME NEW c \in Callbacks, ConnectionUp(c) PROVE TypeOK'
  BY <1>3 DEF TypeOK, ConnectionUp, Topics, serial, shutdown, retained
<1>4. ASSUME NEW c \in Callbacks, PublishStatus(c) PROVE TypeOK'
  <2>1. topic' \in Retained /\ lost' \subseteq Topics
    <3>1. (c \in cbSends) \in BOOLEAN /\ "status" \in Topics /\ "online" \in {"online", "offline"}
      BY DEF Topics
    <3> QED
      BY <1>4, <3>1, PublishTyped, Zenon DEF PublishStatus
  <2>2. cbSends' \subseteq Callbacks /\ cbPc' \in [Callbacks -> {"idle", "up", "announced", "loaded"}]
    BY <1>4 DEF TypeOK, PublishStatus
  <2> QED
    BY <1>4, <2>1, <2>2, Zenon DEF TypeOK, PublishStatus, serial, shutdown
<1>5. ASSUME NEW c \in Callbacks, LoadSerialUp(c) PROVE TypeOK'
  BY <1>5 DEF TypeOK, LoadSerialUp, Status, serial, shutdown, retained
<1>6. ASSUME NEW c \in Callbacks, PublishSerialStatus(c) PROVE TypeOK'
  <2>1. topic' \in Retained /\ lost' \subseteq Topics
    <3>1. (c \in cbSends) \in BOOLEAN /\ "serial" \in Topics /\ seen[c] \in {"online", "offline"}
      BY DEF Topics, TypeOK
    <3> QED
      BY <1>6, <3>1, PublishTyped, Zenon DEF PublishSerialStatus
  <2>2. /\ cbSends' \subseteq Callbacks /\ seen' \in [Callbacks -> {"online", "offline"}]
        /\ cbPc' \in [Callbacks -> {"idle", "up", "announced", "loaded"}]
    BY <1>6 DEF TypeOK, PublishSerialStatus
  <2> QED
    BY <1>6, <2>1, <2>2, Zenon DEF TypeOK, PublishSerialStatus, serial, shutdown
<1>7. ASSUME NEW c \in Callbacks, CallbackSends(c) PROVE TypeOK'
  BY <1>7 DEF TypeOK, CallbackSends, serial, shutdown, retained
<1> QED
  BY <1>1, <1>2, <1>3, <1>4, <1>5, <1>6, <1>7 DEF Callback

\* And a step of the shutdown.
LEMMA TypeStop ==
  ASSUME TypeOK, Cancel \/ WorkersExit \/ Stop \/ ShutdownTimeout
  PROVE  TypeOK'
<1>1. CASE Cancel
  BY <1>1 DEF TypeOK, StopPlaces, Cancel, Publishing, Topics, serial, mqtt, retained
<1>2. CASE WorkersExit
  BY <1>2, Zenon DEF TypeOK, WorkersExit, serial, mqtt, retained
<1>3. CASE Waited
  BY <1>3 DEF TypeOK, StopPlaces, Waited, serial, mqtt, retained
<1>4. CASE StopStatus
  <2>1. topic' \in Retained /\ said' \subseteq Topics
    BY <1>4 DEF TypeOK, StopStatus, SayOffline, Retained, Topics
  <2> QED
    BY <1>4, <2>1, Zenon DEF TypeOK, StopPlaces, StopStatus, serial, mqtt
<1>5. CASE StopSerialStatus
  <2>1. topic' \in Retained /\ said' \subseteq Topics
    BY <1>5 DEF TypeOK, StopSerialStatus, SayOffline, Retained, Topics
  <2> QED
    BY <1>5, <2>1, Zenon DEF TypeOK, StopPlaces, StopSerialStatus, serial, mqtt
<1>6. CASE StopDisconnect
  BY <1>6 DEF TypeOK, StopPlaces, StopDisconnect, serial, mqtt, retained
<1>7. CASE ClosePort
  BY <1>7 DEF TypeOK, StopPlaces, ClosePort, retained
<1>8. CASE ShutdownTimeout
  BY <1>8 DEF TypeOK, StopPlaces, ShutdownTimeout, LoopPlaces, Retained, Topics
<1> QED
  BY <1>1, <1>2, <1>3, <1>4, <1>5, <1>6, <1>7, <1>8 DEF Stop

\* Every variable of the serial loop, the connection and the shutdown stays in
\* its range, and the pause before a reconnection between the configured
\* minimum and maximum (runSerialSession, nextBackoff).
THEOREM TypeCorrect == Spec => []TypeOK
<1>1. Init => TypeOK
  <2> SUFFICES ASSUME Init PROVE TypeOK
    OBVIOUS
  <2>1. cbPc \in [Callbacks -> {"idle", "up", "announced", "loaded"}]
    BY DEF Init
  <2>2. seen \in [Callbacks -> {"online", "offline"}]
    BY DEF Init
  <2>3. delay \in MinDelay..MaxDelay /\ failures \in Nat
    BY DelayAssumption DEF Init
  <2>4. lost \subseteq Topics /\ stragglers \subseteq Topics /\ said \subseteq Topics
        /\ cbSends \subseteq Callbacks
    BY DEF Init
  <2> QED
    BY <2>1, <2>2, <2>3, <2>4, Zenon DEF Init, TypeOK, LoopPlaces, StopPlaces
<1>2. TypeOK /\ [Next]_vars => TypeOK'
  <2> SUFFICES ASSUME TypeOK, [Next]_vars PROVE TypeOK'
    OBVIOUS
  <2>1. CASE UNCHANGED vars
    BY <2>1 DEF TypeOK, vars, serial, mqtt, shutdown, retained
  <2>2. CASE Next
    BY <2>1, <2>2, TypeLoop, TypeConnection, TypeStop DEF Next, Ended
  <2> QED
    BY <2>1, <2>2
<1> QED
  BY <1>1, <1>2, PTL DEF Spec

-----------------------------------------------------------------------------
\* Nobody but the serial loop and the end of Stop touches the port, so it is
\* open under the reader and closed while the loop pauses (runSerialSession,
\* Close after wg.Wait).
THEOREM PortCorrect == Spec => []PortOwned
<1>1. Init => PortOwned
  BY DEF Init, PortOwned
<1>2. PortOwned /\ TypeOK /\ [Next]_vars => PortOwned'
  <2> SUFFICES ASSUME PortOwned, TypeOK, [Next]_vars PROVE PortOwned'
    OBVIOUS
  <2>1. CASE UNCHANGED vars
    BY <2>1 DEF PortOwned, vars, serial, shutdown
  <2>2. CASE SerialLoop
    <3>1. CASE LoopExits
      BY <3>1 DEF PortOwned, TypeOK, LoopPlaces, LoopExits, shutdown
    <3>2. CASE StartSession
      BY <3>2 DEF PortOwned, TypeOK, LoopPlaces, StartSession, shutdown
    <3>3. CASE ReconnectOK
      BY <3>3 DEF PortOwned, TypeOK, LoopPlaces, ReconnectOK, shutdown
    <3>4. CASE ReconnectFails
      BY <3>4 DEF PortOwned, TypeOK, LoopPlaces, ReconnectFails, shutdown
    <3>5. CASE StoreOnline
      BY <3>5 DEF PortOwned, TypeOK, LoopPlaces, StoreOnline, SetSerialConnected, shutdown
    <3>6. CASE PublishOnline
      BY <3>6 DEF PortOwned, TypeOK, LoopPlaces, PublishOnline, shutdown
    <3>7. CASE ReadLine
      BY <3>7 DEF PortOwned, TypeOK, LoopPlaces, ReadLine, shutdown
    <3>8. CASE ReadEnds
      BY <3>8 DEF PortOwned, TypeOK, LoopPlaces, ReadEnds, shutdown
    <3>9. CASE Panic
      BY <3>9 DEF PortOwned, TypeOK, LoopPlaces, Panic, shutdown
    <3>10. CASE StoreOffline
      BY <3>10 DEF PortOwned, TypeOK, LoopPlaces, StoreOffline, SetSerialConnected, shutdown
    <3>11. CASE PublishOffline
      BY <3>11 DEF PortOwned, TypeOK, LoopPlaces, PublishOffline, shutdown
    <3>12. CASE Sleep
      BY <3>12 DEF PortOwned, TypeOK, LoopPlaces, Sleep, shutdown
    <3>13. CASE LoopSends
      BY <3>13 DEF PortOwned, TypeOK, LoopPlaces, LoopSends, shutdown
    <3> QED
      BY <2>2, <3>13, <3>1, <3>2, <3>3, <3>4, <3>5, <3>6, <3>7, <3>8, <3>9, <3>10, <3>11, <3>12
         DEF SerialLoop
  <2>3. CASE ConnectionLost \/ ManagerStops
             \/ \E c \in Callbacks : ConnectionUp(c) \/ Callback(c)
    BY <2>3 DEF PortOwned, ConnectionLost, ManagerStops, ConnectionUp, Callback,
         CallbackSends, PublishStatus, LoadSerialUp, PublishSerialStatus, serial, shutdown
  <2>4. CASE Cancel \/ WorkersExit \/ Stop \/ ShutdownTimeout
    BY <2>4 DEF PortOwned, Cancel, WorkersExit, Stop, Waited, AllExited, StopStatus,
         StopSerialStatus, StopDisconnect, ClosePort, ShutdownTimeout, serial
  <2> QED
    BY <2>1, <2>2, <2>3, <2>4 DEF Next, Ended
<1> QED
  BY <1>1, <1>2, TypeCorrect, PTL DEF Spec

-----------------------------------------------------------------------------
(* The availability topics.  A status that nobody announces any more is on   *)
(* the broker; a status a callback has loaded is the current one unless the  *)
(* loop has raced it; and the loop or a callback still has to publish the    *)
(* serial status as long as the retained one differs.                        *)

Announced ==
  link /\ ~cancelled =>
    topic["status"] = "online" \/ "status" \in lost \/ \E c \in Callbacks : cbPc[c] = "up"

LoadedCurrent ==
  ~raced => \A c \in Callbacks : cbPc[c] = "loaded" => seen[c] = Status(serialUp)

SomebodyPublishes ==
  \/ \E c \in Callbacks : cbPc[c] # "idle"
  \/ loopPc \in {"publish_online", "publish_offline", "publish_panicked"}

SerialAnnounced ==
  link /\ ~cancelled /\ ~raced =>
    topic["serial"] = Status(serialUp) \/ "serial" \in lost \/ SomebodyPublishes

TopicInv == Announced /\ LoadedCurrent /\ SerialAnnounced

\* A publish leaves the other topic alone, and its own holds the status or counts
\* as lost.
PublishEffect(sends, t, s) ==
  /\ \A u \in Topics \ {t} : topic'[u] = topic[u] /\ (u \in lost' <=> u \in lost)
  /\ topic'[t] = s \/ t \in lost'
  /\ topic'[t] = topic[t] \/ sends

\* So it is, however the publish ends.
LEMMA PublishLeaves ==
  ASSUME TypeOK, NEW sends \in BOOLEAN, NEW t \in Topics, NEW s \in {"online", "offline"},
         PublishReturns(sends, t, s)
  PROVE  PublishEffect(sends, t, s)
<1>1. topic \in [Topics -> {"online", "offline"}] /\ lost \subseteq Topics
  BY DEF TypeOK, Retained
<1>2. CASE topic' = topic /\ lost' = lost \cup {t}
  BY <1>1, <1>2 DEF PublishEffect
<1>3. CASE sends /\ topic' = [topic EXCEPT ![t] = s] /\ lost' \in {lost \cup {t}, lost \ {t}}
  BY <1>1, <1>3 DEF PublishEffect
<1> QED
  BY <1>2, <1>3 DEF PublishReturns

\* A step of the serial loop keeps the topic invariant.
LEMMA TopicLoop ==
  ASSUME TypeOK, PortOwned, TopicInv, SerialLoop
  PROVE  TopicInv'
<1>1. UNCHANGED <<mqtt, shutdown>>
  BY DEF SerialLoop, LoopExits, StartSession, ReconnectOK, ReconnectFails,
     StoreOnline, LoopSends, PublishOnline, ReadLine, ReadEnds, Panic, StoreOffline, PublishOffline,
     Sleep
<1>2. CASE StoreOnline
  <2>1. Announced'
    BY <1>1, <1>2 DEF TopicInv, Announced, StoreOnline, mqtt, shutdown, retained
  <2>2. SomebodyPublishes'
    BY <1>2 DEF SomebodyPublishes, StoreOnline
  <2>3. LoadedCurrent'
    BY <1>1, <1>2 DEF TopicInv, LoadedCurrent, StoreOnline, SetSerialConnected, CallbackBetween,
       TypeOK, mqtt
  <2> QED
    BY <2>1, <2>2, <2>3 DEF TopicInv, SerialAnnounced
<1>3. CASE StoreOffline
  <2>1. Announced'
    BY <1>1, <1>3 DEF TopicInv, Announced, StoreOffline, mqtt, shutdown, retained
  <2>2. SomebodyPublishes'
    BY <1>3 DEF SomebodyPublishes, StoreOffline
  <2>3. LoadedCurrent'
    BY <1>1, <1>3 DEF TopicInv, LoadedCurrent, StoreOffline, SetSerialConnected, CallbackBetween,
       TypeOK, mqtt
  <2> QED
    BY <2>1, <2>2, <2>3 DEF TopicInv, SerialAnnounced
<1>4. CASE PublishOnline
  <2>1. PublishReturns(loopSends, "serial", "online") /\ UNCHANGED <<serialUp, raced>>
    BY <1>4 DEF PublishOnline
  <2>2. /\ topic'["status"] = topic["status"] /\ ("status" \in lost' <=> "status" \in lost)
        /\ topic'["serial"] = "online" \/ "serial" \in lost'
    BY <2>1, PublishLeaves DEF PublishEffect, Topics, TypeOK
  <2>3. Status(serialUp) = "online"
    BY <1>4 DEF PublishOnline, PortOwned, TypeOK, Status
  <2> QED
    BY <1>1, <2>1, <2>2, <2>3 DEF TopicInv, Announced, LoadedCurrent, SerialAnnounced,
       Status, mqtt, shutdown
<1>5. CASE PublishOffline
  <2>1. PublishReturns(loopSends, "serial", "offline") /\ UNCHANGED <<serialUp, raced>>
    BY <1>5 DEF PublishOffline
  <2>2. /\ topic'["status"] = topic["status"] /\ ("status" \in lost' <=> "status" \in lost)
        /\ topic'["serial"] = "offline" \/ "serial" \in lost'
    BY <2>1, PublishLeaves DEF PublishEffect, Topics, TypeOK
  <2>3. Status(serialUp) = "offline"
    BY <1>5 DEF PublishOffline, PortOwned, TypeOK, Status
  <2> QED
    BY <1>1, <2>1, <2>2, <2>3 DEF TopicInv, Announced, LoadedCurrent, SerialAnnounced,
       Status, mqtt, shutdown
<1>6. CASE \/ LoopExits \/ StartSession \/ ReconnectOK \/ ReconnectFails \/ ReadLine
           \/ ReadEnds \/ Panic \/ Sleep \/ LoopSends
  <2>1. UNCHANGED <<serialUp, topic, lost, raced>> /\ ~SomebodyPublishes' => ~SomebodyPublishes
    BY <1>6, <1>1 DEF SomebodyPublishes, LoopExits, StartSession, ReconnectOK, ReconnectFails,
       ReadLine, ReadEnds, Panic, Sleep, LoopSends, mqtt, retained
  <2>2. UNCHANGED <<serialUp, topic, lost, raced>>
    BY <1>6 DEF LoopExits, StartSession, ReconnectOK, ReconnectFails,
       ReadLine, ReadEnds, Panic, Sleep, LoopSends, retained
  <2> QED
    BY <1>1, <2>1, <2>2 DEF TopicInv, Announced, LoadedCurrent, SerialAnnounced, Status,
       mqtt, shutdown
<1> QED
  BY <1>2, <1>3, <1>4, <1>5, <1>6 DEF SerialLoop

\* So does a step of the connection or of a callback.
LEMMA TopicConnection ==
  ASSUME TypeOK, TopicInv,
         \/ ConnectionLost \/ ManagerStops
         \/ \E c \in Callbacks : ConnectionUp(c) \/ Callback(c)
  PROVE  TopicInv'
<1> USE DEF TopicInv, Announced, LoadedCurrent, SerialAnnounced, SomebodyPublishes, Status,
            serial, retained, shutdown, TypeOK
<1>1. CASE ConnectionLost \/ ManagerStops
  BY <1>1 DEF ConnectionLost, ManagerStops
<1>2. ASSUME NEW c \in Callbacks, ConnectionUp(c) PROVE TopicInv'
  BY <1>2 DEF ConnectionUp
<1>3. ASSUME NEW c \in Callbacks, PublishStatus(c) PROVE TopicInv'
  <2>1. PublishReturns(c \in cbSends, "status", "online")
    BY <1>3 DEF PublishStatus
  <2>2. /\ topic'["serial"] = topic["serial"] /\ ("serial" \in lost' <=> "serial" \in lost)
        /\ topic'["status"] = "online" \/ "status" \in lost'
    <3>1. (c \in cbSends) \in BOOLEAN /\ "status" \in Topics /\ "serial" \in Topics \ {"status"}
      BY DEF Topics
    <3>2. "online" \in {"online", "offline"}
      OBVIOUS
    <3> HIDE DEF TypeOK
    <3>3. PublishEffect(c \in cbSends, "status", "online")
      BY <2>1, <3>1, <3>2, PublishLeaves, Zenon
    <3> QED
      BY <3>1, <3>3 DEF PublishEffect
  <2> QED
    BY <1>3, <2>2 DEF PublishStatus
<1>4. ASSUME NEW c \in Callbacks, LoadSerialUp(c) PROVE TopicInv'
  BY <1>4 DEF LoadSerialUp, CallbackBetween
<1>5. ASSUME NEW c \in Callbacks, PublishSerialStatus(c) PROVE TopicInv'
  <2>1. PublishReturns(c \in cbSends, "serial", seen[c])
    BY <1>5 DEF PublishSerialStatus
  <2>2. /\ topic'["status"] = topic["status"] /\ ("status" \in lost' <=> "status" \in lost)
        /\ topic'["serial"] = seen[c] \/ "serial" \in lost'
    <3>1. (c \in cbSends) \in BOOLEAN /\ "serial" \in Topics /\ "status" \in Topics \ {"serial"}
      BY DEF Topics
    <3>2. seen[c] \in {"online", "offline"}
      OBVIOUS
    <3> HIDE DEF TypeOK
    <3>3. PublishEffect(c \in cbSends, "serial", seen[c])
      BY <2>1, <3>1, <3>2, PublishLeaves, Zenon
    <3> QED
      BY <3>1, <3>3 DEF PublishEffect
  <2> QED
    BY <1>5, <2>2 DEF PublishSerialStatus
<1>6. ASSUME NEW c \in Callbacks, CallbackSends(c) PROVE TopicInv'
  BY <1>6 DEF CallbackSends
<1> QED
  BY <1>1, <1>2, <1>3, <1>4, <1>5, <1>6 DEF Callback

\* And a step of the shutdown, after which the context is cancelled.
LEMMA TopicStop ==
  ASSUME TypeOK, TopicInv, Cancel \/ WorkersExit \/ Stop \/ ShutdownTimeout,
         stopPc # "running" => cancelled
  PROVE  TopicInv'
<1>1. cancelled' /\ UNCHANGED <<raced, seen, serialUp>>
  BY DEF Cancel, WorkersExit, Stop, Waited, StopStatus, StopSerialStatus, StopDisconnect,
     ClosePort, ShutdownTimeout, serial, mqtt
<1>2. \A c \in Callbacks : cbPc'[c] = "loaded" => cbPc[c] = "loaded"
  BY DEF Cancel, WorkersExit, Stop, Waited, StopStatus, StopSerialStatus, StopDisconnect,
     ClosePort, ShutdownTimeout, mqtt
<1> QED
  BY <1>1, <1>2 DEF TopicInv, Announced, LoadedCurrent, SerialAnnounced, Status

StopCancels == stopPc # "running" => cancelled

\* Stop has cancelled the context before it does anything else.
LEMMA StopCancelled == Spec => []StopCancels
<1> USE DEF StopCancels
<1>1. Init => StopCancels
  BY DEF Init
<1>2. StopCancels /\ [Next]_vars => StopCancels'
  <2> SUFFICES ASSUME StopCancels, [Next]_vars PROVE StopCancels'
    OBVIOUS
  <2>1. CASE UNCHANGED vars
    BY <2>1 DEF vars, shutdown
  <2>2. CASE SerialLoop
    BY <2>2 DEF SerialLoop, LoopExits, StartSession, ReconnectOK, ReconnectFails,
     StoreOnline, LoopSends, PublishOnline, ReadLine, ReadEnds, Panic, StoreOffline, PublishOffline,
     Sleep, shutdown
  <2>3. CASE ConnectionLost \/ ManagerStops
             \/ \E c \in Callbacks : ConnectionUp(c) \/ Callback(c)
    BY <2>3 DEF ConnectionLost, ManagerStops, ConnectionUp, Callback,
         CallbackSends, PublishStatus, LoadSerialUp, PublishSerialStatus, shutdown
  <2>4. CASE Cancel \/ WorkersExit \/ Stop \/ ShutdownTimeout
    BY <2>4 DEF Cancel, WorkersExit, Stop, Waited, StopStatus,
         StopSerialStatus, StopDisconnect, ClosePort, ShutdownTimeout
  <2> QED
    BY <2>1, <2>2, <2>3, <2>4 DEF Next, Ended
<1> QED
  BY <1>1, <1>2, PTL DEF Spec

\* Once the loop and every callback have published, the retained topics tell that
\* the gateway is online and whether the port is open, unless the last publish of
\* that topic failed (publishRaw; its callers only log the error) or the loop
\* changed the status between a callback's load of serialUp and its publish
\* (OnConnectionUp, SetSerialConnected).
THEOREM StatusCorrect == Spec => []StatusAccurate
<1>1. Init => TopicInv
  BY DEF Init, TopicInv, Announced, LoadedCurrent, SerialAnnounced
<1>2. TypeOK /\ PortOwned /\ StopCancels /\ TopicInv /\ [Next]_vars => TopicInv'
  <2> SUFFICES ASSUME TypeOK, PortOwned, StopCancels, TopicInv, [Next]_vars PROVE TopicInv'
    OBVIOUS
  <2>1. CASE UNCHANGED vars
    BY <2>1 DEF TopicInv, Announced, LoadedCurrent, SerialAnnounced, SomebodyPublishes,
       Status, vars, serial, mqtt, retained, shutdown
  <2> QED
    BY <2>1, TopicLoop, TopicConnection, TopicStop DEF Next, Ended, StopCancels
<1>3. TypeOK /\ PortOwned /\ TopicInv => StatusAccurate
  BY DEF TypeOK, PortOwned, TopicInv, Announced, SerialAnnounced, SomebodyPublishes,
     StatusAccurate, Settled, Status
<1> QED
  BY <1>1, <1>2, <1>3, TypeCorrect, PortCorrect, StopCancelled, PTL DEF Spec

-----------------------------------------------------------------------------
(* The end.  When Disconnect says "offline" the loop has exited, and of the   *)
(* callbacks only those can still deliver something whose publish was under   *)
(* way at the cancellation; they are publishing one of the stragglers.        *)

SendsInv == \A c \in cbSends : cbPc[c] \in {"up", "loaded"}

OnlyStragglers == cancelled => \A c \in cbSends : Publishing(c) \in stragglers

SaidLast == said # {} => cancelled /\ loopPc = "exited" /\ stopPc # "running"

OfflineInv == SendsInv /\ OnlyStragglers /\ SaidLast /\ OfflineIsLast

\* A step of the serial loop keeps it: nothing was said yet.
LEMMA OfflineLoop ==
  ASSUME TypeOK, OfflineInv, SerialLoop
  PROVE  OfflineInv'
<1>1. UNCHANGED <<mqtt, shutdown>>
  BY DEF SerialLoop, LoopExits, StartSession, ReconnectOK, ReconnectFails,
     StoreOnline, LoopSends, PublishOnline, ReadLine, ReadEnds, Panic, StoreOffline,
     PublishOffline, Sleep
<1>2. loopPc # "exited"
  BY DEF SerialLoop, LoopExits, StartSession, ReconnectOK, ReconnectFails,
     StoreOnline, LoopSends, PublishOnline, ReadLine, ReadEnds, Panic, StoreOffline,
     PublishOffline, Sleep
<1>3. said' = {}
  BY <1>1, <1>2 DEF OfflineInv, SaidLast, shutdown
<1> QED
  BY <1>1, <1>3 DEF OfflineInv, SendsInv, OnlyStragglers, SaidLast, OfflineIsLast, Publishing,
     mqtt, shutdown

\* A callback's publish that changes a topic after the cancellation is one of the
\* stragglers'.
LEMMA OfflineCallback ==
  ASSUME TypeOK, OfflineInv, NEW c \in Callbacks, Callback(c)
  PROVE  OfflineInv'
<1> USE DEF OfflineInv, SendsInv, OnlyStragglers, SaidLast, OfflineIsLast, Publishing,
            serial, shutdown, retained, TypeOK
<1>1. CASE CallbackSends(c)
  BY <1>1 DEF CallbackSends, Accepted
<1>2. CASE LoadSerialUp(c)
  BY <1>2 DEF LoadSerialUp
<1>3. ASSUME NEW t \in Topics, NEW s \in {"online", "offline"},
             PublishReturns(c \in cbSends, t, s), cbPc[c] \in {"up", "loaded"},
             t = Publishing(c), cbSends' = cbSends \ {c},
             \A d \in Callbacks \ {c} : cbPc'[d] = cbPc[d],
             UNCHANGED <<serial, shutdown>>
      PROVE  OfflineInv'
  <2>1. /\ \A u \in Topics \ {t} : topic'[u] = topic[u]
        /\ topic'[t] = topic[t] \/ c \in cbSends
    <3>1. (c \in cbSends) \in BOOLEAN
      OBVIOUS
    <3> HIDE DEF TypeOK
    <3>2. PublishEffect(c \in cbSends, t, s)
      BY <1>3, <3>1, PublishLeaves, Zenon
    <3> QED
      BY <3>2 DEF PublishEffect
  <2>2. SendsInv' /\ OnlyStragglers' /\ SaidLast'
    BY <1>3
  <2>3. ASSUME NEW u \in said' \ stragglers' PROVE topic'[u] = "offline"
    <3>1. u \in said /\ u \notin stragglers /\ u \in Topics /\ cancelled
      BY <1>3, <2>3
    <3>2. u = t => c \notin cbSends
      BY <1>3, <3>1
    <3> QED
      BY <2>1, <3>1, <3>2
  <2> QED
    BY <2>2, <2>3
<1>4. CASE PublishStatus(c)
  BY <1>3, <1>4 DEF PublishStatus, Topics
<1>5. CASE PublishSerialStatus(c)
  BY <1>3, <1>5 DEF PublishSerialStatus, Topics
<1> QED
  BY <1>1, <1>2, <1>4, <1>5 DEF Callback

\* The connection comes up only before the cancellation, and its loss says
\* "offline".
LEMMA OfflineConnection ==
  ASSUME TypeOK, OfflineInv,
         ConnectionLost \/ ManagerStops \/ \E c \in Callbacks : ConnectionUp(c)
  PROVE  OfflineInv'
<1> USE DEF OfflineInv, SendsInv, OnlyStragglers, SaidLast, OfflineIsLast, Publishing,
            serial, shutdown, retained, TypeOK, Retained, Topics
<1>1. CASE ConnectionLost
  BY <1>1 DEF ConnectionLost
<1>2. CASE ManagerStops
  BY <1>2 DEF ManagerStops
<1>3. ASSUME NEW c \in Callbacks, ConnectionUp(c) PROVE OfflineInv'
  BY <1>3 DEF ConnectionUp
<1> QED
  BY <1>1, <1>2, <1>3

\* Stop says "offline" when the loop has exited; the cancellation notes the
\* stragglers.
LEMMA OfflineStop ==
  ASSUME TypeOK, PortOwned, StopCancels, OfflineInv,
         Cancel \/ WorkersExit \/ Stop \/ ShutdownTimeout
  PROVE  OfflineInv'
<1> USE DEF OfflineInv, SendsInv, OnlyStragglers, SaidLast, OfflineIsLast, Publishing
<1>1. CASE Cancel
  BY <1>1 DEF Cancel, serial, mqtt, retained
<1>2. CASE WorkersExit \/ Waited
  BY <1>2 DEF WorkersExit, Waited, serial, mqtt, retained
<1>3. CASE StopStatus
  <2>1. \A u \in said' : topic'[u] = "offline" \/ (u \in said /\ topic'[u] = topic[u])
    BY <1>3 DEF StopStatus, SayOffline, TypeOK, Retained, Topics
  <2>2. cancelled /\ loopPc = "exited" /\ stopPc' # "running"
    BY <1>3 DEF StopStatus, StopCancels, PortOwned
  <2> QED
    BY <1>3, <2>1, <2>2 DEF StopStatus, serial, mqtt
<1>4. CASE StopSerialStatus
  <2>1. \A u \in said' : topic'[u] = "offline" \/ (u \in said /\ topic'[u] = topic[u])
    BY <1>4 DEF StopSerialStatus, SayOffline, TypeOK, Retained, Topics
  <2>2. cancelled /\ loopPc = "exited" /\ stopPc' # "running"
    BY <1>4 DEF StopSerialStatus, StopCancels, PortOwned
  <2> QED
    BY <1>4, <2>1, <2>2 DEF StopSerialStatus, serial, mqtt
<1>5. CASE StopDisconnect \/ ClosePort
  BY <1>5 DEF StopDisconnect, ClosePort, serial, retained
<1>6. CASE ShutdownTimeout
  BY <1>6 DEF ShutdownTimeout, TypeOK, Retained, Topics
<1> QED
  BY <1>1, <1>2, <1>3, <1>4, <1>5, <1>6 DEF Stop

\* The "offline" that Stop has delivered on an availability topic stays there,
\* unless a callback was in the middle of publishing that topic when the context
\* was cancelled, for any number of callbacks that are still running (App.Stop,
\* Publisher.Disconnect, OnConnectionUp).
THEOREM OfflineCorrect == Spec => []OfflineIsLast
<1>1. Init => OfflineInv
  BY DEF Init, OfflineInv, SendsInv, OnlyStragglers, SaidLast, OfflineIsLast
<1>2. TypeOK /\ PortOwned /\ StopCancels /\ OfflineInv /\ [Next]_vars => OfflineInv'
  <2> SUFFICES ASSUME TypeOK, PortOwned, StopCancels, OfflineInv, [Next]_vars
               PROVE  OfflineInv'
    OBVIOUS
  <2>1. CASE UNCHANGED vars
    BY <2>1 DEF OfflineInv, SendsInv, OnlyStragglers, SaidLast, OfflineIsLast, Publishing,
       vars, serial, mqtt, retained, shutdown
  <2> QED
    BY <2>1, OfflineLoop, OfflineCallback, OfflineConnection, OfflineStop DEF Next, Ended
<1>3. OfflineInv => OfflineIsLast
  BY DEF OfflineInv
<1> QED
  BY <1>1, <1>2, <1>3, TypeCorrect, PortCorrect, StopCancelled, PTL DEF Spec

-----------------------------------------------------------------------------
(* The backoff.  Pow2 is a recursive function: that it exists is shown by   *)
(* induction, here in the form that a set of numbers has a least one.       *)

\* A set of numbers that is not empty has a least one.
LEMMA Least ==
  ASSUME NEW T \in SUBSET Nat, T # {}
  PROVE  \E n \in T : \A m \in T : n <= m
<1> DEFINE B == {0..n : n \in T}
<1>1. B \subseteq FiniteSubsetsOf(Nat)
  <2> SUFFICES ASSUME NEW n \in T PROVE 0..n \in FiniteSubsetsOf(Nat)
    OBVIOUS
  <2>1. IsFiniteSet(0..n)
    BY FS_Interval
  <2> QED
    BY <2>1 DEF FiniteSubsetsOf
<1>2. PICK x \in B : \A y \in B : ~(<<y, x>> \in StrictSubsetOrdering(Nat))
  <2>1. IsWellFoundedOn(StrictSubsetOrdering(Nat), FiniteSubsetsOf(Nat))
    BY FS_StrictSubsetOrderingWellFounded
  <2>2. B # {}
    OBVIOUS
  <2> HIDE DEF B
  <2> QED
    BY <1>1, <2>1, <2>2, WFMin
<1>3. PICK n \in T : x = 0..n
  BY <1>2
<1>4. ASSUME NEW m \in T, m < n PROVE FALSE
  <2>1. 0..m \in B
    OBVIOUS
  <2>2. 0..m \subseteq 0..n /\ n \notin 0..m /\ n \in 0..n
    BY <1>4
  <2>3. <<0..m, 0..n>> \in StrictSubsetOrdering(Nat)
    BY <2>2 DEF StrictSubsetOrdering
  <2> QED
    BY <1>2, <1>3, <2>1, <2>3
<1> QED
  BY <1>4

\* The powers of two up to the n-th.
IsPowers(g, n) ==
  /\ g \in [0..n -> Nat]
  /\ g[0] = 1
  /\ \A k \in 1..n : g[k] = 2 * g[k - 1]

\* They exist for every n ...
LEMMA PowersExist ==
  ASSUME NEW n \in Nat
  PROVE  \E g : IsPowers(g, n)
<1> DEFINE Bad == {k \in Nat : ~ \E g : IsPowers(g, k)}
<1> SUFFICES ASSUME Bad # {} PROVE FALSE
  OBVIOUS
<1>1. PICK k \in Bad : \A m \in Bad : k <= m
  BY Least
<1>2. CASE k = 0
  <2>1. IsPowers([i \in 0..0 |-> 1], 0)
    BY DEF IsPowers
  <2> QED
    BY <1>1, <1>2, <2>1
<1>3. CASE k # 0
  <2>1. k - 1 \in Nat /\ k - 1 \notin Bad
    BY <1>1, <1>3
  <2>2. PICK g : IsPowers(g, k - 1)
    BY <2>1
  <2> DEFINE e == [i \in 0..k |-> IF i = k THEN 2 * g[k - 1] ELSE g[i]]
  <2>3. g \in [0..(k - 1) -> Nat] /\ g[0] = 1 /\ \A i \in 1..(k - 1) : g[i] = 2 * g[i - 1]
    BY <2>2 DEF IsPowers
  <2>4. \A i \in 0..k : i # k => i \in 0..(k - 1)
    BY <2>1
  <2>5. e \in [0..k -> Nat]
    <3>1. g[k - 1] \in Nat
      BY <2>1, <2>3
    <3> QED
      BY <2>3, <2>4, <3>1
  <2>6. e[0] = 1
    BY <1>3, <2>3
  <2>7. ASSUME NEW i \in 1..k PROVE e[i] = 2 * e[i - 1]
    <3>1. i - 1 \in 0..k /\ i - 1 # k /\ i \in 0..k
      BY <2>1
    <3>2. CASE i = k
      BY <3>1, <3>2
    <3>3. CASE i # k
      <4>1. i \in 1..(k - 1)
        BY <2>1, <3>3
      <4> QED
        BY <2>3, <3>1, <3>3, <4>1
    <3> QED
      BY <3>2, <3>3
  <2> HIDE DEF e
  <2>8. IsPowers(e, k)
    BY <2>5, <2>6, <2>7 DEF IsPowers
  <2> QED
    BY <1>1, <2>8
<1> QED
  BY <1>2, <1>3

\* ... and are the same whatever n.
LEMMA PowersUnique ==
  ASSUME NEW n \in Nat, NEW m \in Nat, n <= m, NEW g, NEW e,
         IsPowers(g, n), IsPowers(e, m)
  PROVE  \A k \in 0..n : g[k] = e[k]
<1> DEFINE Bad == {k \in 0..n : g[k] # e[k]}
<1> SUFFICES ASSUME Bad # {} PROVE FALSE
  OBVIOUS
<1>1. PICK k \in Bad : \A i \in Bad : k <= i
  <2>1. Bad \in SUBSET Nat
    OBVIOUS
  <2> QED
    BY <2>1, Least
<1>2. k # 0
  BY <1>1 DEF IsPowers
<1>3. k \in 1..n /\ k \in 1..m /\ k - 1 \in 0..n /\ k - 1 \notin Bad
  BY <1>1, <1>2
<1>4. g[k - 1] = e[k - 1]
  BY <1>3
<1>5. g[k] = 2 * g[k - 1] /\ e[k] = 2 * e[k - 1]
  BY <1>3 DEF IsPowers
<1> QED
  BY <1>1, <1>4, <1>5

\* Pow2 obeys its definition and is a number for every number.
LEMMA Pow2Def ==
  /\ Pow2[0] = 1
  /\ \A n \in Nat : Pow2[n] \in Nat /\ Pow2[n + 1] = 2 * Pow2[n]
<1> DEFINE Upto(n) == CHOOSE g : IsPowers(g, n)
           P == [n \in Nat |-> Upto(n)[n]]
           Step(g) == [n \in Nat |-> IF n = 0 THEN 1 ELSE 2 * g[n - 1]]
<1>1. \A n \in Nat : IsPowers(Upto(n), n)
  BY PowersExist
<1>2. Upto(0)[0] = 1
  BY <1>1 DEF IsPowers
<1>3. ASSUME NEW n \in Nat, n # 0 PROVE Upto(n)[n] = 2 * Upto(n - 1)[n - 1]
  <2> HIDE DEF Upto
  <2>1. n - 1 \in Nat /\ n \in 1..n /\ n - 1 \in 0..(n - 1) /\ n - 1 <= n
    BY <1>3
  <2>2. IsPowers(Upto(n), n) /\ IsPowers(Upto(n - 1), n - 1)
    BY <1>1, <2>1
  <2>3. Upto(n)[n] = 2 * Upto(n)[n - 1]
    BY <2>1, <2>2 DEF IsPowers
  <2>4. Upto(n - 1)[n - 1] = Upto(n)[n - 1]
    BY <2>1, <2>2, PowersUnique
  <2> QED
    BY <2>3, <2>4
<1>4. \A n \in Nat : Upto(n)[n] \in Nat
  <2> HIDE DEF Upto
  <2> QED
    BY <1>1 DEF IsPowers
<1>5. P = Step(P)
  <2> HIDE DEF Upto
  <2>1. \A n \in Nat : P[n] = IF n = 0 THEN 1 ELSE 2 * P[n - 1]
    BY <1>2, <1>3
  <2> QED
    BY <2>1
<1>6. Pow2 = Step(Pow2)
  <2> HIDE DEF P
  <2>1. \E g : g = Step(g)
    BY <1>5
  <2> QED
    BY <2>1 DEF Pow2
<1> DEFINE Bad == {n \in Nat : Pow2[n] \notin Nat}
<1>7. Pow2[0] = 1 /\ \A n \in Nat : n # 0 => Pow2[n] = 2 * Pow2[n - 1]
  BY <1>6
<1>8. Bad = {}
  <2> SUFFICES ASSUME Bad # {} PROVE FALSE
    OBVIOUS
  <2>1. PICK k \in Bad : \A m \in Bad : k <= m
    BY Least
  <2>2. k # 0
    BY <1>7, <2>1
  <2>3. k - 1 \in Nat /\ k - 1 \notin Bad
    BY <2>1, <2>2
  <2>4. Pow2[k - 1] \in Nat /\ Pow2[k] = 2 * Pow2[k - 1]
    BY <1>7, <2>2, <2>3
  <2> QED
    BY <2>1, <2>4
<1>9. \A n \in Nat : n + 1 \in Nat /\ n + 1 # 0 /\ (n + 1) - 1 = n
  OBVIOUS
<1> QED
  BY <1>7, <1>8, <1>9

\* One more failed session doubles the delay up to the maximum.
LEMMA BackoffStep ==
  ASSUME TypeOK, BackoffExact, delay' = NextBackoff(delay),
         failures' = IF delay < MaxDelay THEN failures + 1 ELSE failures
  PROVE  BackoffExact'
<1>1. /\ delay \in Nat /\ MinDelay <= delay /\ delay <= MaxDelay /\ failures \in Nat
      /\ Pow2[failures] \in Nat
  BY Pow2Def, DelayAssumption DEF TypeOK
<1>2. CASE delay < MaxDelay
  <2>1. delay = MinDelay * Pow2[failures]
    BY <1>2, DelayAssumption DEF BackoffExact
  <2>2. failures' = failures + 1 /\ Pow2[failures'] = 2 * Pow2[failures]
    BY <1>1, <1>2, Pow2Def
  <2>3. MinDelay * Pow2[failures'] = delay * 2
    BY <1>1, <2>1, <2>2, DelayAssumption
  <2>4. delay' = IF delay * 2 > MaxDelay THEN MaxDelay ELSE delay * 2
    BY <1>1, DelayAssumption DEF NextBackoff
  <2> QED
    BY <2>3, <2>4 DEF BackoffExact
<1>3. CASE ~(delay < MaxDelay)
  <2>1. delay = MaxDelay /\ failures' = failures
    BY <1>1, <1>3, DelayAssumption
  <2>2. delay' = MaxDelay
    BY <1>1, <2>1, DelayAssumption DEF NextBackoff
  <2> QED
    BY <2>1, <2>2 DEF BackoffExact
<1> QED
  BY <1>2, <1>3

\* The delay before the next attempt to open the port (nextSerialBackoff) is the
\* minimum doubled once for each failed session in a row, capped at the maximum,
\* whatever the two bounds are and however the sessions end.
THEOREM BackoffCorrect == Spec => []BackoffExact
<1>1. Init => BackoffExact
  BY Pow2Def, DelayAssumption DEF Init, BackoffExact
<1>2. TypeOK /\ BackoffExact /\ [Next]_vars => BackoffExact'
  <2> SUFFICES ASSUME TypeOK, BackoffExact, [Next]_vars PROVE BackoffExact'
    OBVIOUS
  <2>1. CASE ReconnectOK
    BY <2>1, Pow2Def, DelayAssumption DEF ReconnectOK, BackoffExact
  <2>2. CASE Sleep
    <3>1. CASE cancelled
      BY <2>2, <3>1 DEF Sleep, BackoffExact
    <3>2. CASE ~cancelled
      BY <2>2, <3>2, BackoffStep DEF Sleep
    <3> QED
      BY <3>1, <3>2
  <2>3. CASE UNCHANGED <<delay, failures>>
    BY <2>3 DEF BackoffExact
  <2>4. CASE SerialLoop
    BY <2>1, <2>2, <2>3, <2>4 DEF SerialLoop, LoopExits, StartSession, ReconnectFails,
       StoreOnline, LoopSends, PublishOnline, ReadLine, ReadEnds, Panic, StoreOffline,
       PublishOffline
  <2>5. CASE \/ ConnectionLost \/ ManagerStops
             \/ \E c \in Callbacks : ConnectionUp(c) \/ Callback(c)
    BY <2>3, <2>5 DEF ConnectionLost, ManagerStops, ConnectionUp, Callback, CallbackSends,
       PublishStatus, LoadSerialUp, PublishSerialStatus, serial
  <2>6. CASE Cancel \/ WorkersExit \/ Stop \/ ShutdownTimeout
    BY <2>3, <2>6 DEF Cancel, WorkersExit, Stop, Waited, StopStatus, StopSerialStatus,
       StopDisconnect, ClosePort, ShutdownTimeout, serial
  <2>7. CASE Ended \/ UNCHANGED vars
    BY <2>3, <2>7 DEF Ended, vars, serial
  <2> QED
    BY <2>4, <2>5, <2>6, <2>7 DEF Next
<1> QED
  BY <1>1, <1>2, TypeCorrect, PTL DEF Spec

=============================================================================
