----------------------------- MODULE SerialLink -----------------------------
(***************************************************************************)
(* The serial session loop with its reconnection backoff (rflink/app.go,   *)
(* runSerialLoop; rflink/serial_reader.go; rflink/reconnect.go), the       *)
(* availability topics it shares with the OnConnectionUp callback          *)
(* (rflink/publisher.go), and the shutdown (App.Stop, main.go).            *)
(*                                                                         *)
(* The MQTT client and the broker are external.  publishRaw is refused at  *)
(* once when the caller's context is cancelled or the connection is down;  *)
(* past that check it is under way, whatever happens to the context, until *)
(* it returns: delivered, or with an error (the connection, p.cm not set   *)
(* yet, ten seconds without an answer), delivered or not.  The broker      *)
(* retains the two status topics and publishes the will ("offline" on the  *)
(* gateway's status topic) when the connection is lost.                    *)
(***************************************************************************)
EXTENDS Integers, FiniteSets

CONSTANTS
  Callbacks,   \* OnConnectionUp goroutines that may be running at a time
  MinDelay,    \* serialReconnectMinDelay(), seconds
  MaxDelay     \* serialReconnectMaxDelay(), seconds

\* GetOptions makes it so.
ASSUME DelayAssumption ==
  MinDelay \in Nat \ {0} /\ MaxDelay \in Nat /\ MinDelay <= MaxDelay

VARIABLES
  cancelled,   \* the application context
  port,        \* SerialReader.port # nil
  loopPc,      \* where the serial loop is
  delay,       \* its reconnectDelay
  failures,    \* history: sessions that failed since the port was last opened
  serialUp,    \* Publisher.serialUp
  link,        \* the MQTT connection is up
  mqttUp,      \* Publisher.mqttUp
  cbPc,        \* where each callback is
  seen,        \* the serial status a callback has loaded
  loopSends,   \* the loop's publish is past its checks and has not returned
  cbSends,     \* the callbacks whose publish is
  topic,       \* broker: the retained status topics
  raced,       \* history: a callback's loaded status was outdated by the loop
  lost,        \* history: topics on which the last publish to return since the
               \* connection came up has failed
  stragglers,  \* history: topics a callback was publishing at the cancellation
  said,        \* history: topics on which Stop's "offline" was delivered
  workers,     \* the publish and ping loops are running
  stopPc       \* where App.Stop is, or how main ended

serial == <<port, loopPc, delay, failures, serialUp, loopSends>>
mqtt == <<link, mqttUp, cbPc, seen, cbSends>>
retained == <<topic, lost>>
shutdown == <<cancelled, workers, stopPc, stragglers, said>>
vars == <<serial, mqtt, retained, raced, shutdown>>

Topics == {"status", "serial"}
Retained == [Topics -> {"online", "offline"}]

Status(up) == IF up THEN "online" ELSE "offline"

Init ==
  /\ cancelled = FALSE
  /\ port \in BOOLEAN                \* NewSerialReader tries to open it once
  /\ loopPc = "top"
  /\ delay = MinDelay
  /\ failures = 0
  /\ serialUp = FALSE
  /\ link = FALSE /\ mqttUp = FALSE
  /\ cbPc = [c \in Callbacks |-> "idle"]
  /\ seen = [c \in Callbacks |-> "offline"]
  /\ loopSends = FALSE /\ cbSends = {}
  /\ topic \in Retained                \* of an earlier run
  /\ raced = FALSE
  /\ lost = {} /\ stragglers = {} /\ said = {}
  /\ workers = TRUE
  /\ stopPc = "running"

\* Mutant: a context of its own for every publish.
AcceptedUncancelled == link

\* publishRaw with the application's context gets past its checks.
Accepted == link /\ ~cancelled

\* It returns: refused by the checks; delivered; or with an error that tells
\* nothing about the delivery.  The callers only log the error.
PublishReturns(sends, t, s) ==
  LET delivered == [topic EXCEPT ![t] = s]
  IN  \/ ~sends /\ ~Accepted /\ topic' = topic /\ lost' = lost \cup {t}
      \/ sends /\ link /\ topic' = delivered /\ lost' = lost \ {t}
      \/ sends /\ topic' \in {topic, IF link THEN delivered ELSE topic}
               /\ lost' = lost \cup {t}

-----------------------------------------------------------------------------
(* The serial loop. *)

LoopExits ==
  /\ loopPc = "top"
  /\ cancelled
  /\ loopPc' = "exited"
  /\ UNCHANGED <<port, delay, failures, serialUp, loopSends, mqtt, retained, raced, shutdown>>

StartSession ==
  /\ loopPc = "top"
  /\ ~cancelled
  /\ loopPc' = IF port THEN "online" ELSE "reconnect"
  /\ UNCHANGED <<port, delay, failures, serialUp, loopSends, mqtt, retained, raced, shutdown>>

\* Reconnect closes what is open and opens the device again.
ReconnectOK ==
  /\ loopPc = "reconnect"
  /\ port' = TRUE
  /\ delay' = MinDelay
  /\ failures' = 0
  /\ loopPc' = "online"
  /\ UNCHANGED <<serialUp, loopSends, mqtt, retained, raced, shutdown>>

ReconnectFails ==
  /\ loopPc = "reconnect"
  /\ port' = FALSE
  /\ loopPc' = "offline"
  /\ UNCHANGED <<delay, failures, serialUp, loopSends, mqtt, retained, raced, shutdown>>

\* A callback that has loaded serialUp and not published it yet.
CallbackBetween == \E c \in Callbacks : cbPc[c] = "loaded"

\* SetSerialConnected, first the atomic ...
SetSerialConnected(up) ==
  /\ serialUp' = up
  /\ raced' = (CallbackBetween /\ (raced \/ serialUp # up))

StoreOnline ==
  /\ loopPc = "online"
  /\ SetSerialConnected(TRUE)
  /\ loopPc' = "publish_online"
  /\ UNCHANGED <<port, delay, failures, loopSends, mqtt, retained, shutdown>>

\* ... then the topic.
LoopSends ==
  /\ loopPc \in {"publish_online", "publish_offline", "publish_panicked"}
  /\ ~loopSends
  /\ Accepted
  /\ loopSends' = TRUE
  /\ UNCHANGED <<port, loopPc, delay, failures, serialUp, mqtt, retained, raced, shutdown>>

\* 10;version; is written after it.
PublishOnline ==
  /\ loopPc = "publish_online"
  /\ PublishReturns(loopSends, "serial", "online")
  /\ loopSends' = FALSE
  /\ loopPc' = "read"
  /\ UNCHANGED <<port, delay, failures, serialUp, mqtt, raced, shutdown>>

\* ReadLines hands a line to the channel, or counts it as dropped; when the
\* context is cancelled the scan ends with this line.
ReadLine ==
  /\ loopPc = "read"
  /\ loopPc' = IF cancelled THEN "exited" ELSE "read"
  /\ UNCHANGED <<port, delay, failures, serialUp, loopSends, mqtt, retained, raced, shutdown>>

\* The stream ends or fails (a line that stays silent fails too, after a
\* hundred empty reads).
ReadEnds ==
  /\ loopPc = "read"
  /\ IF cancelled
     THEN loopPc' = "exited" /\ UNCHANGED port
     ELSE loopPc' = "offline" /\ port' = FALSE
  /\ UNCHANGED <<delay, failures, serialUp, loopSends, mqtt, retained, raced, shutdown>>

\* A panic in the session is recovered: disconnect, report, and no pause.
Panic ==
  /\ loopPc = "read"
  /\ port' = FALSE
  /\ loopPc' = "panicked"
  /\ UNCHANGED <<delay, failures, serialUp, loopSends, mqtt, retained, raced, shutdown>>

StoreOffline ==
  /\ loopPc \in {"offline", "panicked"}
  /\ SetSerialConnected(FALSE)
  /\ loopPc' = IF loopPc = "offline" THEN "publish_offline" ELSE "publish_panicked"
  /\ UNCHANGED <<port, delay, failures, loopSends, mqtt, retained, shutdown>>

PublishOffline ==
  /\ loopPc \in {"publish_offline", "publish_panicked"}
  /\ PublishReturns(loopSends, "serial", "offline")
  /\ loopSends' = FALSE
  /\ loopPc' = IF loopPc = "publish_offline" THEN "sleep" ELSE "top"
  /\ UNCHANGED <<port, delay, failures, serialUp, mqtt, raced, shutdown>>

\* Mutant: doubling without the upper bound.
NextBackoffUnbounded(current) == current * 2

NextBackoff(current) ==
  IF current < MinDelay THEN MinDelay
  ELSE IF current * 2 > MaxDelay THEN MaxDelay ELSE current * 2

\* Mutant: the pause does not see the context.
SleepUncancelled ==
  /\ loopPc = "sleep"
  /\ loopPc' = "sleep"
  /\ delay' = NextBackoff(delay)
  /\ failures' = IF delay < MaxDelay THEN failures + 1 ELSE failures
  /\ UNCHANGED <<port, serialUp, loopSends, mqtt, retained, raced, shutdown>>

\* sleepContext: the context wakes it early and ends the loop.
Sleep ==
  /\ loopPc = "sleep"
  /\ IF cancelled
     THEN loopPc' = "exited" /\ UNCHANGED <<delay, failures>>
     ELSE /\ loopPc' = "top"
          /\ delay' = NextBackoff(delay)
          /\ failures' = IF delay < MaxDelay THEN failures + 1 ELSE failures
  /\ UNCHANGED <<port, serialUp, loopSends, mqtt, retained, raced, shutdown>>

SerialLoop ==
  LoopExits \/ StartSession \/ ReconnectOK \/ ReconnectFails \/ StoreOnline
    \/ LoopSends \/ PublishOnline \/ ReadLine \/ ReadEnds \/ Panic \/ StoreOffline
    \/ PublishOffline \/ Sleep

-----------------------------------------------------------------------------
(* The MQTT connection and its OnConnectionUp callback. *)

\* With QoS 1 or 2 the client first sends again what an earlier connection has
\* left unacknowledged.
ConnectionUp(c) ==
  /\ ~link
  /\ ~cancelled
  /\ cbPc[c] = "idle"
  /\ link' = TRUE
  /\ mqttUp' = TRUE
  /\ cbPc' = [cbPc EXCEPT ![c] = "up"]
  /\ topic' \in Retained
  /\ lost' = {}
  /\ UNCHANGED <<seen, cbSends, serial, raced, shutdown>>

CallbackSends(c) ==
  /\ cbPc[c] \in {"up", "loaded"}
  /\ c \notin cbSends
  /\ Accepted
  /\ cbSends' = cbSends \cup {c}
  /\ UNCHANGED <<link, mqttUp, cbPc, seen, serial, retained, raced, shutdown>>

PublishStatus(c) ==
  /\ cbPc[c] = "up"
  /\ PublishReturns(c \in cbSends, "status", "online")
  /\ cbSends' = cbSends \ {c}
  /\ cbPc' = [cbPc EXCEPT ![c] = "announced"]
  /\ UNCHANGED <<link, mqttUp, seen, serial, raced, shutdown>>

\* Mutant: the callback leaves the serial topic to the loop.
LoadSerialUpSkipped(c) ==
  /\ cbPc[c] = "announced"
  /\ cbPc' = [cbPc EXCEPT ![c] = "idle"]
  /\ UNCHANGED <<link, mqttUp, seen, cbSends, serial, retained, raced, shutdown>>

LoadSerialUp(c) ==
  /\ cbPc[c] = "announced"
  /\ seen' = [seen EXCEPT ![c] = Status(serialUp)]
  /\ cbPc' = [cbPc EXCEPT ![c] = "loaded"]
  /\ raced' = (raced /\ CallbackBetween)
  /\ UNCHANGED <<link, mqttUp, cbSends, serial, retained, shutdown>>

PublishSerialStatus(c) ==
  /\ cbPc[c] = "loaded"
  /\ PublishReturns(c \in cbSends, "serial", seen[c])
  /\ cbSends' = cbSends \ {c}
  /\ seen' = [seen EXCEPT ![c] = "offline"]     \* nobody reads it any more
  /\ cbPc' = [cbPc EXCEPT ![c] = "idle"]
  /\ UNCHANGED <<link, mqttUp, serial, raced, shutdown>>

Callback(c) ==
  CallbackSends(c) \/ PublishStatus(c) \/ LoadSerialUp(c) \/ PublishSerialStatus(c)

\* OnClientError, OnServerDisconnect; the broker publishes the will.
ConnectionLost ==
  /\ link
  /\ link' = FALSE
  /\ mqttUp' = FALSE
  /\ topic' = [topic EXCEPT !["status"] = "offline"]
  /\ UNCHANGED <<cbPc, seen, cbSends, lost, serial, raced, shutdown>>

\* Cancelling the context the connection manager was created with ends the
\* connection as well, at some point, with or without the will.
ManagerStops ==
  /\ cancelled
  /\ link
  /\ link' = FALSE
  /\ topic' \in {topic, [topic EXCEPT !["status"] = "offline"]}
  /\ UNCHANGED <<mqttUp, cbPc, seen, cbSends, lost, serial, raced, shutdown>>

-----------------------------------------------------------------------------
(* App.Stop, on a signal; main gives it 15 seconds. *)

\* The topic a callback is publishing.
Publishing(c) == IF cbPc[c] = "up" THEN "status" ELSE "serial"

Cancel ==
  /\ stopPc = "running"
  /\ cancelled' = TRUE
  /\ stopPc' = "waiting"
  /\ stragglers' = {Publishing(c) : c \in cbSends}
  /\ UNCHANGED <<workers, said, serial, mqtt, retained, raced>>

WorkersExit ==
  /\ cancelled
  /\ workers
  /\ workers' = FALSE
  /\ UNCHANGED <<cancelled, stopPc, stragglers, said, serial, mqtt, retained, raced>>

\* Mutant: wg.Wait forgotten.
AllExitedNot == TRUE

AllExited == loopPc = "exited" /\ ~workers

\* wg.Wait; then the HTTP server, the webhooks and the runtime manager.
Waited ==
  /\ stopPc = "waiting"
  /\ AllExited
  /\ stopPc' = IF mqttUp THEN "status" ELSE "disconnect"
  /\ UNCHANGED <<cancelled, workers, stragglers, said, serial, mqtt, retained, raced>>

\* Disconnect publishes both topics, with a context of its own of one second,
\* and ignores the result.
SayOffline(t) ==
  \/ link /\ topic' = [topic EXCEPT ![t] = "offline"] /\ said' = said \cup {t}
  \/ UNCHANGED <<topic, said>>

StopStatus ==
  /\ stopPc = "status"
  /\ SayOffline("status")
  /\ stopPc' = "serial"
  /\ UNCHANGED <<cancelled, workers, stragglers, lost, serial, mqtt, raced>>

StopSerialStatus ==
  /\ stopPc = "serial"
  /\ SayOffline("serial")
  /\ stopPc' = "disconnect"
  /\ UNCHANGED <<cancelled, workers, stragglers, lost, serial, mqtt, raced>>

StopDisconnect ==
  /\ stopPc = "disconnect"
  /\ link' = FALSE
  /\ stopPc' = "close"
  /\ UNCHANGED <<cancelled, workers, stragglers, said, serial, mqttUp, cbPc, seen, cbSends,
                 retained, raced>>

\* Close, and main returns: what is left of the callbacks ends with it.
ClosePort ==
  /\ stopPc = "close"
  /\ port' = FALSE
  /\ cbPc' = [c \in Callbacks |-> "idle"]
  /\ cbSends' = {}
  /\ stopPc' = "stopped"
  /\ UNCHANGED <<cancelled, workers, stragglers, said, loopPc, delay, failures, serialUp,
                 loopSends, link, mqttUp, seen, retained, raced>>

Stop == Waited \/ StopStatus \/ StopSerialStatus \/ StopDisconnect \/ ClosePort

\* The 15 seconds are over: os.Exit(1) ends every goroutine, and with the
\* socket the broker publishes the will.
ShutdownTimeout ==
  /\ stopPc \in {"waiting", "status", "serial", "disconnect", "close"}
  /\ stopPc' = "killed"
  /\ loopPc' = "exited" /\ workers' = FALSE /\ port' = FALSE
  /\ loopSends' = FALSE /\ cbSends' = {}
  /\ cbPc' = [c \in Callbacks |-> "idle"]
  /\ link' = FALSE
  /\ topic' = IF link THEN [topic EXCEPT !["status"] = "offline"] ELSE topic
  /\ UNCHANGED <<cancelled, stragglers, said, delay, failures, serialUp, mqttUp, seen,
                 lost, raced>>

Ended == stopPc \in {"stopped", "killed"} /\ UNCHANGED vars

Next ==
  \/ SerialLoop
  \/ ConnectionLost \/ ManagerStops
  \/ \E c \in Callbacks : ConnectionUp(c) \/ Callback(c)
  \/ Cancel \/ WorkersExit \/ Stop \/ ShutdownTimeout
  \/ Ended

\* The goroutines run on.  A read comes back in the end: with a line, with an
\* error, or because the device stayed silent for a hundred read timeouts.
Fairness ==
  /\ WF_vars(SerialLoop) /\ WF_vars(WorkersExit) /\ WF_vars(Stop)
  /\ \A c \in Callbacks : WF_vars(Callback(c))

Spec == Init /\ [][Next]_vars /\ Fairness

-----------------------------------------------------------------------------
Pow2[n \in Nat] == IF n = 0 THEN 1 ELSE 2 * Pow2[n - 1]

LoopPlaces ==
  {"top", "reconnect", "online", "publish_online", "read", "offline", "publish_offline",
   "panicked", "publish_panicked", "sleep", "exited"}

StopPlaces ==
  {"running", "waiting", "status", "serial", "disconnect", "close", "stopped", "killed"}

\* Every variable stays in its range; the delay between the configured bounds.
TypeOK ==
  /\ cancelled \in BOOLEAN /\ port \in BOOLEAN /\ serialUp \in BOOLEAN
  /\ loopPc \in LoopPlaces
  /\ delay \in MinDelay..MaxDelay /\ failures \in Nat
  /\ link \in BOOLEAN /\ mqttUp \in BOOLEAN
  /\ cbPc \in [Callbacks -> {"idle", "up", "announced", "loaded"}]
  /\ seen \in [Callbacks -> {"online", "offline"}]
  /\ loopSends \in BOOLEAN /\ cbSends \subseteq Callbacks
  /\ topic \in Retained /\ lost \subseteq Topics
  /\ stragglers \subseteq Topics /\ said \subseteq Topics
  /\ raced \in BOOLEAN /\ workers \in BOOLEAN
  /\ stopPc \in StopPlaces

\* The delay doubles with each failed session in a row, up to the maximum, and
\* starts over when the port could be opened.
BackoffExact ==
  delay = (IF MinDelay * Pow2[failures] > MaxDelay THEN MaxDelay
           ELSE MinDelay * Pow2[failures])

\* The port is open while the session reads it: nobody closes it under the
\* reader, the shutdown included, and it is never left open while the loop
\* pauses; serialUp, which health and the callback report, says the same.
PortOwned ==
  /\ loopPc \in {"online", "publish_online", "read"} => port
  /\ loopPc \in {"reconnect", "offline", "publish_offline", "panicked",
                 "publish_panicked", "sleep"} => ~port
  /\ loopPc \in {"publish_online", "read"} => serialUp
  /\ loopPc \in {"publish_offline", "publish_panicked", "sleep"} => ~serialUp
  /\ stopPc \in {"status", "serial", "disconnect", "close", "stopped"} =>
       loopPc = "exited" /\ ~workers

\* The session reads, the connection is up and nobody is about to publish.
Settled ==
  /\ loopPc \in {"read", "sleep"} /\ link /\ ~cancelled
  /\ \A c \in Callbacks : cbPc[c] = "idle"

\* The retained topics are right once everybody has published, with two
\* exceptions: a publish that failed on this connection with none delivered after
\* it, which is only logged and never tried again, and, for the serial status,
\* a change of the loop between a callback's load and its publish.
StatusAccurate ==
  Settled => /\ "status" \notin lost => topic["status"] = "online"
             /\ "serial" \notin lost /\ ~raced => topic["serial"] = Status(port)

\* Stop ends, or main gives up on it.
StopEnds == (stopPc # "running") ~> (stopPc \in {"stopped", "killed"})

\* Stop cancels the context first, waits for the loops and says "offline" last,
\* while the callbacks, for which nobody waits, may still be running: a topic on
\* which the "offline" was delivered stays so, unless a callback was in the
\* middle of publishing that very topic when the context was cancelled.
OfflineIsLast == \A t \in said \ stragglers : topic[t] = "offline"

=============================================================================
