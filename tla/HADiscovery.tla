---------------------------- MODULE HADiscovery ----------------------------
(***************************************************************************)
(* Home Assistant discovery (rflink/home_assistant.go; the actuators and   *)
(* ClearHADiscovery in rflink/publisher.go).  An entity is announced by a  *)
(* retained config message, once: the discovered map (a sync.Map) holds    *)
(* the ids that are announced or being announced.  The publish loop and    *)
(* the flush of the OnConnectionUp callback announce the entities of the   *)
(* sensors they publish, the callback announces the configured buttons and *)
(* switches, and a rediscover request (MQTT or HTTP) empties the map and   *)
(* announces the actuators again, all at the same time.                    *)
(*                                                                         *)
(* What an announcement says (friendly names, button labels and commands)  *)
(* is reduced to the version of the configuration it was taken from.       *)
(***************************************************************************)
EXTENDS Integers, FiniteSets

CONSTANTS
  Sensors,     \* topic ids
  EntitiesOf,  \* Sensors -> the unique ids of its non-empty fields
  Buttons,     \* gorflink_btn_0, ...: the ids are positions of the list
  Switches,    \* gorflink_sw_0, ...
  Loop,        \* the publish loop
  Callbacks,   \* OnConnectionUp goroutines that may be running at a time
  Clearers,    \* goroutines that may be inside ClearHADiscovery
  MaxVersion   \* bound on the versions of the configuration

Threads == {Loop} \cup Callbacks \cup Clearers
Ids == (UNION {EntitiesOf[s] : s \in Sensors}) \cup Buttons \cup Switches
Versions == 1..MaxVersion

ASSUME HAAssumption ==
  /\ MaxVersion \in Nat \ {0}
  /\ EntitiesOf \in [Sensors -> SUBSET Ids]
  /\ Loop \notin Callbacks \cup Clearers /\ Callbacks \cap Clearers = {}

None == "none"
ASSUME NoneAssumption == None \notin Ids \cup Sensors

VARIABLES
  link,        \* cm.Publish can reach the broker
  version,     \* of the names, buttons and switches in Options
  enabled,     \* Options.Publish.HomeAssistantDiscovery
  discovered,  \* Publisher.discovered
  retained,    \* broker: version of each retained config, 0 for none
  pending,     \* buffered sensors: the version of their name, 0 for none
  at,          \* where each goroutine is
  todo,        \* ids it has still to look at
  item,        \* the id it is announcing: marked, publish not returned
  acked,       \* the broker has that announcement
  snap,        \* the version of what it announces
  cur,         \* the sensor its PublishSensor works on
  items,       \* what a callback's flushPending has taken
  floor        \* history: the oldest announcement of each id that may still be
               \* published after the last rediscover

environment == <<link, version, enabled>>
work == <<at, todo, item, acked, snap, cur>>
vars == <<environment, discovered, retained, pending, work, items, floor>>

Init ==
  /\ link = FALSE /\ version = 1 /\ enabled \in BOOLEAN
  /\ discovered = {}
  /\ retained = [e \in Ids |-> 0]
  /\ pending = [s \in Sensors |-> 0]
  /\ at = [t \in Threads |-> "idle"]
  /\ todo = [t \in Threads |-> {}]
  /\ item = [t \in Threads |-> None]
  /\ acked = [t \in Threads |-> FALSE]
  /\ snap = [t \in Threads |-> 1]
  /\ cur = [t \in Threads |-> None]
  /\ items = [c \in Callbacks |-> [s \in Sensors |-> 0]]
  /\ floor = [e \in Ids |-> 1]

\* Goroutine t goes on with stage a and the ids S, taken from version v (1 where
\* it has read nothing).
Stage(t, a, S, v) ==
  /\ at' = [at EXCEPT ![t] = a]
  /\ todo' = [todo EXCEPT ![t] = S]
  /\ snap' = [snap EXCEPT ![t] = v]
  /\ UNCHANGED <<item, acked>>

Goto(t, a) == Stage(t, a, {}, 1)

\* It has nothing left to do in its stage.
Done(t) == todo[t] = {} /\ item[t] = None

-----------------------------------------------------------------------------
(* Announcing one id: publishHomeAssistantEntity, and the bodies of the loops *)
(* of publishHAButtons and publishHASwitches.                                 *)

Announcing(t) == at[t] \in {"sensor", "buttons", "switches"}

\* discovered.LoadOrStore: the first to come announces.
LoadOrStore(t) ==
  /\ Announcing(t)
  /\ item[t] = None
  /\ \E e \in todo[t] :
       /\ todo' = [todo EXCEPT ![t] = @ \ {e}]
       /\ discovered' = discovered \cup {e}
       /\ item' = IF e \in discovered THEN item ELSE [item EXCEPT ![t] = e]
  /\ UNCHANGED <<environment, retained, pending, at, acked, snap, cur, items, floor>>

\* The broker gets the packet of t's publishRaw ...
Deliver(t) ==
  /\ item[t] # None /\ ~acked[t]
  /\ link
  /\ retained' = [retained EXCEPT ![item[t]] = snap[t]]
  /\ acked' = [acked EXCEPT ![t] = TRUE]
  /\ UNCHANGED <<environment, discovered, pending, at, todo, item, snap, cur, items,
                 floor>>

\* ... and publishRaw returns without an error.
PublishOK(t) ==
  /\ acked[t]
  /\ item' = [item EXCEPT ![t] = None]
  /\ acked' = [acked EXCEPT ![t] = FALSE]
  /\ UNCHANGED <<environment, discovered, retained, pending, at, todo, snap, cur,
                 items, floor>>

\* Mutant: the id stays in the map.
PublishFailsMarked(t) ==
  /\ item[t] # None
  /\ item' = [item EXCEPT ![t] = None]
  /\ acked' = [acked EXCEPT ![t] = FALSE]
  /\ UNCHANGED <<environment, discovered, retained, pending, at, todo, snap, cur, items,
                 floor>>

\* It fails or times out, though the broker may have got the packet:
\* discovered.Delete.
PublishFails(t) ==
  /\ item[t] # None
  /\ discovered' = discovered \ {item[t]}
  /\ item' = [item EXCEPT ![t] = None]
  /\ acked' = [acked EXCEPT ![t] = FALSE]
  /\ UNCHANGED <<environment, retained, pending, at, todo, snap, cur, items, floor>>

Announce(t) == LoadOrStore(t) \/ Deliver(t) \/ PublishOK(t) \/ PublishFails(t)

-----------------------------------------------------------------------------
(* publishHAActuators.  Each list is read once, before its ids are marked. *)

\* Back to the callback, which flushes, or to the end of ClearHADiscovery.
After(t) == IF t \in Callbacks THEN "flush" ELSE "idle"

PublishHAButtons(t) ==
  /\ at[t] = "actuators"
  /\ IF enabled THEN Stage(t, "buttons", Buttons, version) ELSE Goto(t, After(t))
  /\ UNCHANGED <<environment, discovered, retained, pending, cur, items, floor>>

PublishHASwitches(t) ==
  /\ at[t] = "buttons" /\ Done(t)
  /\ Stage(t, "switches", Switches, version)
  /\ UNCHANGED <<environment, discovered, retained, pending, cur, items, floor>>

ActuatorsDone(t) ==
  /\ at[t] = "switches" /\ Done(t)
  /\ Goto(t, After(t))
  /\ UNCHANGED <<environment, discovered, retained, pending, cur, items, floor>>

PublishHAActuators(t) == PublishHAButtons(t) \/ PublishHASwitches(t) \/ ActuatorsDone(t)

-----------------------------------------------------------------------------
(* PublishSensor, of which only the announcements and the buffer matter here. *)

\* applyFriendlyName: a name that is set stays, also in the buffer.
NameOf(v) == IF v = 0 THEN version ELSE v

PublishSensor(t, s, v) ==
  /\ Stage(t, "sensor", IF enabled THEN EntitiesOf[s] ELSE {}, NameOf(v))
  /\ cur' = [cur EXCEPT ![t] = s]

\* A message of sensor s comes from the radio.
SensorMessage(s) ==
  /\ at[Loop] = "idle"
  /\ PublishSensor(Loop, s, 0)
  /\ UNCHANGED <<environment, discovered, retained, pending, items, floor>>

\* The fields are published and the buffer cleared, or the sensor is buffered.
PublishFields(t) ==
  /\ at[t] = "sensor" /\ Done(t)
  /\ \/ link /\ pending' = [pending EXCEPT ![cur[t]] = 0]
     \/ pending' \in {pending, [pending EXCEPT ![cur[t]] = snap[t]]}
  /\ Goto(t, IF t \in Callbacks THEN "flushing" ELSE "idle")
  /\ cur' = [cur EXCEPT ![t] = None]
  /\ UNCHANGED <<environment, discovered, retained, items, floor>>

\* flushPending takes what is not too old, and leaves nothing.
TakePending(c) ==
  /\ at[c] = "flush"
  /\ \E young \in SUBSET Sensors :
       items' = [items EXCEPT ![c] = [s \in Sensors |-> IF s \in young THEN pending[s] ELSE 0]]
  /\ pending' = [s \in Sensors |-> 0]
  /\ Goto(c, "flushing")
  /\ UNCHANGED <<environment, discovered, retained, cur, floor>>

FlushNext(c) ==
  /\ at[c] = "flushing"
  /\ \E s \in Sensors :
       /\ items[c][s] # 0
       /\ PublishSensor(c, s, items[c][s])
       /\ items' = [items EXCEPT ![c][s] = 0]
  /\ UNCHANGED <<environment, discovered, retained, pending, floor>>

FlushDone(c) ==
  /\ at[c] = "flushing"
  /\ \A s \in Sensors : items[c][s] = 0
  /\ Goto(c, "idle")
  /\ UNCHANGED <<environment, discovered, retained, pending, cur, items, floor>>

-----------------------------------------------------------------------------
(* ClearHADiscovery, from the rediscover topic or POST /ha/rediscover. *)

Rediscover(h) ==
  /\ at[h] = "idle"
  /\ Stage(h, "clear", Ids, 1)
  /\ UNCHANGED <<environment, discovered, retained, pending, cur, items, floor>>

\* Goroutine t may announce id e from what it has read already, now or, if its
\* sensor goes back into the buffer, later.
Holds(t, e) ==
  \/ Announcing(t) /\ (e \in todo[t] \/ item[t] = e)
  \/ cur[t] # None /\ e \in EntitiesOf[cur[t]]

\* The versions in which e may still be announced: held by a goroutine, by the
\* buffer or by a flush, or read from the options later.
Held(e) ==
  LET owners == {s \in Sensors : e \in EntitiesOf[s]}
  IN  {version} \cup {snap[t] : t \in {u \in Threads : Holds(u, e)}}
        \cup ({pending[s] : s \in owners} \ {0})
        \cup ((UNION {{items[c][s] : s \in owners} : c \in Callbacks}) \ {0})

IsOldest(v, e) == v \in Held(e) /\ \A w \in Held(e) : v <= w

\* Range and Delete: each key once, at its own moment, whether or not it was
\* stored meanwhile (a sync.Map promises no snapshot).
ClearKey(h) ==
  /\ at[h] = "clear"
  /\ \E e \in todo[h] :
       /\ todo' = [todo EXCEPT ![h] = @ \ {e}]
       /\ discovered' = discovered \ {e}
       /\ \E v \in Versions : IsOldest(v, e) /\ floor' = [floor EXCEPT ![e] = v]
  /\ UNCHANGED <<environment, retained, pending, at, item, acked, snap, cur, items>>

ClearDone(h) ==
  /\ at[h] = "clear" /\ todo[h] = {}
  /\ Goto(h, "actuators")
  /\ UNCHANGED <<environment, discovered, retained, pending, cur, items, floor>>

-----------------------------------------------------------------------------
(* The environment. *)

ConnectionUp(c) ==
  /\ ~link
  /\ at[c] = "idle"
  /\ link' = TRUE
  /\ Goto(c, "actuators")
  /\ UNCHANGED <<version, enabled, discovered, retained, pending, cur, items, floor>>

ConnectionDown ==
  /\ link
  /\ link' = FALSE
  /\ UNCHANGED <<version, enabled, discovered, retained, pending, work, items, floor>>

\* SaveOverlay or a reload of the runtime file: the map is left alone.
ApplyConfig ==
  /\ version < MaxVersion
  /\ version' = version + 1
  /\ enabled' \in BOOLEAN
  /\ UNCHANGED <<link, discovered, retained, pending, work, items, floor>>

FlushPending(c) == TakePending(c) \/ FlushNext(c) \/ FlushDone(c)
ClearHADiscovery(h) == ClearKey(h) \/ ClearDone(h)

Goroutine(t) ==
  \/ Announce(t) \/ PublishHAActuators(t) \/ PublishFields(t)
  \/ t \in Callbacks /\ FlushPending(t)
  \/ t \in Clearers /\ ClearHADiscovery(t)

Next ==
  \/ \E t \in Threads : Goroutine(t)
  \/ \E s \in Sensors : SensorMessage(s)
  \/ \E h \in Clearers : Rediscover(h)
  \/ \E c \in Callbacks : ConnectionUp(c)
  \/ ConnectionDown \/ ApplyConfig

\* Goroutines run on; the publishes of the loop, tried again and again while the
\* connection is up, do not all fail.
Fairness ==
  /\ \A t \in Threads : WF_vars(Goroutine(t))
  /\ SF_vars(Deliver(Loop))

Spec == Init /\ [][Next]_vars /\ Fairness

-----------------------------------------------------------------------------
\* Every variable stays in its range, and a goroutine has ids at hand, an id in
\* flight and a sensor only in the stages that work on them.
TypeOK ==
  /\ link \in BOOLEAN /\ enabled \in BOOLEAN /\ version \in Versions
  /\ discovered \subseteq Ids
  /\ retained \in [Ids -> 0..MaxVersion]
  /\ pending \in [Sensors -> 0..MaxVersion]
  /\ at \in [Threads -> {"idle", "clear", "actuators", "buttons", "switches", "sensor",
                         "flush", "flushing"}]
  /\ todo \in [Threads -> SUBSET Ids]
  /\ item \in [Threads -> Ids \cup {None}]
  /\ acked \in [Threads -> BOOLEAN]
  /\ snap \in [Threads -> Versions]
  /\ cur \in [Threads -> Sensors \cup {None}]
  /\ items \in [Callbacks -> [Sensors -> 0..MaxVersion]]
  /\ floor \in [Ids -> Versions]
  /\ \A t \in Threads : /\ item[t] # None => Announcing(t)
                        /\ todo[t] # {} => Announcing(t) \/ at[t] = "clear"
                        /\ acked[t] => item[t] # None
                        /\ cur[t] # None <=> at[t] = "sensor"

\* Some goroutine has marked id e and its publish has not returned.
InFlight(e) == \E t \in Threads : item[t] = e

\* An id in the map that nobody is announcing has been announced: a failed
\* publish, a second goroutine that skipped the id and a rediscover in between
\* never leave an id marked that Home Assistant knows nothing of.  And the
\* retained announcement is no older than the last rediscover, but for what was
\* already under way then, in a goroutine or in the buffer.
MarkedIsAnnounced ==
  \A e \in discovered : InFlight(e) \/ retained[e] >= floor[e]

\* While the connection is up and discovery on for good, a sensor that goes on
\* reporting gets all its entities announced, whatever failed before, whoever
\* else was announcing them and however often somebody asks for a rediscover.
SensorsAnnounced ==
  \A s \in Sensors :
    <>[](link /\ enabled) /\ []<><<SensorMessage(s)>>_vars =>
      <>(\A e \in EntitiesOf[s] : retained[e] # 0)

=============================================================================
