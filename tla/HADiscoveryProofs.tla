------------------------- MODULE HADiscoveryProofs -------------------------
(***************************************************************************)
(* Proofs about HADiscovery for any sensors, entities, buttons, switches,  *)
(* connection callbacks and rediscover requests.                           *)
(***************************************************************************)
EXTENDS HADiscovery, TLAPS

Stages == {"idle", "clear", "actuators", "buttons", "switches", "sensor", "flush", "flushing"}

\* The ids of a sensor are ids.
LEMMA EntitiesAreIds ==
  ASSUME NEW s \in Sensors
  PROVE  EntitiesOf[s] \subseteq Ids
  BY HAAssumption

\* None is neither an id nor a sensor, and every goroutine is a thread.
LEMMA ConstantFacts ==
  /\ None \notin Ids /\ None \notin Sensors
  /\ Buttons \subseteq Ids /\ Switches \subseteq Ids
  /\ Loop \in Threads /\ Callbacks \subseteq Threads /\ Clearers \subseteq Threads
  /\ Loop \notin Callbacks
  /\ 1 \in Versions
  BY HAAssumption, NoneAssumption DEF Ids, Threads, Versions

\* What is not the work of a goroutine has its type.
DataOK ==
  /\ link \in BOOLEAN /\ enabled \in BOOLEAN /\ version \in Versions
  /\ discovered \subseteq Ids
  /\ retained \in [Ids -> 0..MaxVersion]
  /\ pending \in [Sensors -> 0..MaxVersion]
  /\ items \in [Callbacks -> [Sensors -> 0..MaxVersion]]
  /\ floor \in [Ids -> Versions]

\* A goroutine without an id in flight may go on with any stage.
LEMMA StageKeepsType ==
  ASSUME TypeOK, DataOK', NEW t \in Threads,
         NEW a \in Stages, NEW S \in SUBSET Ids, NEW v \in Versions,
         Stage(t, a, S, v), item[t] = None,
         S # {} => a \in {"clear", "buttons", "switches", "sensor"},
         NEW x \in Sensors \cup {None}, cur' = [cur EXCEPT ![t] = x],
         x # None <=> a = "sensor"
  PROVE  TypeOK'
<1>1. /\ at' \in [Threads -> Stages]
      /\ todo' \in [Threads -> SUBSET Ids]
      /\ item' \in [Threads -> Ids \cup {None}]
      /\ acked' \in [Threads -> BOOLEAN]
      /\ snap' \in [Threads -> Versions]
      /\ cur' \in [Threads -> Sensors \cup {None}]
  BY DEF TypeOK, Stage, Stages
<1>2. ASSUME NEW u \in Threads
      PROVE  /\ item'[u] # None => Announcing(u)'
             /\ todo'[u] # {} => Announcing(u)' \/ at'[u] = "clear"
             /\ acked'[u] => item'[u] # None
             /\ cur'[u] # None <=> at'[u] = "sensor"
  <2>1. CASE u = t
    BY <2>1 DEF TypeOK, Stage, Stages, Announcing
  <2>2. CASE u # t
    BY <2>2 DEF TypeOK, Stage, Stages, Announcing
  <2> QED
    BY <2>1, <2>2
<1> QED
  BY <1>1, <1>2 DEF TypeOK, DataOK, Stages

\* The same for a goroutine that has no sensor, before or after.
LEMMA StageKeepsTypeNoSensor ==
  ASSUME TypeOK, DataOK', NEW t \in Threads, at[t] # "sensor",
         NEW a \in Stages, NEW S \in SUBSET Ids, NEW v \in Versions,
         Stage(t, a, S, v), item[t] = None, a # "sensor",
         S # {} => a \in {"clear", "buttons", "switches"},
         UNCHANGED cur
  PROVE  TypeOK'
<1>1. cur[t] = None /\ cur' = [cur EXCEPT ![t] = None]
  BY DEF TypeOK
<1> QED
  BY <1>1, StageKeepsType

\* A goroutine without an id in flight, outside the stages that have one.
LEMMA NoItem ==
  ASSUME TypeOK, NEW t \in Threads, ~Announcing(t)
  PROVE  item[t] = None
  BY DEF TypeOK

\* Announcing an id keeps every variable in its range.
LEMMA TypeAnnounce ==
  ASSUME TypeOK, NEW t \in Threads, Announce(t)
  PROVE  TypeOK'
<1>1. CASE LoadOrStore(t)
  BY <1>1, ConstantFacts DEF TypeOK, LoadOrStore, environment, Announcing
<1>2. CASE Deliver(t)
  BY <1>2, ConstantFacts DEF TypeOK, Deliver, environment, Announcing, Versions
<1>3. CASE PublishOK(t)
  BY <1>3, ConstantFacts DEF TypeOK, PublishOK, environment, Announcing
<1>4. CASE PublishFails(t)
  BY <1>4, ConstantFacts DEF TypeOK, PublishFails, environment, Announcing
<1> QED
  BY <1>1, <1>2, <1>3, <1>4 DEF Announce

\* So does announcing the actuators.
LEMMA TypeActuators ==
  ASSUME TypeOK, NEW t \in Threads, PublishHAActuators(t)
  PROVE  TypeOK'
<1> USE ConstantFacts
<1>0. /\ After(t) \in Stages /\ After(t) # "sensor"
      /\ "buttons" \in Stages /\ "switches" \in Stages /\ version \in Versions
  BY DEF After, Stages, TypeOK
<1>d. DataOK' /\ UNCHANGED cur
  BY DEF PublishHAActuators, PublishHAButtons, PublishHASwitches, ActuatorsDone, TypeOK, DataOK,
         environment
<1>1. CASE PublishHAButtons(t)
  <2>1. item[t] = None /\ at[t] # "sensor"
    BY <1>1, NoItem DEF PublishHAButtons, Announcing
  <2>2. CASE enabled
    <3>1. Stage(t, "buttons", Buttons, version)
      BY <1>1, <2>2 DEF PublishHAButtons
    <3> QED
      BY <1>0, <1>d, <2>1, <3>1, StageKeepsTypeNoSensor
  <2>3. CASE ~enabled
    <3>1. Stage(t, After(t), {}, 1)
      BY <1>1, <2>3 DEF PublishHAButtons, Goto
    <3> QED
      BY <1>0, <1>d, <2>1, <3>1, StageKeepsTypeNoSensor
  <2> QED
    BY <2>2, <2>3
<1>2. CASE PublishHASwitches(t)
  BY <1>0, <1>d, <1>2, StageKeepsTypeNoSensor DEF PublishHASwitches, Done
<1>3. CASE ActuatorsDone(t)
  BY <1>0, <1>d, <1>3, StageKeepsTypeNoSensor DEF ActuatorsDone, Goto, Done
<1> QED
  BY <1>1, <1>2, <1>3 DEF PublishHAActuators

\* PublishSensor starts with ids of the sensor and a version.
LEMMA TypePublishSensor ==
  ASSUME TypeOK, DataOK', NEW t \in Threads, NEW s \in Sensors, NEW v \in 0..MaxVersion,
         PublishSensor(t, s, v), item[t] = None
  PROVE  TypeOK'
<1> DEFINE S == IF enabled THEN EntitiesOf[s] ELSE {}
<1>1. S \in SUBSET Ids /\ NameOf(v) \in Versions /\ "sensor" \in Stages /\ s # None
  BY EntitiesAreIds, HAAssumption, ConstantFacts DEF NameOf, TypeOK, Versions, Stages
<1>2. Stage(t, "sensor", S, NameOf(v)) /\ cur' = [cur EXCEPT ![t] = s]
  BY DEF PublishSensor
<1> HIDE DEF S
<1> QED
  BY <1>1, <1>2, StageKeepsType

\* So does publishing a sensor, on its way through the buffer and the flush too.
LEMMA TypeSensor ==
  ASSUME TypeOK,
         \/ \E t \in Threads : PublishFields(t)
         \/ \E c \in Callbacks : FlushPending(c)
         \/ \E s \in Sensors : SensorMessage(s)
  PROVE  TypeOK'
<1> USE ConstantFacts
<1>0. "flushing" \in Stages /\ "idle" \in Stages
  BY DEF Stages
<1>1. ASSUME NEW t \in Threads, PublishFields(t) PROVE TypeOK'
  <2> DEFINE a == IF t \in Callbacks THEN "flushing" ELSE "idle"
  <2>1. a \in Stages /\ a # "sensor" /\ Stage(t, a, {}, 1) /\ item[t] = None
    BY <1>1 DEF PublishFields, Goto, Done, Stages
  <2>2. pending' \in [Sensors -> 0..MaxVersion]
    <3>1. snap[t] \in 0..MaxVersion /\ 0 \in 0..MaxVersion
      BY HAAssumption DEF TypeOK, Versions
    <3> QED
      BY <1>1, <3>1 DEF PublishFields, TypeOK
  <2>3. DataOK' /\ cur' = [cur EXCEPT ![t] = None]
    BY <1>1, <2>2 DEF PublishFields, TypeOK, DataOK, environment
  <2> HIDE DEF a
  <2> QED
    BY <2>1, <2>3, StageKeepsType
<1>2. ASSUME NEW c \in Callbacks, TakePending(c) PROVE TypeOK'
  <2>1. item[c] = None /\ at[c] # "sensor" /\ Stage(c, "flushing", {}, 1)
    BY <1>2, NoItem DEF TakePending, Announcing, Goto
  <2>2. items' \in [Callbacks -> [Sensors -> 0..MaxVersion]]
    <3>1. PICK young \in SUBSET Sensors :
            items' = [items EXCEPT ![c] = [s \in Sensors |-> IF s \in young THEN pending[s] ELSE 0]]
      BY <1>2 DEF TakePending
    <3>2. [s \in Sensors |-> IF s \in young THEN pending[s] ELSE 0] \in [Sensors -> 0..MaxVersion]
      BY HAAssumption DEF TypeOK
    <3> QED
      BY <3>1, <3>2 DEF TypeOK
  <2>3. pending' \in [Sensors -> 0..MaxVersion]
    BY <1>2, HAAssumption DEF TakePending
  <2>4. DataOK' /\ UNCHANGED cur
    BY <1>2, <2>2, <2>3 DEF TakePending, TypeOK, DataOK, environment
  <2> QED
    BY <1>0, <2>1, <2>4, StageKeepsTypeNoSensor
<1>3. ASSUME NEW c \in Callbacks, FlushNext(c) PROVE TypeOK'
  <2>1. item[c] = None
    BY <1>3, NoItem DEF FlushNext, Announcing
  <2>2. PICK s \in Sensors : /\ PublishSensor(c, s, items[c][s])
                             /\ items' = [items EXCEPT ![c][s] = 0]
    BY <1>3 DEF FlushNext
  <2>3. items' \in [Callbacks -> [Sensors -> 0..MaxVersion]]
    BY <2>2, HAAssumption DEF TypeOK
  <2>4. items[c][s] \in 0..MaxVersion
    BY DEF TypeOK
  <2>5. DataOK'
    BY <1>3, <2>3 DEF FlushNext, TypeOK, DataOK, environment
  <2> QED
    BY <2>1, <2>2, <2>4, <2>5, TypePublishSensor
<1>4. ASSUME NEW c \in Callbacks, FlushDone(c) PROVE TypeOK'
  <2>1. item[c] = None /\ at[c] # "sensor" /\ Stage(c, "idle", {}, 1)
    BY <1>4, NoItem DEF FlushDone, Announcing, Goto
  <2>2. DataOK' /\ UNCHANGED cur
    BY <1>4 DEF FlushDone, TypeOK, DataOK, environment
  <2> QED
    BY <1>0, <2>1, <2>2, StageKeepsTypeNoSensor
<1>5. ASSUME NEW s \in Sensors, SensorMessage(s) PROVE TypeOK'
  <2>1. item[Loop] = None /\ PublishSensor(Loop, s, 0)
    BY <1>5, NoItem DEF SensorMessage, Announcing
  <2>2. 0 \in 0..MaxVersion /\ DataOK'
    BY <1>5, HAAssumption DEF SensorMessage, TypeOK, DataOK, environment
  <2> QED
    BY <2>1, <2>2, TypePublishSensor
<1> QED
  BY <1>1, <1>2, <1>3, <1>4, <1>5 DEF FlushPending

\* And clearing, the connection and the configuration.
LEMMA TypeRest ==
  ASSUME TypeOK,
         \/ \E h \in Clearers : ClearHADiscovery(h) \/ Rediscover(h)
         \/ \E c \in Callbacks : ConnectionUp(c)
         \/ ConnectionDown \/ ApplyConfig
  PROVE  TypeOK'
<1> USE ConstantFacts
<1>0. "actuators" \in Stages /\ "clear" \in Stages
  BY DEF Stages
<1>1. ASSUME NEW h \in Clearers, ClearKey(h) PROVE TypeOK'
  <2>1. PICK e \in todo[h] : /\ todo' = [todo EXCEPT ![h] = @ \ {e}]
                             /\ discovered' = discovered \ {e}
                             /\ \E v \in Versions : floor' = [floor EXCEPT ![e] = v]
    BY <1>1 DEF ClearKey
  <2>2. todo' \in [Threads -> SUBSET Ids] /\ floor' \in [Ids -> Versions]
    BY <2>1 DEF TypeOK
  <2>3. \A t \in Threads : todo'[t] \subseteq todo[t]
    BY <2>1 DEF TypeOK
  <2> QED
    BY <1>1, <2>1, <2>2, <2>3 DEF ClearKey, TypeOK, environment, Announcing
<1>2. ASSUME NEW h \in Clearers, ClearDone(h) PROVE TypeOK'
  <2>1. item[h] = None /\ at[h] # "sensor" /\ Stage(h, "actuators", {}, 1)
    BY <1>2, NoItem DEF ClearDone, Announcing, Goto
  <2>2. DataOK' /\ UNCHANGED cur
    BY <1>2 DEF ClearDone, TypeOK, DataOK, environment
  <2> QED
    BY <1>0, <2>1, <2>2, StageKeepsTypeNoSensor
<1>3. ASSUME NEW h \in Clearers, Rediscover(h) PROVE TypeOK'
  <2>1. item[h] = None /\ at[h] # "sensor" /\ Stage(h, "clear", Ids, 1)
    BY <1>3, NoItem DEF Rediscover, Announcing
  <2>2. DataOK' /\ UNCHANGED cur
    BY <1>3 DEF Rediscover, TypeOK, DataOK, environment
  <2> QED
    BY <1>0, <2>1, <2>2, StageKeepsTypeNoSensor
<1>4. ASSUME NEW c \in Callbacks, ConnectionUp(c) PROVE TypeOK'
  <2>1. item[c] = None /\ at[c] # "sensor" /\ Stage(c, "actuators", {}, 1)
    BY <1>4, NoItem DEF ConnectionUp, Announcing, Goto
  <2>2. DataOK' /\ UNCHANGED cur
    BY <1>4 DEF ConnectionUp, TypeOK, DataOK
  <2> QED
    BY <1>0, <2>1, <2>2, StageKeepsTypeNoSensor
<1>5. CASE ConnectionDown
  BY <1>5 DEF ConnectionDown, TypeOK, work, Announcing
<1>6. CASE ApplyConfig
  <2>1. version' \in Versions
    BY <1>6, HAAssumption DEF ApplyConfig, TypeOK, Versions
  <2> QED
    BY <1>6, <2>1 DEF ApplyConfig, TypeOK, work, Announcing
<1> QED
  BY <1>1, <1>2, <1>3, <1>4, <1>5, <1>6 DEF ClearHADiscovery

LEMMA TypeInit ==
  ASSUME Init
  PROVE  TypeOK
<1>1. 0 \in 0..MaxVersion /\ 1 \in Versions
  BY HAAssumption, ConstantFacts
<1>2. DataOK
  BY <1>1 DEF Init, DataOK
<1>3. /\ at \in [Threads -> Stages] /\ todo \in [Threads -> SUBSET Ids]
      /\ item \in [Threads -> Ids \cup {None}] /\ acked \in [Threads -> BOOLEAN]
      /\ snap \in [Threads -> Versions] /\ cur \in [Threads -> Sensors \cup {None}]
  BY <1>1 DEF Init, Stages
<1>4. \A t \in Threads : /\ item[t] = None /\ todo[t] = {} /\ ~acked[t]
                         /\ cur[t] = None /\ at[t] = "idle"
  BY DEF Init
<1> QED
  BY <1>2, <1>3, <1>4 DEF TypeOK, DataOK, Stages

LEMMA TypeStep ==
  ASSUME TypeOK, [Next]_vars
  PROVE  TypeOK'
<1>1. CASE UNCHANGED vars
  BY <1>1 DEF TypeOK, vars, environment, work, Announcing
<1>2. CASE Next
  BY <1>2, TypeAnnounce, TypeActuators, TypeSensor, TypeRest DEF Next, Goroutine
<1> QED
  BY <1>1, <1>2

\* Every variable stays in its range, and a goroutine has an id in flight, ids at
\* hand or a sensor only in the stages that work on them.
THEOREM TypeCorrect == Spec => []TypeOK
<1>1. Init => TypeOK
  BY TypeInit
<1>2. TypeOK /\ [Next]_vars => TypeOK'
  BY TypeStep
<1> QED
  BY <1>1, <1>2, PTL DEF Spec

-----------------------------------------------------------------------------
(* What may still be announced is never older than floor. *)

OptionsHeld == \A e \in Ids : floor[e] <= version

GoroutinesHeld == \A e \in Ids : \A t \in Threads : Holds(t, e) => floor[e] <= snap[t]

BuffersHeld ==
  \A s \in Sensors : \A e \in EntitiesOf[s] :
    /\ pending[s] # 0 => floor[e] <= pending[s]
    /\ \A c \in Callbacks : items[c][s] # 0 => floor[e] <= items[c][s]

HeldInv == OptionsHeld /\ GoroutinesHeld /\ BuffersHeld

\* A goroutine goes on with ids or a sensor of which it has read something new enough.
LEMMA HeldStage ==
  ASSUME TypeOK, GoroutinesHeld, UNCHANGED floor, NEW t \in Threads,
         NEW a \in Stages, NEW S \in SUBSET Ids, NEW v \in Versions,
         Stage(t, a, S, v), item[t] = None,
         NEW x \in Sensors \cup {None}, cur' = [cur EXCEPT ![t] = x],
         \A e \in Ids : (e \in S /\ a # "clear") \/ (x # None /\ e \in EntitiesOf[x]) => floor[e] <= v
  PROVE  GoroutinesHeld'
<1> SUFFICES ASSUME NEW e \in Ids, NEW u \in Threads, Holds(u, e)'
             PROVE  floor[e] <= snap'[u]
  BY DEF GoroutinesHeld
<1>1. CASE u = t
  <2>1. at'[t] = a /\ todo'[t] = S /\ item'[t] = None /\ snap'[t] = v /\ cur'[t] = x
    BY DEF TypeOK, Stage
  <2>2. (e \in S /\ a # "clear") \/ (x # None /\ e \in EntitiesOf[x])
    BY <1>1, <2>1, ConstantFacts DEF Holds, Announcing
  <2> QED
    BY <1>1, <2>1, <2>2
<1>2. CASE u # t
  <2>1. /\ at'[u] = at[u] /\ todo'[u] = todo[u] /\ item'[u] = item[u]
        /\ snap'[u] = snap[u] /\ cur'[u] = cur[u]
    BY <1>2 DEF TypeOK, Stage
  <2>2. Holds(u, e)
    BY <2>1 DEF Holds, Announcing
  <2> QED
    BY <2>1, <2>2 DEF GoroutinesHeld
<1> QED
  BY <1>1, <1>2

\* The same for a goroutine that has no sensor, before or after.
LEMMA HeldStageNoSensor ==
  ASSUME TypeOK, GoroutinesHeld, UNCHANGED <<floor, cur>>, NEW t \in Threads, at[t] # "sensor",
         NEW a \in Stages, NEW S \in SUBSET Ids, NEW v \in Versions,
         Stage(t, a, S, v), item[t] = None,
         \A e \in Ids : e \in S /\ a # "clear" => floor[e] <= v
  PROVE  GoroutinesHeld'
<1>1. cur[t] = None /\ cur' = [cur EXCEPT ![t] = None]
  BY DEF TypeOK
<1> QED
  BY <1>1, HeldStage

\* Announcing an id marks or publishes what the goroutine holds already.
LEMMA HeldAnnounce ==
  ASSUME TypeOK, HeldInv, NEW t \in Threads, Announce(t)
  PROVE  HeldInv'
<1>1. UNCHANGED <<version, pending, items, floor, at, snap, cur>>
  BY DEF Announce, LoadOrStore, Deliver, PublishOK, PublishFails, environment
<1>2. ASSUME NEW e \in Ids, NEW u \in Threads, Holds(u, e)'
      PROVE  Holds(u, e)
  <2>1. CASE LoadOrStore(t)
    <3>1. PICK i \in todo[t] : /\ todo' = [todo EXCEPT ![t] = @ \ {i}]
                               /\ item' = IF i \in discovered THEN item ELSE [item EXCEPT ![t] = i]
      BY <2>1 DEF LoadOrStore
    <3>2. todo'[u] \subseteq todo[u] /\ (item'[u] # item[u] => u = t /\ item'[u] \in todo[u])
      BY <3>1 DEF TypeOK
    <3> QED
      BY <1>1, <1>2, <3>2 DEF Holds, Announcing
  <2>2. CASE Deliver(t)
    BY <1>1, <1>2, <2>2 DEF Holds, Announcing, Deliver
  <2>3. CASE PublishOK(t)
    BY <1>1, <1>2, <2>3, ConstantFacts DEF Holds, Announcing, PublishOK, TypeOK
  <2>4. CASE PublishFails(t)
    BY <1>1, <1>2, <2>4, ConstantFacts DEF Holds, Announcing, PublishFails, TypeOK
  <2> QED
    BY <2>1, <2>2, <2>3, <2>4 DEF Announce
<1>3. GoroutinesHeld'
  BY <1>1, <1>2 DEF HeldInv, GoroutinesHeld
<1> QED
  BY <1>1, <1>3 DEF HeldInv, OptionsHeld, BuffersHeld

\* The lists are read from the options.
LEMMA HeldActuators ==
  ASSUME TypeOK, HeldInv, NEW t \in Threads, PublishHAActuators(t)
  PROVE  HeldInv'
<1> USE ConstantFacts
<1>0. /\ After(t) \in Stages /\ "buttons" \in Stages /\ "switches" \in Stages
      /\ version \in Versions /\ GoroutinesHeld /\ \A e \in Ids : floor[e] <= version
  BY DEF After, Stages, TypeOK, HeldInv, OptionsHeld
<1>d. UNCHANGED <<version, pending, items, floor, cur>>
  BY DEF PublishHAActuators, PublishHAButtons, PublishHASwitches, ActuatorsDone, environment
<1>1. CASE PublishHAButtons(t)
  <2>1. item[t] = None /\ at[t] # "sensor"
    BY <1>1, NoItem DEF PublishHAButtons, Announcing
  <2>2. Stage(t, "buttons", Buttons, version) \/ Stage(t, After(t), {}, 1)
    BY <1>1 DEF PublishHAButtons, Goto
  <2>3. GoroutinesHeld'
    BY <1>0, <1>d, <2>1, <2>2, HeldStageNoSensor
  <2> QED
    BY <1>d, <2>3 DEF HeldInv, OptionsHeld, BuffersHeld
<1>2. CASE PublishHASwitches(t)
  <2>1. GoroutinesHeld'
    BY <1>0, <1>d, <1>2, HeldStageNoSensor DEF PublishHASwitches, Done
  <2> QED
    BY <1>d, <2>1 DEF HeldInv, OptionsHeld, BuffersHeld
<1>3. CASE ActuatorsDone(t)
  <2>1. GoroutinesHeld'
    BY <1>0, <1>d, <1>3, HeldStageNoSensor DEF ActuatorsDone, Done, Goto
  <2> QED
    BY <1>d, <2>1 DEF HeldInv, OptionsHeld, BuffersHeld
<1> QED
  BY <1>1, <1>2, <1>3 DEF PublishHAActuators

\* A sensor's name comes from the options, or from the buffer where it was kept.
LEMMA HeldPublishSensor ==
  ASSUME TypeOK, HeldInv, UNCHANGED floor, NEW t \in Threads, NEW s \in Sensors,
         NEW v \in 0..MaxVersion, PublishSensor(t, s, v), item[t] = None,
         v # 0 => \A e \in EntitiesOf[s] : floor[e] <= v
  PROVE  GoroutinesHeld'
<1> DEFINE S == IF enabled THEN EntitiesOf[s] ELSE {}
<1>1. S \in SUBSET Ids /\ NameOf(v) \in Versions /\ "sensor" \in Stages /\ GoroutinesHeld
  BY EntitiesAreIds, HAAssumption DEF NameOf, TypeOK, Versions, Stages, HeldInv
<1>2. Stage(t, "sensor", S, NameOf(v)) /\ cur' = [cur EXCEPT ![t] = s]
  BY DEF PublishSensor
<1>3. \A e \in Ids : e \in S \/ e \in EntitiesOf[s] => floor[e] <= NameOf(v)
  BY EntitiesAreIds DEF NameOf, HeldInv, OptionsHeld
<1> HIDE DEF S
<1> QED
  BY <1>1, <1>2, <1>3, HeldStage

LEMMA HeldSensor ==
  ASSUME TypeOK, HeldInv,
         \/ \E t \in Threads : PublishFields(t)
         \/ \E c \in Callbacks : FlushPending(c)
         \/ \E s \in Sensors : SensorMessage(s)
  PROVE  HeldInv'
<1> USE ConstantFacts
<1>0. "flushing" \in Stages /\ "idle" \in Stages /\ GoroutinesHeld /\ BuffersHeld
  BY DEF Stages, HeldInv
<1>1. ASSUME NEW t \in Threads, PublishFields(t) PROVE HeldInv'
  <2> DEFINE a == IF t \in Callbacks THEN "flushing" ELSE "idle"
  <2>1. /\ a \in Stages /\ Stage(t, a, {}, 1) /\ item[t] = None
        /\ cur[t] \in Sensors /\ cur' = [cur EXCEPT ![t] = None]
        /\ UNCHANGED <<version, items, floor>>
    BY <1>1 DEF PublishFields, Goto, Done, Stages, TypeOK, environment
  <2> HIDE DEF a
  <2>2. GoroutinesHeld'
    <3>1. \A e \in Ids : (e \in {} /\ a # "clear") \/ (None # None /\ e \in EntitiesOf[None])
                           => floor[e] <= 1
      OBVIOUS
    <3>2. {} \in SUBSET Ids /\ None \in Sensors \cup {None}
      OBVIOUS
    <3> QED
      BY <1>0, <2>1, <3>1, <3>2, HeldStage
  <2>3. \A e \in EntitiesOf[cur[t]] : floor[e] <= snap[t]
    BY <1>0, <2>1, EntitiesAreIds DEF GoroutinesHeld, Holds
  <2>4. \A s \in Sensors : \/ pending'[s] \in {pending[s], 0}
                           \/ s = cur[t] /\ pending'[s] = snap[t]
    BY <1>1, <2>1 DEF PublishFields, TypeOK
  <2>5. BuffersHeld'
    BY <1>0, <2>1, <2>3, <2>4 DEF BuffersHeld
  <2> QED
    BY <2>1, <2>2, <2>5 DEF HeldInv, OptionsHeld
<1>2. ASSUME NEW c \in Callbacks, TakePending(c) PROVE HeldInv'
  <2>1. /\ item[c] = None /\ at[c] # "sensor" /\ Stage(c, "flushing", {}, 1)
        /\ UNCHANGED <<version, floor, cur>>
    BY <1>2, NoItem DEF TakePending, Announcing, Goto, environment
  <2>2. GoroutinesHeld'
    BY <1>0, <2>1, HeldStageNoSensor
  <2>3. \A s \in Sensors : \A b \in Callbacks : items'[b][s] \in {items[b][s], pending[s], 0}
    <3>1. PICK young \in SUBSET Sensors :
            items' = [items EXCEPT ![c] = [s \in Sensors |-> IF s \in young THEN pending[s] ELSE 0]]
      BY <1>2 DEF TakePending
    <3> QED
      BY <3>1 DEF TypeOK
  <2>4. \A s \in Sensors : pending'[s] = 0
    BY <1>2 DEF TakePending
  <2>5. BuffersHeld'
    BY <1>0, <2>1, <2>3, <2>4 DEF BuffersHeld
  <2> QED
    BY <2>1, <2>2, <2>5 DEF HeldInv, OptionsHeld
<1>3. ASSUME NEW c \in Callbacks, FlushNext(c) PROVE HeldInv'
  <2>1. item[c] = None /\ UNCHANGED <<version, pending, floor>>
    BY <1>3, NoItem DEF FlushNext, Announcing, environment
  <2>2. PICK s \in Sensors : /\ items[c][s] # 0
                             /\ PublishSensor(c, s, items[c][s])
                             /\ items' = [items EXCEPT ![c][s] = 0]
    BY <1>3 DEF FlushNext
  <2>3. items[c][s] \in 0..MaxVersion /\ \A e \in EntitiesOf[s] : floor[e] <= items[c][s]
    BY <1>0, <2>2 DEF TypeOK, BuffersHeld
  <2>4. GoroutinesHeld'
    BY <2>1, <2>2, <2>3, HeldPublishSensor
  <2>5. \A x \in Sensors : \A b \in Callbacks : items'[b][x] \in {items[b][x], 0}
    BY <2>2 DEF TypeOK
  <2>6. BuffersHeld'
    BY <1>0, <2>1, <2>5 DEF BuffersHeld
  <2> QED
    BY <2>1, <2>4, <2>6 DEF HeldInv, OptionsHeld
<1>4. ASSUME NEW c \in Callbacks, FlushDone(c) PROVE HeldInv'
  <2>1. /\ item[c] = None /\ at[c] # "sensor" /\ Stage(c, "idle", {}, 1)
        /\ UNCHANGED <<version, pending, items, floor, cur>>
    BY <1>4, NoItem DEF FlushDone, Announcing, Goto, environment
  <2>2. GoroutinesHeld'
    BY <1>0, <2>1, HeldStageNoSensor
  <2> QED
    BY <2>1, <2>2 DEF HeldInv, OptionsHeld, BuffersHeld
<1>5. ASSUME NEW s \in Sensors, SensorMessage(s) PROVE HeldInv'
  <2>1. /\ item[Loop] = None /\ PublishSensor(Loop, s, 0) /\ 0 \in 0..MaxVersion
        /\ UNCHANGED <<version, pending, items, floor>>
    BY <1>5, NoItem, HAAssumption DEF SensorMessage, Announcing, environment
  <2>2. GoroutinesHeld'
    BY <2>1, HeldPublishSensor
  <2> QED
    BY <2>1, <2>2 DEF HeldInv, OptionsHeld, BuffersHeld
<1> QED
  BY <1>1, <1>2, <1>3, <1>4, <1>5 DEF FlushPending

\* A rediscover sets floor to the oldest of what may still be announced, which
\* takes nothing away from it; the options only get newer.
LEMMA HeldRest ==
  ASSUME TypeOK, HeldInv,
         \/ \E h \in Clearers : ClearHADiscovery(h) \/ Rediscover(h)
         \/ \E c \in Callbacks : ConnectionUp(c)
         \/ ConnectionDown \/ ApplyConfig
  PROVE  HeldInv'
<1> USE ConstantFacts
<1>0. "actuators" \in Stages /\ "clear" \in Stages /\ GoroutinesHeld /\ BuffersHeld
  BY DEF Stages, HeldInv
<1>1. ASSUME NEW h \in Clearers, ClearKey(h) PROVE HeldInv'
  <2>1. PICK e \in todo[h], v \in Versions :
          /\ todo' = [todo EXCEPT ![h] = @ \ {e}]
          /\ IsOldest(v, e) /\ floor' = [floor EXCEPT ![e] = v]
    BY <1>1 DEF ClearKey
  <2>2. UNCHANGED <<version, pending, items, at, item, snap, cur>> /\ at[h] = "clear"
    BY <1>1 DEF ClearKey, environment
  <2>3. /\ e \in Ids /\ floor'[e] = v
        /\ \A i \in Ids : i # e => floor'[i] = floor[i]
    BY <2>1 DEF TypeOK
  <2>4. \A i \in Ids, t \in Threads : Holds(t, i)' => Holds(t, i)
    BY <2>1, <2>2 DEF Holds, Announcing, TypeOK
  <2>5. /\ v <= version
        /\ \A t \in Threads : Holds(t, e) => v <= snap[t]
        /\ \A s \in Sensors : e \in EntitiesOf[s] =>
             /\ pending[s] # 0 => v <= pending[s]
             /\ \A c \in Callbacks : items[c][s] # 0 => v <= items[c][s]
    <3>1. \A w \in Held(e) : v <= w
      BY <2>1 DEF IsOldest
    <3>2. version \in Held(e)
      BY DEF Held
    <3>3. ASSUME NEW t \in Threads, Holds(t, e) PROVE snap[t] \in Held(e)
      BY <3>3 DEF Held
    <3>4. ASSUME NEW s \in Sensors, e \in EntitiesOf[s], pending[s] # 0 PROVE pending[s] \in Held(e)
      BY <3>4 DEF Held
    <3>5. ASSUME NEW s \in Sensors, e \in EntitiesOf[s], NEW c \in Callbacks, items[c][s] # 0
          PROVE  items[c][s] \in Held(e)
      BY <3>5 DEF Held
    <3> QED
      BY <3>1, <3>2, <3>3, <3>4, <3>5
  <2>6. OptionsHeld'
    BY <2>2, <2>3, <2>5 DEF HeldInv, OptionsHeld
  <2>7. GoroutinesHeld'
    BY <1>0, <2>2, <2>3, <2>4, <2>5 DEF GoroutinesHeld
  <2>8. BuffersHeld'
    BY <1>0, <2>2, <2>3, <2>5, EntitiesAreIds DEF BuffersHeld
  <2> QED
    BY <2>6, <2>7, <2>8 DEF HeldInv
<1>2. ASSUME NEW h \in Clearers, ClearDone(h) PROVE HeldInv'
  <2>1. /\ item[h] = None /\ at[h] # "sensor" /\ Stage(h, "actuators", {}, 1)
        /\ UNCHANGED <<version, pending, items, floor, cur>>
    BY <1>2, NoItem DEF ClearDone, Announcing, Goto, environment
  <2>2. GoroutinesHeld'
    BY <1>0, <2>1, HeldStageNoSensor
  <2> QED
    BY <2>1, <2>2 DEF HeldInv, OptionsHeld, BuffersHeld
<1>3. ASSUME NEW h \in Clearers, Rediscover(h) PROVE HeldInv'
  <2>1. /\ item[h] = None /\ at[h] # "sensor" /\ Stage(h, "clear", Ids, 1)
        /\ UNCHANGED <<version, pending, items, floor, cur>>
    BY <1>3, NoItem DEF Rediscover, Announcing, environment
  <2>2. GoroutinesHeld'
    BY <1>0, <2>1, HeldStageNoSensor
  <2> QED
    BY <2>1, <2>2 DEF HeldInv, OptionsHeld, BuffersHeld
<1>4. ASSUME NEW c \in Callbacks, ConnectionUp(c) PROVE HeldInv'
  <2>1. /\ item[c] = None /\ at[c] # "sensor" /\ Stage(c, "actuators", {}, 1)
        /\ UNCHANGED <<version, pending, items, floor, cur>>
    BY <1>4, NoItem DEF ConnectionUp, Announcing, Goto
  <2>2. GoroutinesHeld'
    BY <1>0, <2>1, HeldStageNoSensor
  <2> QED
    BY <2>1, <2>2 DEF HeldInv, OptionsHeld, BuffersHeld
<1>5. CASE ConnectionDown
  BY <1>5 DEF ConnectionDown, work, HeldInv, OptionsHeld, GoroutinesHeld, BuffersHeld, Holds,
              Announcing
<1>6. CASE ApplyConfig
  <2>1. OptionsHeld'
    BY <1>6 DEF ApplyConfig, TypeOK, HeldInv, OptionsHeld, Versions
  <2>2. GoroutinesHeld' /\ BuffersHeld'
    BY <1>0, <1>6 DEF ApplyConfig, work, GoroutinesHeld, BuffersHeld, Holds, Announcing
  <2> QED
    BY <2>1, <2>2 DEF HeldInv
<1> QED
  BY <1>1, <1>2, <1>3, <1>4, <1>5, <1>6 DEF ClearHADiscovery

LEMMA HeldInit ==
  ASSUME Init
  PROVE  HeldInv
<1>1. OptionsHeld
  BY DEF Init, OptionsHeld
<1>2. GoroutinesHeld
  BY DEF Init, GoroutinesHeld
<1>3. BuffersHeld
  BY DEF Init, BuffersHeld
<1> QED
  BY <1>1, <1>2, <1>3 DEF HeldInv

LEMMA HeldStep ==
  ASSUME TypeOK, HeldInv, [Next]_vars
  PROVE  HeldInv'
<1>1. CASE UNCHANGED vars
  BY <1>1 DEF HeldInv, OptionsHeld, GoroutinesHeld, BuffersHeld, Holds, Announcing, vars,
              environment, work
<1>2. CASE Next
  BY <1>2, HeldAnnounce, HeldActuators, HeldSensor, HeldRest DEF Next, Goroutine
<1> QED
  BY <1>1, <1>2

-----------------------------------------------------------------------------
(* Nobody is left with a marked id and no announcement. *)

\* Somebody's announcement of e is still to reach the broker.
Underway(e) == \E t \in Threads : item[t] = e /\ ~acked[t]

FlightInv == \A e \in discovered : Underway(e) \/ retained[e] >= floor[e]

\* The steps that touch neither the map nor an announcement in flight.
LEMMA FlightUntouched ==
  ASSUME FlightInv, UNCHANGED <<discovered, retained, item, acked, floor>>
  PROVE  FlightInv'
  BY DEF FlightInv, Underway

\* A publish that returns leaves its id announced or unmarked.
LEMMA FlightAnnounce ==
  ASSUME TypeOK, HeldInv, FlightInv, NEW t \in Threads, Announce(t)
  PROVE  FlightInv'
<1> USE ConstantFacts
<1>0. UNCHANGED floor
  BY DEF Announce, LoadOrStore, Deliver, PublishOK, PublishFails
<1>1. CASE LoadOrStore(t)
  <2>1. PICK i \in todo[t] :
          /\ discovered' = discovered \cup {i}
          /\ item' = IF i \in discovered THEN item ELSE [item EXCEPT ![t] = i]
    BY <1>1 DEF LoadOrStore
  <2>2. item[t] = None /\ ~acked[t] /\ UNCHANGED <<acked, retained>>
    BY <1>1 DEF LoadOrStore, TypeOK
  <2>3. \A u \in Threads : item[u] # None => item'[u] = item[u]
    BY <2>1, <2>2 DEF TypeOK
  <2>4. i \notin discovered => item'[t] = i
    BY <2>1 DEF TypeOK
  <2>5. ASSUME NEW e \in discovered' PROVE Underway(e)' \/ retained'[e] >= floor'[e]
    <3>1. CASE e \in discovered
      <4>1. e # None
        BY <3>1 DEF TypeOK
      <4>2. Underway(e) => Underway(e)'
        BY <2>2, <2>3, <4>1 DEF Underway
      <4> QED
        BY <1>0, <2>2, <3>1, <4>2 DEF FlightInv
    <3>2. CASE e \notin discovered
      <4>1. item'[t] = e /\ ~acked'[t]
        BY <2>1, <2>2, <2>4, <3>2
      <4> QED
        BY <4>1 DEF Underway
    <3> QED
      BY <3>1, <3>2
  <2> QED
    BY <2>5 DEF FlightInv
<1>2. CASE Deliver(t)
  <2>1. item[t] \in Ids /\ UNCHANGED <<discovered, item>>
    BY <1>2 DEF Deliver, TypeOK
  <2>2. retained'[item[t]] = snap[t]
    BY <1>2, <2>1 DEF Deliver, TypeOK
  <2>3. floor[item[t]] <= snap[t]
    <3>1. Holds(t, item[t])
      BY <2>1 DEF Holds, TypeOK
    <3> QED
      BY <2>1, <3>1 DEF HeldInv, GoroutinesHeld
  <2>4. floor[item[t]] \in Int /\ snap[t] \in Int
    BY <2>1 DEF TypeOK, Versions
  <2>5. ASSUME NEW e \in discovered, e # item[t]
        PROVE  (Underway(e) => Underway(e)') /\ retained'[e] = retained[e]
    BY <1>2, <2>1, <2>5 DEF Deliver, Underway, TypeOK
  <2> QED
    BY <1>0, <2>1, <2>2, <2>3, <2>4, <2>5 DEF FlightInv
<1>3. CASE PublishOK(t)
  <2>1. UNCHANGED <<discovered, retained>> /\ acked[t]
    BY <1>3 DEF PublishOK
  <2>2. ASSUME NEW e \in discovered, Underway(e) PROVE Underway(e)'
    <3>1. PICK u \in Threads : item[u] = e /\ ~acked[u]
      BY <2>2 DEF Underway
    <3>2. u # t
      BY <2>1, <3>1
    <3>3. item'[u] = item[u] /\ ~acked'[u]
      BY <1>3, <3>1, <3>2 DEF PublishOK, TypeOK
    <3> QED
      BY <3>1, <3>3 DEF Underway
  <2> QED
    BY <1>0, <2>1, <2>2 DEF FlightInv
<1>4. CASE PublishFails(t)
  <2>1. UNCHANGED retained /\ discovered' = discovered \ {item[t]}
    BY <1>4 DEF PublishFails
  <2>2. ASSUME NEW e \in discovered, e # item[t], Underway(e) PROVE Underway(e)'
    <3>1. PICK u \in Threads : item[u] = e /\ ~acked[u]
      BY <2>2 DEF Underway
    <3>2. u # t
      BY <2>2, <3>1
    <3>3. item'[u] = item[u] /\ ~acked'[u]
      BY <1>4, <3>1, <3>2 DEF PublishFails, TypeOK
    <3> QED
      BY <3>1, <3>3 DEF Underway
  <2> QED
    BY <1>0, <2>1, <2>2 DEF FlightInv
<1> QED
  BY <1>1, <1>2, <1>3, <1>4 DEF Announce

\* A rediscover moves the floor of an id only as it takes it out of the map.
LEMMA FlightClear ==
  ASSUME TypeOK, FlightInv, NEW h \in Clearers, ClearKey(h)
  PROVE  FlightInv'
<1>1. PICK e \in todo[h], v \in Versions :
        discovered' = discovered \ {e} /\ floor' = [floor EXCEPT ![e] = v]
  BY DEF ClearKey
<1>2. UNCHANGED <<retained, item, acked>>
  BY DEF ClearKey
<1>3. \A i \in discovered : i # e => floor'[i] = floor[i]
  BY <1>1 DEF TypeOK
<1> QED
  BY <1>1, <1>2, <1>3 DEF FlightInv, Underway

LEMMA FlightStep ==
  ASSUME TypeOK, HeldInv, FlightInv, [Next]_vars
  PROVE  FlightInv'
<1>1. CASE UNCHANGED vars
  BY <1>1, FlightUntouched DEF vars, work
<1>2. ASSUME NEW t \in Threads, Announce(t) PROVE FlightInv'
  BY <1>2, FlightAnnounce
<1>3. ASSUME NEW t \in Threads, PublishHAActuators(t) PROVE FlightInv'
  BY <1>3, FlightUntouched DEF PublishHAActuators, PublishHAButtons, PublishHASwitches,
                               ActuatorsDone, Goto, Stage
<1>4. ASSUME NEW t \in Threads, PublishFields(t) PROVE FlightInv'
  BY <1>4, FlightUntouched DEF PublishFields, Goto, Stage
<1>5. ASSUME NEW c \in Callbacks, FlushPending(c) PROVE FlightInv'
  BY <1>5, FlightUntouched DEF FlushPending, TakePending, FlushNext, FlushDone, PublishSensor,
                               Goto, Stage
<1>6. ASSUME NEW h \in Clearers, ClearHADiscovery(h) PROVE FlightInv'
  BY <1>6, FlightClear, FlightUntouched DEF ClearHADiscovery, ClearDone, Goto, Stage
<1>7. ASSUME NEW s \in Sensors, SensorMessage(s) PROVE FlightInv'
  BY <1>7, FlightUntouched DEF SensorMessage, PublishSensor, Stage
<1>8. ASSUME NEW h \in Clearers, Rediscover(h) PROVE FlightInv'
  BY <1>8, FlightUntouched DEF Rediscover, Stage
<1>9. ASSUME NEW c \in Callbacks, ConnectionUp(c) PROVE FlightInv'
  BY <1>9, FlightUntouched DEF ConnectionUp, Goto, Stage
<1>10. CASE ConnectionDown \/ ApplyConfig
  BY <1>10, FlightUntouched DEF ConnectionDown, ApplyConfig, work
<1> QED
  BY <1>1, <1>2, <1>3, <1>4, <1>5, <1>6, <1>7, <1>8, <1>9, <1>10 DEF Next, Goroutine

\* An id in the discovered map is being announced, or Home Assistant has an
\* announcement of it no older than the last rediscover allows, however failed
\* publishes, goroutines that skip a marked id and rediscovers interleave.
THEOREM DiscoveryMarksTruthful == Spec => []MarkedIsAnnounced
<1>1. Init => TypeOK /\ HeldInv /\ FlightInv
  BY TypeInit, HeldInit DEF Init, FlightInv
<1>2. TypeOK /\ HeldInv /\ FlightInv /\ [Next]_vars => TypeOK' /\ HeldInv' /\ FlightInv'
  BY TypeStep, HeldStep, FlightStep
<1>3. FlightInv => MarkedIsAnnounced
  BY DEF FlightInv, Underway, MarkedIsAnnounced, InFlight
<1> QED
  BY <1>1, <1>2, <1>3, PTL DEF Spec
=============================================================================
