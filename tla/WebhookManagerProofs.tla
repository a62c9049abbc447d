------------------------ MODULE WebhookManagerProofs ------------------------
(***************************************************************************)
(* Proofs about WebhookManager for any webhooks, any number of requests,   *)
(* any edits and backups of the runtime file and any bounds: the poll      *)
(* goroutines are those of the list in force, the last change is loaded,   *)
(* answered changes stay, Stop leaves no goroutine behind, and there are   *)
(* at most two Reloads for every change.                                   *)
(***************************************************************************)
EXTENDS WebhookManager, FiniteSetTheorems, TLAPS

Changes == (Hooks \X States) \cup {<<>>}
Pcs == {"idle", "save", "read", "apply", "reload", "wait", "install", "launch"}

Saves(c) == callerPc[c] = "save"

Types ==
  /\ config \in Lists /\ hooks \in Lists /\ answered \in Lists
  /\ pollers \in [Polls \X Gens -> {"none", "wait", "fetch", "execute"}]
  /\ callerPc \in [Callers -> Pcs]
  /\ newList \in [Requests -> Lists]
  /\ change \in [Requests -> Changes]
  /\ stopPc \in {"running", "wait", "blocked", "woken", "stopped", "panicked"}

\* Only the watcher loads the file, and only requests save; a file without an author
\* is gone.
Roles ==
  /\ file \in Files /\ read \in Files
  /\ file.by = "nobody" => file.state = "gone"
  /\ callerPc[Watcher] # "save"
  /\ \A c \in Requests : Saves(c) => change[c] \in Hooks \X States

Reloading == {"wait", "install", "launch"}

\* Who is inside Reload holds the mutex.
Mutex == \A c \in Callers : callerPc[c] \in Reloading => reloadMu = c

\* Between the wait and the launch no goroutine is alive.
Empty == \A c \in Callers : callerPc[c] \in {"install", "launch"} => ~AnyAlive

\* A list that is not loaded has a Reload before it that will read it, or the
\* watcher will notice it, or could not load it.
Loading ==
  \/ hooks = config \/ changed \/ missed
  \/ \E c \in Callers : callerPc[c] \in {"read", "apply", "reload", "wait", "install"}

\* A request saves its own change.
Saving == \A c \in Requests : Saves(c) => newList[c][change[c][1]] = change[c][2]

\* The webhook h is the same in the list in force, in what the answers say, in every
\* list a request is about to save and in every write of the program that the watcher
\* has read or may still read.
Agree(h) ==
  /\ config[h] = answered[h]
  /\ \A c \in Requests : Saves(c) /\ change[c][1] # h => newList[c][h] = config[h]
  /\ callerPc[Watcher] = "apply" /\ read.by # "other" => InForce(read)[h] = config[h]
  /\ file.by # "other" => InForce(file)[h] = config[h]

Staying == \A h \in Hooks : h \notin atRisk /\ h \notin givenBack => Agree(h)

\* After Stop has cancelled, nobody starts a goroutine, unless late.
Stopping ==
  ~late /\ stopPc # "running" =>
    /\ \A c \in Callers : callerPc[c] \notin Reloading
    /\ stopPc # "panicked"
    /\ stopPc \in {"woken", "stopped"} => ~AnyAlive

Lock == Mutex /\ Empty /\ Loading
Contents == Roles /\ Saving /\ Staying

Inv == Types /\ Contents /\ Lock /\ PollersMatchHooks /\ Stopping

\* What applyLocked puts in force is a list: the file's, the environment's, or the
\* one in force.
LEMMA InForceValue ==
  ASSUME NEW f \in Files, config \in Lists
  PROVE  /\ InForce(f) \in Lists
         /\ f.state = "list" => InForce(f) = f.list
         /\ f.state = "omitted" => InForce(f) = EnvList
         /\ f.state = "gone" => InForce(f) = config
<1>1. f.state \in {"list", "omitted", "gone"} /\ f.list \in Lists
  BY DEF Files
<1> QED
  BY <1>1, ConstantsAssumption DEF InForce

\* What the program writes and what somebody else writes are files.
LEMMA FileTypes ==
  /\ Gone \in Files /\ Gone.state = "gone" /\ Gone.by = "nobody"
  /\ KeyOmitted("us") \in Files /\ KeyOmitted("us").by = "us"
  /\ KeyOmitted("us").state = "omitted"
  /\ \A l \in Lists : OnDisk(l) \in Files /\ OnDisk(l).by = "us" /\ OnDisk(l).state # "gone"
  /\ \A f \in Foreign : f \in Files /\ f.by = "other" /\ f.state # "gone"
<1>1. NoList \in Lists
  BY DEF NoList, Lists, States
<1>2. ASSUME NEW l \in Lists, NEW a \in {"us", "other"}
      PROVE  ListFile(l, a) \in Files /\ ListFile(l, a).by = a /\ ListFile(l, a).state = "list"
  BY DEF ListFile, Files
<1>3. ASSUME NEW a \in {"us", "other"}
      PROVE  KeyOmitted(a) \in Files /\ KeyOmitted(a).by = a /\ KeyOmitted(a).state = "omitted"
  BY <1>1 DEF KeyOmitted, Files
<1>4. Gone \in Files /\ Gone.state = "gone" /\ Gone.by = "nobody"
  BY <1>1 DEF Gone, Files
<1> QED
  BY <1>2, <1>3, <1>4 DEF OnDisk, Foreign

\* The initial states satisfy the invariant.
LEMMA InvInit == Init => Inv
<1> SUFFICES ASSUME Init PROVE Inv
  OBVIOUS
<1>0. NoList \in Lists
  BY DEF NoList, Lists, States
<1>1. Types
  <2>1. config \in Lists
    BY ConstantsAssumption DEF Init, Lists, States
  <2>2. callerPc \in [Callers -> Pcs] /\ newList \in [Requests -> Lists] /\ change \in [Requests -> Changes]
    BY <1>0 DEF Init, Pcs, Changes
  <2> QED
    BY <2>1, <2>2 DEF Init, Types
<1>2. Roles
  <2>1. file \in Files /\ file.by = "us"
    BY <1>0, <1>1 DEF Init, Types, Files, KeyOmitted, ListFile
  <2> QED
    BY <2>1, FileTypes DEF Init, Roles, Saves, Callers
<1>3. InForce(file) = config
  BY DEF Init, InForce, KeyOmitted, ListFile
<1>4. Saving /\ Staying
  BY <1>3 DEF Init, Saving, Staying, Agree, Saves, Callers
<1>5. Lock
  BY DEF Init, Lock, Mutex, Empty, Loading, Reloading
<1>6. PollersMatchHooks
  BY DEF Init, PollersMatchHooks, Alive
<1>7. Stopping
  BY DEF Init, Stopping
<1> QED
  BY <1>1, <1>2, <1>4, <1>5, <1>6, <1>7 DEF Inv, Contents

\* A step that only moves one caller between places outside Reload, and changes the
\* list or what the watcher knows, keeps what the manager relies on.
LEMMA OutsideReload ==
  ASSUME Inv, NEW c \in Callers, NEW pc \in {"idle", "save", "read", "apply", "reload"},
         callerPc[c] \in {"idle", "save", "read", "apply"},
         callerPc' = [callerPc EXCEPT ![c] = pc],
         UNCHANGED <<hooks, gen, reloadMu, pollers, stopPc, late>>
  PROVE  Mutex' /\ Empty' /\ PollersMatchHooks' /\ Stopping'
<1>1. Types
  BY DEF Inv
<1>2. \A d \in Callers : callerPc'[d] \in Reloading => callerPc[d] \in Reloading
  BY <1>1 DEF Types, Reloading
<1>3. \A d \in Callers : callerPc'[d] \in {"install", "launch"} => callerPc[d] \in {"install", "launch"}
  BY <1>1 DEF Types
<1>4. AnyAlive' = AnyAlive /\ \A h \in Polls, g \in Gens : Alive(h, g)' = Alive(h, g)
  BY DEF AnyAlive, Alive
<1>5. Mutex' /\ Empty'
  BY <1>2, <1>3, <1>4 DEF Inv, Lock, Mutex, Empty
<1>6. PollersMatchHooks'
  BY <1>4 DEF Inv, PollersMatchHooks
<1>7. Stopping'
  BY <1>2, <1>4 DEF Inv, Stopping
<1> QED
  BY <1>5, <1>6, <1>7

\* The handlers that read the list and prepare its successor.
LEMMA SnapshotStep ==
  ASSUME Inv, NEW c \in Requests, NEW h \in Hooks, NEW s \in States, Snapshot(c, h, s)
  PROVE  Inv'
<1>0. Types /\ Contents /\ Lock /\ c \in Callers /\ c # Watcher
  BY ConstantsAssumption DEF Inv, Callers
<1>1. /\ callerPc[c] = "idle" /\ callerPc' = [callerPc EXCEPT ![c] = "save"]
      /\ newList' = [newList EXCEPT ![c] = [config EXCEPT ![h] = s]]
      /\ change' = [change EXCEPT ![c] = <<h, s>>]
      /\ UNCHANGED <<config, file, changed, read, missed, answered, atRisk, givenBack>>
      /\ UNCHANGED <<hooks, gen, reloadMu, pollers, stopPc, late>>
  BY DEF Snapshot, list, watch, history, manager
<1>2. [config EXCEPT ![h] = s] \in Lists
  BY <1>0 DEF Types, Lists
<1>3. Types'
  BY <1>0, <1>1, <1>2 DEF Types, Changes, Pcs
<1>4. Mutex' /\ Empty' /\ PollersMatchHooks' /\ Stopping'
  BY <1>0, <1>1, OutsideReload
<1>5. Loading'
  BY <1>0, <1>1 DEF Lock, Loading, Types
<1>6. Roles'
  BY <1>0, <1>1 DEF Contents, Roles, Types, Saves
<1>7. Saving'
  BY <1>0, <1>1 DEF Contents, Saving, Saves, Types, Lists
<1>8. Staying'
  <2> SUFFICES ASSUME NEW k \in Hooks, k \notin atRisk, k \notin givenBack PROVE Agree(k)'
    BY <1>1 DEF Staying
  <2>1. Agree(k)
    BY <1>0 DEF Contents, Staying
  <2>2. \A d \in Requests : Saves(d)' /\ change'[d][1] # k => newList'[d][k] = config[k]
    BY <1>0, <1>1, <2>1 DEF Agree, Saves, Types, Lists
  <2>3. InForce(read)' = InForce(read) /\ InForce(file)' = InForce(file)
    BY <1>1 DEF InForce
  <2>4. callerPc'[Watcher] = callerPc[Watcher]
    BY <1>0, <1>1 DEF Types
  <2> QED
    BY <1>1, <2>1, <2>2, <2>3, <2>4 DEF Agree
<1> QED
  BY <1>3, <1>4, <1>5, <1>6, <1>7, <1>8 DEF Inv, Contents, Lock

\* persistWebhooks, successful.
LEMMA SaveStep ==
  ASSUME Inv, NEW c \in Requests, Save(c)
  PROVE  Inv'
<1> DEFINE k == change[c][1]
           l == newList[c]
<1>0. Types /\ Contents /\ Lock /\ c \in Callers /\ c # Watcher
  BY ConstantsAssumption DEF Inv, Callers
<1>1. /\ callerPc[c] = "save" /\ callerPc' = [callerPc EXCEPT ![c] = "reload"]
      /\ newList' = [newList EXCEPT ![c] = NoList] /\ change' = [change EXCEPT ![c] = <<>>]
      /\ config' = l /\ file' = OnDisk(l) /\ changed'
      /\ givenBack' = (givenBack \ {k}) \cup {h \in Hooks : InForce(OnDisk(l))[h] # l[h]}
      /\ atRisk' = IF OthersAtWork(c) THEN atRisk \cup {k} ELSE atRisk \ {k}
      /\ answered' = [answered EXCEPT ![k] = change[c][2]]
      /\ UNCHANGED <<read, missed, hooks, gen, reloadMu, pollers, stopPc, late>>
  BY DEF Save, Write, Decide, manager
<1>2. l \in Lists /\ k \in Hooks /\ change[c][2] \in States /\ l[k] = change[c][2]
  <2>1. change[c] \in Hooks \X States
    BY <1>0, <1>1 DEF Contents, Roles, Saves
  <2> QED
    BY <1>0, <1>1, <2>1 DEF Contents, Saving, Saves, Types
<1>3. Types'
  <2>1. NoList \in Lists
    BY DEF NoList, Lists, States
  <2>2. answered' \in Lists
    BY <1>0, <1>1, <1>2 DEF Types, Lists
  <2> QED
    BY <1>0, <1>1, <1>2, <2>1, <2>2 DEF Types, Changes, Pcs
<1>4. Mutex' /\ Empty' /\ PollersMatchHooks' /\ Stopping'
  BY <1>0, <1>1, OutsideReload
<1>5. Loading'
  BY <1>0, <1>1 DEF Loading, Types
<1>6. \A d \in Callers : d # c => callerPc'[d] = callerPc[d]
  BY <1>0, <1>1 DEF Types
<1>7. \A d \in Requests : Saves(d)' => /\ d # c /\ Saves(d)
                                       /\ newList'[d] = newList[d] /\ change'[d] = change[d]
  BY <1>0, <1>1 DEF Types, Saves, Callers
<1>8. file' \in Files /\ file'.by = "us" /\ file'.state # "gone"
  BY <1>1, <1>2, FileTypes
<1>9. Roles'
  BY <1>0, <1>1, <1>6, <1>7, <1>8 DEF Contents, Roles, Callers
<1>10. Saving'
  BY <1>0, <1>7 DEF Contents, Saving
<1>11. Staying'
  <2> SUFFICES ASSUME NEW h \in Hooks, h \notin atRisk', h \notin givenBack' PROVE Agree(h)'
    BY DEF Staying
  <2>1. InForce(file)'[h] = config'[h]
    <3>1. InForce(OnDisk(l))[h] = l[h]
      BY <1>1
    <3>2. InForce(file)' = InForce(OnDisk(l))
      BY <1>1, <1>8 DEF InForce, Files
    <3> QED
      BY <1>1, <3>1, <3>2
  <2>2. CASE h = k
    <3>1. ~OthersAtWork(c)
      BY <1>1, <2>2
    <3>2. \A d \in Requests : ~Saves(d)'
      BY <1>7, <3>1 DEF OthersAtWork, Saves, Callers
    <3>3. callerPc'[Watcher] # "apply"
      BY <1>0, <1>6, <3>1 DEF OthersAtWork, Callers
    <3>4. config'[h] = answered'[h]
      BY <1>0, <1>1, <1>2, <2>2 DEF Types, Lists
    <3> QED
      BY <2>1, <3>2, <3>3, <3>4 DEF Agree
  <2>3. CASE h # k
    <3>1. h \notin atRisk /\ h \notin givenBack
      BY <1>1, <2>3
    <3>2. Agree(h)
      BY <1>0, <3>1 DEF Contents, Staying
    <3>3. l[h] = config[h]
      BY <1>1, <2>3, <3>2 DEF Agree, Saves
    <3>4. config'[h] = answered'[h]
      BY <1>0, <1>1, <2>3, <3>2, <3>3 DEF Agree, Types, Lists
    <3>5. \A d \in Requests : Saves(d)' /\ change'[d][1] # h => newList'[d][h] = config'[h]
      BY <1>1, <1>7, <3>2, <3>3 DEF Agree
    <3>6. InForce(read)'[h] = InForce(read)[h]
      <4>1. read \in Files
        BY <1>0 DEF Contents, Roles
      <4> QED
        BY <1>1, <3>3, <4>1 DEF InForce, Files
    <3>7. callerPc'[Watcher] = callerPc[Watcher]
      BY <1>0, <1>6 DEF Callers
    <3> QED
      BY <1>1, <2>1, <3>2, <3>3, <3>4, <3>5, <3>6, <3>7 DEF Agree
  <2> QED
    BY <2>2, <2>3
<1> QED
  BY <1>3, <1>4, <1>5, <1>9, <1>10, <1>11 DEF Inv, Contents, Lock

\* persistWebhooks, failed.
LEMMA SaveFailsStep ==
  ASSUME Inv, NEW c \in Requests, SaveFails(c)
  PROVE  Inv'
<1>0. Types /\ Contents /\ Lock /\ c \in Callers /\ c # Watcher
  BY ConstantsAssumption DEF Inv, Callers
<1>1. /\ callerPc[c] = "save" /\ callerPc' = [callerPc EXCEPT ![c] = "idle"]
      /\ newList' = [newList EXCEPT ![c] = NoList] /\ change' = [change EXCEPT ![c] = <<>>]
      /\ UNCHANGED <<config, file, changed, read, missed, answered, atRisk, givenBack>>
      /\ UNCHANGED <<hooks, gen, reloadMu, pollers, stopPc, late>>
  BY DEF SaveFails, list, watch, history, manager
<1>2. Types'
  <2>1. NoList \in Lists
    BY DEF NoList, Lists, States
  <2> QED
    BY <1>0, <1>1, <2>1 DEF Types, Changes, Pcs
<1>3. Mutex' /\ Empty' /\ PollersMatchHooks' /\ Stopping'
  BY <1>0, <1>1, OutsideReload
<1>4. Loading'
  BY <1>0, <1>1 DEF Lock, Loading, Types
<1>5. /\ callerPc'[Watcher] = callerPc[Watcher]
      /\ \A d \in Requests : Saves(d)' => /\ Saves(d) /\ newList'[d] = newList[d]
                                         /\ change'[d] = change[d]
  BY <1>0, <1>1 DEF Types, Saves, Callers
<1>6. Roles' /\ Saving'
  BY <1>0, <1>1, <1>5 DEF Contents, Roles, Saving
<1>7. Staying'
  <2>1. InForce(read)' = InForce(read) /\ InForce(file)' = InForce(file)
    BY <1>1 DEF InForce
  <2> QED
    BY <1>0, <1>1, <1>5, <2>1 DEF Contents, Staying, Agree
<1> QED
  BY <1>2, <1>3, <1>4, <1>6, <1>7 DEF Inv, Contents, Lock

\* RestoreBackup: the whole list is decided anew.
LEMMA RestoreStep ==
  ASSUME Inv, NEW c \in Requests, NEW f \in Backups, RestoreBackup(c, f)
  PROVE  Inv'
<1> DEFINE l == InForce(f)
<1>0. Types /\ Contents /\ Lock /\ c \in Callers /\ c # Watcher /\ Watcher \in Callers
  BY ConstantsAssumption DEF Inv, Callers
<1>1. /\ callerPc[c] = "idle"
      /\ config' = l /\ changed' /\ answered' = l
      /\ file' = IF f.state = "list" THEN OnDisk(f.list) ELSE KeyOmitted("us")
      /\ givenBack' = (givenBack \ Hooks) \cup {h \in Hooks : InForce(file')[h] # l[h]}
      /\ atRisk' = IF OthersAtWork(c) THEN atRisk \cup Hooks ELSE atRisk \ Hooks
      /\ UNCHANGED <<callerPc, newList, change, read, missed, hooks, gen, reloadMu, pollers,
                     stopPc, late>>
  BY DEF RestoreBackup, Write, Decide, manager, callers
<1>2. f \in Files /\ l \in Lists /\ f.list \in Lists
  BY <1>0, ConstantsAssumption, FileTypes, InForceValue DEF Types, Files
<1>3. Types'
  BY <1>0, <1>1, <1>2 DEF Types
<1>4. Mutex' /\ Empty' /\ PollersMatchHooks' /\ Stopping' /\ Loading'
  BY <1>0, <1>1 DEF Inv, Lock, Mutex, Empty, PollersMatchHooks, Stopping, Loading, AnyAlive, Alive
<1>5. file' \in Files /\ file'.by = "us" /\ file'.state # "gone"
  BY <1>1, <1>2, FileTypes
<1>6. Roles' /\ Saving'
  BY <1>0, <1>1, <1>5 DEF Contents, Roles, Saving, Saves
<1>7. Staying'
  <2> SUFFICES ASSUME NEW h \in Hooks, h \notin atRisk', h \notin givenBack' PROVE Agree(h)'
    BY DEF Staying
  <2>1. ~OthersAtWork(c)
    BY <1>1
  <2>2. (\A d \in Requests : ~Saves(d)') /\ callerPc'[Watcher] # "apply"
    BY <1>0, <1>1, <2>1 DEF OthersAtWork, Saves, Callers
  <2>3. InForce(file)'[h] = config'[h]
    <3>1. InForce(file')[h] = l[h]
      BY <1>1
    <3>2. InForce(file)' = InForce(file')
      BY <1>1, <1>5 DEF InForce, Files
    <3> QED
      BY <1>1, <3>1, <3>2
  <2> QED
    BY <1>1, <2>2, <2>3 DEF Agree
<1> QED
  BY <1>3, <1>4, <1>6, <1>7 DEF Inv, Contents, Lock

\* Somebody else writes or removes the file: the list in force stays as it is.
LEMMA FileStep ==
  ASSUME Inv, RemoveFile \/ \E f \in Edits : EditFile(f)
  PROVE  Inv'
<1>0. Types /\ Contents /\ Lock
  BY DEF Inv
<1>1. /\ UNCHANGED <<config, read, answered, atRisk, givenBack, callerPc, newList, change>>
      /\ UNCHANGED <<hooks, gen, reloadMu, pollers, stopPc, late>>
      /\ changed \/ missed => changed' \/ missed'
  BY DEF RemoveFile, EditFile, history, callers, manager
<1>2. /\ file' \in Files
      /\ file'.by = "other" \/ (file'.by = "nobody" /\ file'.state = "gone")
  BY ConstantsAssumption, FileTypes DEF RemoveFile, EditFile
<1>3. Types'
  BY <1>0, <1>1 DEF Types
<1>4. Mutex' /\ Empty' /\ PollersMatchHooks' /\ Stopping'
  BY <1>0, <1>1 DEF Inv, Lock, Mutex, Empty, PollersMatchHooks, Stopping, AnyAlive, Alive
<1>5. Loading'
  BY <1>0, <1>1 DEF Lock, Loading
<1>6. Roles' /\ Saving'
  BY <1>0, <1>1, <1>2 DEF Contents, Roles, Saving, Saves
<1>7. Staying'
  <2>1. InForce(read)' = InForce(read)
    BY <1>1 DEF InForce
  <2>2. file'.by # "other" => InForce(file)' = config'
    BY <1>1, <1>2 DEF InForce
  <2> QED
    BY <1>0, <1>1, <2>1, <2>2 DEF Contents, Staying, Agree, Saves
<1> QED
  BY <1>3, <1>4, <1>5, <1>6, <1>7 DEF Inv, Contents, Lock

\* The watcher notices a write, reads the file or fails to.
LEMMA WatchStep ==
  ASSUME Inv, WatchTick \/ WatchRead \/ WatchFails
  PROVE  Inv'
<1>0. Types /\ Contents /\ Lock /\ Watcher \in Callers /\ Watcher \notin Requests
  BY ConstantsAssumption DEF Inv, Callers
<1>1. /\ callerPc[Watcher] \in {"idle", "read"}
      /\ \E p \in {"read", "apply", "idle"} :
           /\ callerPc' = [callerPc EXCEPT ![Watcher] = p]
           /\ p = "apply" => read' = file
           /\ p = "idle" => missed'
      /\ UNCHANGED <<config, file, answered, atRisk, givenBack, newList, change>>
      /\ UNCHANGED <<hooks, gen, reloadMu, pollers, stopPc, late>>
      /\ read' \in {read, file}
      /\ missed => missed'
  BY DEF WatchTick, WatchRead, WatchFails, history, manager
<1>2. PICK p \in {"read", "apply", "idle"} :
        /\ callerPc' = [callerPc EXCEPT ![Watcher] = p]
        /\ p = "apply" => read' = file
        /\ p = "idle" => missed'
  BY <1>1
<1>3. Types'
  BY <1>0, <1>1, <1>2 DEF Types, Pcs
<1>4. Mutex' /\ Empty' /\ PollersMatchHooks' /\ Stopping'
  BY <1>0, <1>1, <1>2, OutsideReload
<1>5. callerPc'[Watcher] = p /\ \A d \in Requests : callerPc'[d] = callerPc[d]
  BY <1>0, <1>2 DEF Types, Callers
<1>6. Loading'
  BY <1>0, <1>1, <1>2, <1>5 DEF Loading
<1>7. Roles' /\ Saving'
  BY <1>0, <1>1, <1>5 DEF Contents, Roles, Saving, Saves
<1>8. Staying'
  <2> SUFFICES ASSUME NEW h \in Hooks, h \notin atRisk, h \notin givenBack PROVE Agree(h)'
    BY <1>1 DEF Staying
  <2>1. Agree(h)
    BY <1>0 DEF Contents, Staying
  <2>2. InForce(file)' = InForce(file)
    BY <1>1 DEF InForce
  <2>3. p = "apply" => InForce(read)' = InForce(file) /\ read'.by = file.by
    BY <1>1, <1>2 DEF InForce
  <2> QED
    BY <1>1, <1>5, <2>1, <2>2, <2>3 DEF Agree, Saves
<1> QED
  BY <1>3, <1>4, <1>6, <1>7, <1>8 DEF Inv, Contents, Lock

\* The watcher puts what it has read in force.
LEMMA WatchApplyStep ==
  ASSUME Inv, WatchApply
  PROVE  Inv'
<1>0. Types /\ Contents /\ Lock /\ Watcher \in Callers /\ Watcher \notin Requests
  BY ConstantsAssumption DEF Inv, Callers
<1>1. /\ callerPc[Watcher] = "apply" /\ callerPc' = [callerPc EXCEPT ![Watcher] = "reload"]
      /\ config' = InForce(read) /\ read' = Gone
      /\ UNCHANGED <<file, newList, change, hooks, gen, reloadMu, pollers, stopPc, late>>
  BY DEF WatchApply, manager
<1>2. /\ read.by = "other" =>
           /\ answered' = config' /\ givenBack' = {}
           /\ atRisk' = IF OthersAtWork(Watcher) \/ file.by = "us" THEN atRisk \cup Hooks
                        ELSE atRisk \ Hooks
      /\ read.by # "other" => UNCHANGED <<answered, atRisk, givenBack>>
  BY DEF WatchApply, Decide, history
<1>3. config' \in Lists /\ read \in Files /\ file \in Files
  BY <1>0, <1>1, InForceValue DEF Contents, Roles, Types
<1>4. Types'
  BY <1>0, <1>1, <1>2, <1>3 DEF Types, Pcs
<1>5. Mutex' /\ Empty' /\ PollersMatchHooks' /\ Stopping'
  BY <1>0, <1>1, OutsideReload
<1>6. callerPc'[Watcher] = "reload" /\ \A d \in Requests : callerPc'[d] = callerPc[d]
  BY <1>0, <1>1 DEF Types, Callers
<1>7. Loading'
  BY <1>0, <1>6 DEF Loading
<1>8. Roles' /\ Saving'
  BY <1>0, <1>1, <1>6, FileTypes DEF Contents, Roles, Saving, Saves
<1>9. Staying'
  <2> SUFFICES ASSUME NEW h \in Hooks, h \notin atRisk', h \notin givenBack' PROVE Agree(h)'
    BY DEF Staying
  <2>1. CASE read.by = "other"
    <3>1. ~OthersAtWork(Watcher) /\ file.by # "us"
      BY <1>2, <2>1
    <3>2. \A d \in Requests : ~Saves(d)'
      BY <1>0, <1>6, <3>1 DEF OthersAtWork, Saves, Callers
    <3>3. file'.by # "other" => InForce(file)' = config'
      <4>1. file.by \in {"us", "other", "nobody"}
        BY <1>3 DEF Files
      <4>2. file.by # "other" => file.state = "gone"
        BY <1>0, <3>1, <4>1 DEF Contents, Roles
      <4> QED
        BY <1>1, <4>2 DEF InForce
    <3> QED
      BY <1>2, <1>6, <2>1, <3>2, <3>3 DEF Agree
  <2>2. CASE read.by # "other"
    <3>1. Agree(h)
      BY <1>0, <1>2, <2>2 DEF Contents, Staying
    <3>2. config'[h] = config[h]
      BY <1>1, <2>2, <3>1 DEF Agree
    <3>3. InForce(file)'[h] = InForce(file)[h]
      BY <1>1, <1>3, <3>2 DEF InForce, Files
    <3> QED
      BY <1>1, <1>2, <1>6, <2>2, <3>1, <3>2, <3>3 DEF Agree, Saves
  <2> QED
    BY <2>1, <2>2
<1> QED
  BY <1>4, <1>5, <1>7, <1>8, <1>9 DEF Inv, Contents, Lock

\* Reload reads the list and touches neither it nor the file.
LEMMA ReloadContents ==
  ASSUME Types, Contents, NEW c \in Callers, NEW pc \in {"wait", "install", "launch", "idle"},
         callerPc[c] \notin {"save", "apply"}, callerPc' = [callerPc EXCEPT ![c] = pc],
         UNCHANGED <<config, file, read, answered, atRisk, givenBack, newList, change>>
  PROVE  Contents'
<1>1. \A d \in Callers : callerPc'[d] \in {"save", "apply"} => callerPc'[d] = callerPc[d]
  BY DEF Types
<1>2. Watcher \in Callers /\ Requests \subseteq Callers
  BY DEF Callers
<1>3. Roles' /\ Saving'
  BY <1>1, <1>2 DEF Contents, Roles, Saving, Saves
<1>4. InForce(read)' = InForce(read) /\ InForce(file)' = InForce(file)
  BY DEF InForce
<1>5. Staying'
  BY <1>1, <1>2, <1>4 DEF Contents, Staying, Agree, Saves
<1> QED
  BY <1>3, <1>5 DEF Contents

\* The four steps of Reload.
LEMMA ReloadStep ==
  ASSUME Inv, NEW c \in Callers, Reload(c)
  PROVE  Inv'
<1> USE ConstantsAssumption DEF Inv, Lock
<1>1. CASE ReloadCancel(c)
  <2> USE <1>1 DEF ReloadCancel, list, watch, history
  <2>0. Contents'
    BY ReloadContents
  <2>1. Types' /\ Mutex' /\ Empty' /\ Loading'
    BY DEF Types, Pcs, Mutex, Empty, Loading, Reloading, AnyAlive, Alive
  <2>2. PollersMatchHooks' /\ Stopping'
    BY DEF PollersMatchHooks, Alive, Stopping
  <2> QED
    BY <2>0, <2>1, <2>2
<1>2. CASE ReloadWaited(c)
  <2> USE <1>2 DEF ReloadWaited, list, watch, history, manager
  <2>0. Contents'
    BY ReloadContents
  <2>1. Types' /\ Mutex' /\ Loading'
    BY DEF Types, Pcs, Mutex, Loading, Reloading
  <2>2. Empty'
    BY DEF WaitDone, Types, Empty, AnyAlive, Alive
  <2>3. PollersMatchHooks'
    BY DEF PollersMatchHooks, Alive
  <2>4. Stopping'
    BY DEF Stopping, Types, Reloading, AnyAlive, Alive
  <2> QED
    BY <2>0, <2>1, <2>2, <2>3, <2>4
<1>3. CASE ReloadInstall(c)
  <2> USE <1>3 DEF ReloadInstall, history
  <2>0. Contents'
    BY ReloadContents
  <2>1. Types' /\ Mutex' /\ Empty' /\ Loading'
    BY DEF Types, Pcs, Mutex, Empty, Loading, Reloading, AnyAlive, Alive
  <2>2. PollersMatchHooks'
    BY DEF PollersMatchHooks, Empty, AnyAlive, Alive
  <2>3. Stopping'
    BY DEF Stopping, Types, Reloading, AnyAlive, Alive
  <2> QED
    BY <2>0, <2>1, <2>2, <2>3
<1>4. CASE ReloadLaunch(c)
  <2> USE <1>4 DEF ReloadLaunch, list, watch, history
  <2>0. Contents'
    BY ReloadContents
  <2>1. Types'
    BY DEF Types, Pcs, Started
  <2>2. Mutex' /\ Loading'
    BY DEF Types, Mutex, Loading, Reloading
  <2>3. Empty'
    BY DEF Types, Mutex, Empty, Reloading
  <2>4. PollersMatchHooks'
    <3> SUFFICES ASSUME NEW h \in Polls, NEW g \in Gens, Alive(h, g)'
                 PROVE  g = gen /\ hooks[h] = "on"
      BY DEF PollersMatchHooks
    <3>1. <<h, g>> \in Polls \X Gens /\ <<h, g>>[1] = h /\ <<h, g>>[2] = g
      OBVIOUS
    <3>2. pollers'[<<h, g>>] =
            IF g = gen /\ hooks[h] = "on" THEN "wait" ELSE pollers[<<h, g>>]
      BY <3>1 DEF Started
    <3>3. pollers[<<h, g>>] = "none"
      BY DEF Empty, AnyAlive, Alive
    <3> QED
      BY <3>2, <3>3 DEF Alive
  <2>5. Stopping'
    BY DEF Stopping, Types, Reloading
  <2> QED
    BY <2>0, <2>1, <2>2, <2>3, <2>4, <2>5
<1> QED
  BY <1>1, <1>2, <1>3, <1>4 DEF Reload

\* What is in the file and in the lists is not the pollers' or Stop's business.
LEMMA SameContents ==
  ASSUME Contents, UNCHANGED <<list, callers>>
  PROVE  Contents'
<1>1. UNCHANGED <<config, file, changed, read, missed, answered, atRisk, givenBack,
                  callerPc, newList, change>>
  BY DEF list, watch, history, callers
<1>2. InForce(read)' = InForce(read) /\ InForce(file)' = InForce(file)
  BY <1>1 DEF InForce
<1> QED
  BY <1>1, <1>2 DEF Contents, Roles, Saving, Staying, Agree, Saves

\* A poll goroutine goes on or ends; none comes to life.
LEMMA PollStep ==
  ASSUME Inv, NEW h \in Polls, NEW g \in Gens, PollTick(h, g) \/ Poller(h, g)
  PROVE  Inv'
<1> USE DEF Inv, Lock, list, watch, history, manager, callers, pushes
<1>1. ASSUME NEW s \in {"none", "wait", "fetch", "execute"}, Alive(h, g), SetPoller(h, g, s),
             UNCHANGED <<list, manager, callers, late>>,
             stopPc' = stopPc \/ (stopPc' = "woken" /\ stopPc = "blocked" /\ ~AnyAlive')
      PROVE  Inv'
  <2> USE <1>1
  <2>0. \A k \in Polls, i \in Gens : Alive(k, i)' => Alive(k, i)
    BY DEF Alive, SetPoller, Types
  <2>1. AnyAlive' => AnyAlive
    BY <2>0 DEF AnyAlive
  <2>2. Types'
    BY DEF Types, SetPoller
  <2>3. Mutex' /\ Empty' /\ Loading'
    BY <2>1 DEF Mutex, Empty, Loading
  <2>4. PollersMatchHooks'
    BY <2>0 DEF PollersMatchHooks
  <2>5. Contents'
    BY SameContents
  <2>6. Stopping'
    BY <2>1 DEF Stopping
  <2> QED
    BY <2>2, <2>3, <2>4, <2>5, <2>6
<1>2. CASE PollTick(h, g)
  BY <1>1, <1>2 DEF PollTick, Alive
<1>3. CASE PollNothing(h, g) \/ PollCommand(h, g) \/ PollExecuted(h, g)
  BY <1>1, <1>3 DEF PollNothing, PollCommand, PollExecuted, Alive
<1>4. CASE PollExit(h, g)
  <2> USE <1>4 DEF PollExit
  <2>1. ASSUME \A q \in (Polls \X Gens) \ {<<h, g>>} : pollers[q] = "none"
        PROVE  ~AnyAlive'
    BY <2>1 DEF AnyAlive, Alive, SetPoller, Types
  <2>2. stopPc' = stopPc \/ (stopPc' = "woken" /\ stopPc = "blocked" /\ ~AnyAlive')
    BY <2>1
  <2> QED
    BY <2>2, <1>1 DEF Alive
<1> QED
  BY <1>2, <1>3, <1>4 DEF Poller

\* Pushes, Stop, and steps that change nothing.
LEMMA OtherStep ==
  ASSUME Inv,
         \/ Notify \/ PushDone \/ \E h \in Pushes : EnqueuePush(h)
         \/ StopCancel \/ Stop
         \/ UNCHANGED vars
  PROVE  Inv'
<1> USE DEF Inv, Lock, list, watch, history, callers
<1>1. ASSUME UNCHANGED <<list, hooks, gen, reloadMu, pollers, callers>>
      PROVE  /\ AnyAlive' = AnyAlive
             /\ Mutex' /\ Empty' /\ Loading' /\ PollersMatchHooks' /\ Contents'
  BY <1>1, SameContents DEF AnyAlive, Alive, Mutex, Empty, Loading, PollersMatchHooks
<1>2. CASE UNCHANGED <<list, manager, pollers, callers, stopPc, late>>
  <2>1. Types' /\ Stopping'
    BY <1>1, <1>2 DEF manager, Types, Stopping
  <2> QED
    BY <1>1, <1>2, <2>1 DEF manager
<1>3. CASE StopCancel
  <2> USE <1>3, <1>1 DEF StopCancel
  <2>1. Types'
    BY DEF Types
  <2>2. Stopping'
    BY ConstantsAssumption DEF Stopping, ReloadRuns, Mutex
  <2> QED
    BY <2>1, <2>2
<1>4. CASE Stop
  <2> USE <1>4, <1>1 DEF Stop, StopWait, StopWoken, manager
  <2>1. Types'
    BY DEF Types
  <2>2. Stopping'
    BY DEF Stopping, WaitDone
  <2> QED
    BY <2>1, <2>2
<1> QED
  BY <1>2, <1>3, <1>4 DEF Notify, PushDone, EnqueuePush, vars

\* Every step of the specification preserves the invariant.
LEMMA InvStep == Inv /\ [Next]_vars => Inv'
<1> SUFFICES ASSUME Inv, [Next]_vars PROVE Inv'
  OBVIOUS
<1>1. ASSUME NEW c \in Requests, Request(c) PROVE Inv'
  BY <1>1, SnapshotStep, RestoreStep
     DEF Request, CreateWebhook, UpdateWebhook, DeleteWebhook, States
<1>2. ASSUME NEW c \in Requests, Proceed(c) PROVE Inv'
  BY <1>2, SaveStep, SaveFailsStep, ReloadStep DEF Proceed, Callers
<1>3. CASE Watch \/ Reload(Watcher)
  BY <1>3, WatchStep, WatchApplyStep, ReloadStep DEF Watch, Callers
<1> QED
  BY <1>1, <1>2, <1>3, FileStep, PollStep, OtherStep DEF Next

\* The invariant holds in every reachable state.
THEOREM Invariance == Spec => []Inv
<1> QED
  BY InvInit, InvStep, PTL DEF Spec

\* No webhook is polled by two goroutines, or by one of an earlier list: Reload
\* starts the new ones only when the old ones have ended (webhooks.go, Reload).
THEOREM OnePollerPerHook == Spec => []PollersMatchHooks
<1>1. Inv => PollersMatchHooks
  BY DEF Inv
<1> QED
  BY <1>1, Invariance, PTL

\* When no Reload is under way the manager has the list in force, unless the watcher
\* could not load a change (runtime_config.go, watchLoop).
THEOREM ChangesLoaded == Spec => []LastChangeLoaded
<1>1. Inv => LastChangeLoaded
  BY DEF Inv, Lock, Loading, LastChangeLoaded
<1> QED
  BY <1>1, Invariance, PTL

\* An answered change stays over failed saves, restores, edits and the watcher's
\* reload of the program's own writes (http_server.go, persistWebhooks;
\* runtime_config.go, watchLoop), unless somebody held an older list when it was
\* saved or the list was saved empty.
THEOREM ChangesStay == Spec => []AnsweredChangesStay
<1>1. Inv => AnsweredChangesStay
  BY DEF Inv, Contents, Staying, Agree, AnsweredChangesStay
<1> QED
  BY <1>1, Invariance, PTL

\* Stop returns, without a panic, only when every poll goroutine has ended,
\* unless a Reload overlaps with it or follows it.
THEOREM StopComplete == Spec => []StopsPollers
<1>1. Inv => StopsPollers
  BY DEF Inv, Stopping, StopsPollers
<1> QED
  BY <1>1, Invariance, PTL

-----------------------------------------------------------------------------
(* Types, and how many Reloads there can be. *)

\* The requests, and the watcher, that have yet to install a list.
Installs == {c \in Callers : callerPc[c] \in {"save", "read", "apply", "reload", "wait", "install"}}

\* The requests that have yet to write the file.
Savers == {c \in Requests : Saves(c)}

\* Every generation after the first was paid for by a change: a change pays for two,
\* its own and the one the watcher adds when it finds the file changed.
Paid ==
  /\ IsFiniteSet(Installs) /\ IsFiniteSet(Savers)
  /\ gen + Cardinality(Installs) + Cardinality(Savers) + (IF changed THEN 1 ELSE 0)
       <= 2 * changes + 1

\* The variables that Types leaves out.
Ranges ==
  /\ gen \in Nat \ {0} /\ cancel \in 0..gen /\ cancelled \subseteq 1..gen
  /\ reloadMu \in Callers \cup {0}
  /\ notify \subseteq Pushes /\ pushing \in 0..MaxPush
  /\ changes \in 0..MaxChanges
  /\ atRisk \subseteq Hooks /\ givenBack \subseteq Hooks
  /\ changed \in BOOLEAN /\ missed \in BOOLEAN /\ late \in BOOLEAN

\* Entering and leaving a set that is counted.
LEMMA InstallsCount ==
  ASSUME NEW S, IsFiniteSet(S), NEW c
  PROVE  /\ IsFiniteSet(S \cup {c}) /\ IsFiniteSet(S \ {c})
         /\ Cardinality(S) \in Nat /\ Cardinality(S \cup {c}) \in Nat
         /\ Cardinality(S \ {c}) \in Nat
         /\ Cardinality(S \cup {c}) <= Cardinality(S) + 1
         /\ Cardinality(S \ {c}) <= Cardinality(S)
         /\ c \in S => Cardinality(S \ {c}) = Cardinality(S) - 1
<1>1. /\ IsFiniteSet(S \cup {c}) /\ IsFiniteSet(S \ {c})
      /\ Cardinality(S \cup {c}) = IF c \in S THEN Cardinality(S) ELSE Cardinality(S) + 1
      /\ Cardinality(S \ {c}) = IF c \in S THEN Cardinality(S) - 1 ELSE Cardinality(S)
  BY FS_AddElement, FS_RemoveElement
<1>2. Cardinality(S) \in Nat /\ Cardinality(S \ {c}) \in Nat
  BY <1>1, FS_CardinalityType
<1> QED
  BY <1>1, <1>2

\* A request starts.
LEMMA PaidRequest ==
  ASSUME Ranges, Paid, NEW c, Installs' = Installs \cup {c}, Savers' = Savers \cup {c},
         gen' = gen, changes' = changes + 1, changed' = changed
  PROVE  Paid'
<1>1. /\ IsFiniteSet(Installs') /\ Cardinality(Installs) \in Nat /\ Cardinality(Installs') \in Nat
      /\ Cardinality(Installs') <= Cardinality(Installs) + 1
  BY InstallsCount DEF Paid
<1>2. /\ IsFiniteSet(Savers') /\ Cardinality(Savers) \in Nat /\ Cardinality(Savers') \in Nat
      /\ Cardinality(Savers') <= Cardinality(Savers) + 1
  BY InstallsCount DEF Paid
<1>3. gen \in Nat /\ changes \in Nat
  BY ConstantsAssumption DEF Ranges
<1> QED
  BY <1>1, <1>2, <1>3 DEF Paid

\* It writes the file, or gives up; either way it is done with that.
LEMMA PaidSaved ==
  ASSUME Ranges, Paid, NEW c \in Savers, Savers' = Savers \ {c}, gen' = gen, changes' = changes,
         \/ Installs' = Installs
         \/ c \in Installs /\ Installs' = Installs \ {c} /\ changed' = changed
  PROVE  Paid'
<1>1. /\ IsFiniteSet(Savers') /\ Cardinality(Savers) \in Nat /\ Cardinality(Savers') \in Nat
      /\ Cardinality(Savers') = Cardinality(Savers) - 1
  BY InstallsCount DEF Paid
<1>2. gen \in Nat /\ changes \in Nat
  BY ConstantsAssumption DEF Ranges
<1>3. Cardinality(Installs) \in Nat
  BY FS_CardinalityType DEF Paid
<1>4. CASE Installs' = Installs
  BY <1>1, <1>2, <1>3, <1>4 DEF Paid
<1>5. CASE c \in Installs /\ Installs' = Installs \ {c} /\ changed' = changed
  <2>1. /\ IsFiniteSet(Installs') /\ Cardinality(Installs') \in Nat
        /\ Cardinality(Installs') = Cardinality(Installs) - 1
    BY <1>5, InstallsCount DEF Paid
  <2> QED
    BY <1>1, <1>2, <1>3, <1>5, <2>1 DEF Paid
<1> QED
  BY <1>4, <1>5

\* Nobody starts; the file may be changed, as a change of its own, or be removed.
LEMMA PaidSame ==
  ASSUME Ranges, Paid, Installs' = Installs, Savers' = Savers, gen' = gen,
         \/ changes' = changes /\ (changed' = changed \/ ~changed')
         \/ changes' = changes + 1
  PROVE  Paid'
<1>1. Cardinality(Installs) \in Nat /\ Cardinality(Savers) \in Nat
  BY FS_CardinalityType DEF Paid
<1>2. gen \in Nat /\ changes \in Nat
  BY ConstantsAssumption DEF Ranges
<1> QED
  BY <1>1, <1>2 DEF Paid

\* The watcher takes a change over.
LEMMA PaidTick ==
  ASSUME Ranges, Paid, NEW c, Installs' = Installs \cup {c}, Savers' = Savers,
         gen' = gen, changes' = changes, changed, ~changed'
  PROVE  Paid'
<1>1. /\ IsFiniteSet(Installs') /\ Cardinality(Installs) \in Nat /\ Cardinality(Installs') \in Nat
      /\ Cardinality(Installs') <= Cardinality(Installs) + 1
  BY InstallsCount DEF Paid
<1>2. gen \in Nat /\ changes \in Nat /\ Cardinality(Savers) \in Nat
  BY ConstantsAssumption, FS_CardinalityType DEF Ranges, Paid
<1> QED
  BY <1>1, <1>2 DEF Paid

\* A load fails, or a list is installed as a new generation.
LEMMA PaidEnd ==
  ASSUME Ranges, Paid, NEW c \in Installs, Installs' = Installs \ {c}, Savers' = Savers,
         gen' \in {gen, gen + 1}, UNCHANGED <<changes, changed>>
  PROVE  Paid'
<1>1. /\ IsFiniteSet(Installs') /\ Cardinality(Installs) \in Nat /\ Cardinality(Installs') \in Nat
      /\ Cardinality(Installs') = Cardinality(Installs) - 1
  BY InstallsCount DEF Paid
<1>2. gen \in Nat /\ changes \in Nat /\ Cardinality(Savers) \in Nat
  BY ConstantsAssumption, FS_CardinalityType DEF Ranges, Paid
<1> QED
  BY <1>1, <1>2 DEF Paid

\* Every step keeps the ranges.
LEMMA RangesStep ==
  ASSUME Inv, Ranges, Paid, [Next]_vars
  PROVE  Ranges' /\ Paid'
<1>0. /\ callerPc \in [Callers -> Pcs] /\ Roles
      /\ changes \in Nat /\ MaxChanges \in Nat
      /\ Requests \subseteq Callers /\ Watcher \in Callers /\ Watcher \notin Requests
  BY ConstantsAssumption DEF Inv, Types, Contents, Ranges, Callers
<1>1. ASSUME NEW c \in Requests, NEW h \in Hooks, NEW s \in States, Snapshot(c, h, s)
      PROVE  Ranges' /\ Paid'
  <2>1. Installs' = Installs \cup {c} /\ Savers' = Savers \cup {c}
    BY <1>0, <1>1 DEF Snapshot, Installs, Savers, Saves
  <2>2. Paid'
    BY <1>1, <2>1, PaidRequest DEF Snapshot, manager, list, watch
  <2>3. changes' \in 0..MaxChanges
    BY <1>0, <1>1 DEF Snapshot, Ranges
  <2> QED
    BY <1>1, <2>2, <2>3 DEF Snapshot, manager, pushes, list, watch, history, Ranges
<1>2. ASSUME NEW c \in Requests, Save(c) PROVE Ranges' /\ Paid'
  <2>1. Installs' = Installs /\ Savers' = Savers \ {c} /\ c \in Savers
    BY <1>0, <1>2 DEF Save, Installs, Savers, Saves
  <2>2. Paid'
    BY <1>2, <2>1, PaidSaved DEF Save, manager
  <2>3. change[c][1] \in Hooks
    <3>1. change[c] \in Hooks \X States
      BY <1>0, <1>2 DEF Save, Saves, Roles
    <3> QED
      BY <3>1
  <2>4. atRisk' \subseteq Hooks /\ givenBack' \subseteq Hooks /\ changed' \in BOOLEAN
    BY <1>2, <2>3 DEF Save, Write, Decide, Ranges
  <2> QED
    BY <1>2, <2>2, <2>4 DEF Save, manager, pushes, Ranges
<1>3. ASSUME NEW c \in Requests, SaveFails(c) PROVE Ranges' /\ Paid'
  <2>1. /\ Installs' = Installs \ {c} /\ c \in Installs
        /\ Savers' = Savers \ {c} /\ c \in Savers
    BY <1>0, <1>3 DEF SaveFails, Installs, Savers, Saves
  <2>2. Paid'
    BY <1>3, <2>1, PaidSaved DEF SaveFails, manager, list, watch
  <2> QED
    BY <1>3, <2>2 DEF SaveFails, manager, pushes, list, watch, history, Ranges
<1>4. ASSUME NEW c \in Requests, NEW f \in Backups, RestoreBackup(c, f) PROVE Ranges' /\ Paid'
  <2>1. Installs' = Installs /\ Savers' = Savers
    BY <1>4 DEF RestoreBackup, callers, Installs, Savers, Saves
  <2>2. Paid'
    BY <1>4, <2>1, PaidSame DEF RestoreBackup, manager
  <2>3. atRisk' \subseteq Hooks /\ givenBack' \subseteq Hooks /\ changed' \in BOOLEAN
    BY <1>4 DEF RestoreBackup, Write, Decide, Ranges
  <2>4. changes' \in 0..MaxChanges
    BY <1>0, <1>4 DEF RestoreBackup, Ranges
  <2> QED
    BY <1>4, <2>2, <2>3, <2>4 DEF RestoreBackup, manager, pushes, Ranges
<1>5. CASE RemoveFile \/ \E f \in Edits : EditFile(f)
  <2>1. UNCHANGED <<callers, manager, pushes, history, late>>
    BY <1>5 DEF RemoveFile, EditFile
  <2>2. Installs' = Installs /\ Savers' = Savers
    BY <2>1 DEF callers, Installs, Savers, Saves
  <2>3. Paid'
    BY <1>5, <2>1, <2>2, PaidSame DEF RemoveFile, EditFile, manager
  <2>4. changes' \in 0..MaxChanges
    BY <1>0, <1>5 DEF RemoveFile, EditFile, Ranges
  <2>5. changed' \in BOOLEAN /\ missed' \in BOOLEAN
    BY <1>5, Zenon DEF RemoveFile, EditFile, Ranges
  <2> QED
    BY <2>1, <2>3, <2>4, <2>5 DEF manager, pushes, history, Ranges
<1>6. CASE Watch
  <2>1. UNCHANGED <<manager, pushes, newList, change, changes, late>>
    BY <1>6 DEF Watch, WatchTick, WatchRead, WatchFails, WatchApply
  <2>2. Savers' = Savers
    BY <1>0, <1>6 DEF Watch, WatchTick, WatchRead, WatchFails, WatchApply, Savers, Saves
  <2>3. CASE WatchTick
    <3>1. Installs' = Installs \cup {Watcher}
      BY <1>0, <2>3 DEF WatchTick, Installs
    <3>2. Paid'
      BY <2>1, <2>2, <2>3, <3>1, PaidTick DEF WatchTick, manager
    <3> QED
      BY <2>1, <2>3, <3>2 DEF WatchTick, manager, pushes, history, Ranges
  <2>4. CASE WatchRead
    <3>1. Installs' = Installs
      BY <1>0, <2>4 DEF WatchRead, Installs
    <3>2. Paid'
      BY <2>1, <2>2, <2>4, <3>1, PaidSame DEF WatchRead, manager
    <3> QED
      BY <2>1, <2>4, <3>2 DEF WatchRead, manager, pushes, history, Ranges
  <2>5. CASE WatchFails
    <3>1. Watcher \in Installs /\ Installs' = Installs \ {Watcher}
      BY <1>0, <2>5 DEF WatchFails, Installs
    <3>2. Paid'
      BY <2>1, <2>2, <2>5, <3>1, PaidEnd DEF WatchFails, manager
    <3> QED
      BY <2>1, <2>5, <3>2 DEF WatchFails, manager, pushes, history, Ranges
  <2>6. CASE WatchApply
    <3>1. Installs' = Installs
      BY <1>0, <2>6 DEF WatchApply, Installs
    <3>2. Paid'
      BY <2>1, <2>2, <2>6, <3>1, PaidSame DEF WatchApply, manager
    <3>3. atRisk' \subseteq Hooks /\ givenBack' \subseteq Hooks
      BY <2>6 DEF WatchApply, Decide, history, Ranges
    <3> QED
      BY <2>1, <2>6, <3>2, <3>3 DEF WatchApply, manager, pushes, Ranges
  <2> QED
    BY <1>6, <2>3, <2>4, <2>5, <2>6 DEF Watch
<1>8. ASSUME CallCancel, gen' = gen PROVE cancel' \in 0..gen' /\ cancelled' \subseteq 1..gen'
  BY <1>8 DEF CallCancel, Ranges
<1>9. ASSUME NEW c \in Callers, ReloadCancel(c) PROVE Ranges' /\ Paid'
  <2>1. Installs' = Installs /\ Savers' = Savers
    BY <1>0, <1>9 DEF ReloadCancel, Installs, Savers, Saves
  <2>2. Paid'
    BY <1>9, <2>1, PaidSame DEF ReloadCancel, list, watch
  <2> QED
    BY <1>8, <1>9, <2>1, <2>2 DEF ReloadCancel, list, watch, history, pushes, Ranges
<1>10. ASSUME NEW c \in Callers, ReloadWaited(c) PROVE Ranges' /\ Paid'
  <2>1. Installs' = Installs /\ Savers' = Savers
    BY <1>0, <1>10 DEF ReloadWaited, Installs, Savers, Saves
  <2>2. Paid'
    BY <1>10, <2>1, PaidSame DEF ReloadWaited, manager, list, watch
  <2> QED
    BY <1>10, <2>1, <2>2 DEF ReloadWaited, manager, list, watch, history, pushes, Ranges
<1>11. ASSUME NEW c \in Callers, ReloadInstall(c) PROVE Ranges' /\ Paid'
  <2>1. Installs' = Installs \ {c} /\ c \in Installs /\ Savers' = Savers
    BY <1>0, <1>11 DEF ReloadInstall, Installs, Savers, Saves
  <2>2. Paid'
    BY <1>11, <2>1, PaidEnd DEF ReloadInstall
  <2>3. gen' \in Nat \ {0} /\ cancel' \in 0..gen' /\ cancelled' \subseteq 1..gen'
    BY <1>11 DEF ReloadInstall, Ranges
  <2> QED
    BY <1>11, <2>2, <2>3 DEF ReloadInstall, history, pushes, Ranges
<1>12. ASSUME NEW c \in Callers, ReloadLaunch(c) PROVE Ranges' /\ Paid'
  <2>1. Installs' = Installs /\ Savers' = Savers
    BY <1>0, <1>12 DEF ReloadLaunch, Installs, Savers, Saves
  <2>2. Paid'
    BY <1>12, <2>1, PaidSame DEF ReloadLaunch, list, watch
  <2> QED
    BY <1>12, <2>1, <2>2 DEF ReloadLaunch, list, watch, history, pushes, Ranges
<1>13. ASSUME UNCHANGED <<callers, list, changes, gen, reloadMu>>,
              cancel' \in 0..gen' /\ cancelled' \subseteq 1..gen',
              notify' \subseteq Pushes /\ pushing' \in 0..MaxPush, late' \in BOOLEAN
       PROVE  Ranges' /\ Paid'
  <2>1. UNCHANGED <<callerPc, changed, missed, atRisk, givenBack, changes, gen, reloadMu>>
    BY <1>13 DEF callers, list, watch, history
  <2>2. Installs' = Installs /\ Savers' = Savers
    BY <2>1 DEF Installs, Savers, Saves
  <2>3. Paid'
    BY <2>1, <2>2, PaidSame
  <2> QED
    BY <1>13, <2>1, <2>3 DEF Ranges
<1>14. ASSUME NEW h \in Polls, NEW g \in Gens, PollTick(h, g) \/ Poller(h, g) PROVE Ranges' /\ Paid'
  <2>1. UNCHANGED <<list, manager, callers, pushes, changes, late>>
    BY <1>14 DEF PollTick, Poller, PollNothing, PollCommand, PollExecuted, PollExit
  <2> QED
    BY <1>13, <2>1 DEF manager, pushes, Ranges
<1>15. CASE Notify \/ PushDone \/ \E h \in Pushes : EnqueuePush(h)
  <2>1. /\ UNCHANGED <<list, manager, callers, changes, late>>
        /\ notify' \subseteq Pushes
    BY <1>15 DEF Notify, PushDone, EnqueuePush, Ranges
  <2>2. pushing' \in 0..MaxPush
    BY <1>15, ConstantsAssumption DEF Notify, PushDone, EnqueuePush, PushSlot, Ranges
  <2> QED
    BY <1>13, <2>1, <2>2 DEF manager, Ranges
<1>16. CASE StopCancel
  <2>1. UNCHANGED <<list, callers, changes, gen, reloadMu, pushes>> /\ CallCancel /\ late' \in BOOLEAN
    BY <1>16 DEF StopCancel, Ranges
  <2>2. cancel' \in 0..gen' /\ cancelled' \subseteq 1..gen'
    BY <1>8, <2>1
  <2> QED
    BY <1>13, <2>1, <2>2 DEF pushes, Ranges
<1>17. CASE Stop \/ UNCHANGED vars
  <2>1. UNCHANGED <<list, manager, callers, pushes, changes, late>>
    BY <1>17 DEF Stop, StopWait, StopWoken, vars
  <2> QED
    BY <1>13, <2>1 DEF manager, pushes, Ranges
<1>18. ASSUME NEW c \in Requests, Request(c) PROVE Ranges' /\ Paid'
  BY <1>1, <1>4, <1>18
     DEF Request, CreateWebhook, UpdateWebhook, DeleteWebhook, States
<1>19. ASSUME NEW c \in Callers, Reload(c) PROVE Ranges' /\ Paid'
  BY <1>9, <1>10, <1>11, <1>12, <1>19 DEF Reload
<1>20. ASSUME NEW c \in Requests, Proceed(c) PROVE Ranges' /\ Paid'
  BY <1>0, <1>2, <1>3, <1>19, <1>20 DEF Proceed
<1> QED
  BY <1>0, <1>5, <1>6, <1>14, <1>15, <1>16, <1>17, <1>18, <1>19, <1>20 DEF Next

\* Every variable keeps its type.  The semaphore of the pushes is never over-full,
\* and there are at most two Reloads for every change of the list: by who saves it,
\* and by the watcher, which reloads every write of the file.
THEOREM TypeCorrect == Spec => []TypeOK
<1>1. Init => Ranges /\ Paid
  <2> SUFFICES ASSUME Init PROVE Ranges /\ Paid
    OBVIOUS
  <2>1. Ranges
    <3>1. atRisk \subseteq Hooks /\ givenBack \subseteq Hooks
      BY DEF Init
    <3>3. gen = 1 /\ cancel = 1 /\ cancelled = {} /\ pushing = 0 /\ changes = 0
      BY DEF Init
    <3>4. /\ gen \in Nat \ {0} /\ cancel \in 0..gen /\ cancelled \subseteq 1..gen
          /\ pushing \in 0..MaxPush /\ changes \in 0..MaxChanges
      BY <3>3, ConstantsAssumption
    <3>5. /\ reloadMu \in Callers \cup {0} /\ notify \subseteq Pushes
          /\ changed \in BOOLEAN /\ missed \in BOOLEAN /\ late \in BOOLEAN
      BY DEF Init
    <3> QED
      BY <3>1, <3>4, <3>5 DEF Ranges
  <2>2. Installs = {} /\ Savers = {} /\ gen = 1 /\ changes = 0 /\ ~changed
    BY DEF Init, Installs, Savers, Saves, Callers
  <2>3. /\ IsFiniteSet(Installs) /\ Cardinality(Installs) = 0
        /\ IsFiniteSet(Savers) /\ Cardinality(Savers) = 0
    BY <2>2, FS_EmptySet, Zenon
  <2> QED
    BY <2>1, <2>2, <2>3 DEF Paid
<1>2. Inv /\ Ranges /\ Paid /\ [Next]_vars => Ranges' /\ Paid'
  BY RangesStep
<1>3. Inv /\ Ranges /\ Paid => TypeOK
  <2> SUFFICES ASSUME Inv, Ranges, Paid PROVE TypeOK
    OBVIOUS
  <2>1. gen \in Gens
    <3>1. Cardinality(Installs) \in Nat /\ Cardinality(Savers) \in Nat
      BY FS_CardinalityType DEF Paid
    <3> QED
      BY <3>1, ConstantsAssumption DEF Paid, Ranges, Gens
  <2> QED
    BY <2>1 DEF Inv, Types, Pcs, Contents, Roles, Ranges, TypeOK
<1> QED
  BY <1>1, <1>2, <1>3, Invariance, PTL DEF Spec

=============================================================================
