------------------------- MODULE RuntimeConfigProofs -------------------------
(***************************************************************************)
(* Proofs about RuntimeConfig for any number of requests, any keys and any *)
(* bounds: a save loses no key while memory is current, the watcher misses *)
(* no change of the file, the backups are the history of the file, all of  *)
(* it together is an OverlayStore, what is in force follows the overlay in *)
(* memory, and token names stay distinct.                                  *)
(***************************************************************************)
EXTENDS RuntimeConfig, FiniteSetTheorems, SequenceTheorems, TLAPS

IsOverlay(m) == m = [id |-> m.id, names |-> m.names, ha |-> m.ha, tokens |-> m.tokens]
IsRequest(r) == r = [pc |-> r.pc, op |-> r.op, list |-> r.list]
IsWatcher(w) == w = [pc |-> w.pc, lastMod |-> w.lastMod, buf |-> w.buf]
IsSequence(l) == \E S : l \in Seq(S)

\* The records have their fields.
Shape ==
  /\ IsOverlay(mem) /\ IsOverlay(f)
  /\ req = [h \in Handlers |-> req[h]] /\ \A h \in Handlers : IsRequest(req[h])
  /\ IsWatcher(watch)
  /\ IsSequence(log)

\* The numbers of the writes only grow; the watcher's time is not newer than
\* what it has read.
Ids ==
  /\ cur.id \in Nat /\ mem.id \in Int
  /\ watch.lastMod \in Nat /\ watch.buf.id \in Nat
  /\ cur.id <= Len(log) /\ mem.id <= cur.id /\ watch.lastMod <= cur.id
  /\ watch.buf.id <= cur.id
  /\ watch.pc = "install" => watch.lastMod <= watch.buf.id

\* Only the lock's holder saves; what it has written is newer than memory.
Holder ==
  /\ \A h \in Handlers : req[h].pc \in {"rotate", "apply"} => lock = h
  /\ \A h \in Handlers : req[h].pc = "apply" =>
       f.id \in Int /\ mem.id < f.id /\ f.id <= cur.id

SameKeys(m) == m.id = cur.id => m.names = cur.names /\ m.ha = cur.ha

\* What memory, a finished write and the watcher hold of the current file.
Keys3 ==
  /\ SameKeys(mem)
  /\ watch.pc = "install" => SameKeys(watch.buf)
  /\ \A h \in Handlers : req[h].pc = "apply" => SameKeys(f)

Inv == Shape /\ Ids /\ Holder /\ Keys3

\* A write is numbered one above the writes before it.
LEMMA AppendLength ==
  ASSUME NEW l, IsSequence(l), NEW x
  PROVE  /\ Len(l) \in Nat
         /\ Len(Append(l, x)) = Len(l) + 1
         /\ IsSequence(Append(l, x))
         /\ \A k \in 1..Len(l) : Append(l, x)[k] = l[k]
         /\ Append(l, x)[Len(l) + 1] = x
<1>1. PICK S : l \in Seq(S)
  BY DEF IsSequence
<1>2. l \in Seq(S \cup {x})
  BY <1>1
<1>3. /\ Append(l, x) \in Seq(S \cup {x}) /\ Len(Append(l, x)) = Len(l) + 1
      /\ \A k \in 1..Len(l) : Append(l, x)[k] = l[k]
      /\ Append(l, x)[Len(l) + 1] = x
  BY <1>2
<1> QED
  BY <1>1, <1>3 DEF IsSequence

\* Accepting a request keeps the invariant: it starts with no file saved.
LEMMA InvRequest ==
  ASSUME Inv, NEW h \in Handlers, Request(h)
  PROVE  Inv'
<1> USE DEF Inv, Shape, Ids, Holder, Keys3, SameKeys, IsOverlay, IsRequest,
            Busy, StartSave, files, memory, saving
<1>1. ASSUME NEW key \in Keys, NEW v \in Values, PutConfig(h, key, v) PROVE Inv'
  <2>1. key \in {"names", "ha"}
    BY ConstantsAssumption
  <2>2. IsOverlay(f') /\ f'.id = mem.id
    BY <1>1, <2>1 DEF PutConfig
  <2> QED
    BY <1>1, <2>2, ConstantsAssumption DEF PutConfig
<1>2. ASSUME NEW name \in Names, CreateAPIToken(h, name) PROVE Inv'
  BY <1>2, ConstantsAssumption DEF CreateAPIToken
<1>3. CASE DeleteAPIToken(h)
  <2>1. PICK l : req' = [req EXCEPT ![h] = [pc |-> "filter", op |-> "delete", list |-> l]]
    BY <1>3 DEF DeleteAPIToken
  <2> QED
    BY <1>3, <2>1 DEF DeleteAPIToken
<1>4. ASSUME NEW s \in Slots, RestoreBackup(h, s) PROVE Inv'
  BY <1>4, ConstantsAssumption DEF RestoreBackup, Unmarshal
<1> QED
  BY <1>1, <1>2, <1>3, <1>4 DEF Request

\* So does a request's next step: only Replace numbers a new write, and only
\* Apply takes it into memory.
LEMMA InvProceed ==
  ASSUME Inv, NEW h \in Handlers, Proceed(h)
  PROVE  Inv'
<1> USE DEF Inv, Shape, Ids, Holder, Keys3, SameKeys, IsOverlay, IsRequest,
            StartSave, files, memory, saving, history
<1>1. ASSUME NEW name \in Names, Filter(h, name) PROVE Inv'
  <2>1. PICK l : req' = [req EXCEPT ![h] = [pc |-> "save", op |-> "delete", list |-> l]]
    BY <1>1 DEF Filter
  <2>2. /\ req' = [g \in Handlers |-> req'[g]]
        /\ \A g \in Handlers : g # h => req'[g] = req[g]
        /\ IsRequest(req'[h]) /\ req'[h].pc = "save"
    BY <2>1
  <2>3. UNCHANGED <<cur, log, mem, lock, f, watch>>
    BY <1>1 DEF Filter
  <2> QED
    BY <2>2, <2>3
<1>2. CASE SaveTokens(h)
  <2>1. IsOverlay(f')
    BY <1>2 DEF SaveTokens
  <2>2. /\ req' = [g \in Handlers |-> req'[g]]
        /\ \A g \in Handlers : g # h => req'[g] = req[g]
        /\ IsRequest(req'[h]) /\ req'[h].pc = "rotate"
    BY <1>2 DEF SaveTokens
  <2>3. \A g \in Handlers : req[g].pc \notin {"rotate", "apply"}
    BY <1>2, ConstantsAssumption DEF SaveTokens
  <2>4. lock' = h /\ UNCHANGED <<cur, log, mem, watch>>
    BY <1>2 DEF SaveTokens
  <2> QED
    BY <2>1, <2>2, <2>3, <2>4
<1>3. CASE RotateSlot(h)
  BY <1>3 DEF RotateSlot
<1>4. CASE RotateFails(h)
  BY <1>4 DEF RotateFails
<1>5. CASE Replace(h)
  <2>1. Len(log) \in Nat /\ Len(log') = Len(log) + 1 /\ IsSequence(log')
    BY <1>5, AppendLength DEF Replace
  <2>2. /\ IsOverlay(f') /\ f'.id = Len(log) + 1 /\ f'.names = f.names /\ f'.ha = f.ha
        /\ cur'.id = Len(log) + 1 /\ cur'.names = f.names /\ cur'.ha = f.ha
    BY <1>5 DEF Replace, Marshal
  <2>3. /\ req' = [g \in Handlers |-> req'[g]] /\ IsRequest(req'[h])
        /\ \A g \in Handlers : g # h => req'[g] = req[g]
        /\ req'[h].pc = "apply" /\ lock = h /\ UNCHANGED <<lock, mem, watch>>
    <3>1. req[h].pc = "rotate" /\ req' = [req EXCEPT ![h].pc = "apply"]
      BY <1>5 DEF Replace
    <3>2. lock = h
      BY <3>1
    <3>3. UNCHANGED <<lock, mem, watch>>
      BY <1>5 DEF Replace
    <3>4. IsRequest(req[h]) /\ req = [g \in Handlers |-> req[g]]
      OBVIOUS
    <3>5. req'[h] = [req[h] EXCEPT !.pc = "apply"]
      BY <3>1, <3>4
    <3>6. IsRequest(req'[h]) /\ req'[h].pc = "apply"
      BY <3>4, <3>5
    <3> QED
      BY <3>1, <3>2, <3>3, <3>4, <3>6
  <2>4. \A g \in Handlers : g # h => req'[g].pc \notin {"rotate", "apply"}
    BY <2>3
  <2> QED
    BY <2>1, <2>2, <2>3, <2>4
<1>6. CASE PersistFails(h)
  BY <1>6 DEF PersistFails, Idle, Empty
<1>7. CASE Apply(h)
  <2>1. req' = [g \in Handlers |-> req'[g]] /\ IsRequest(req'[h])
        /\ (\A g \in Handlers : g # h => req'[g] = req[g])
        /\ req'[h].pc \in {"idle", "announce"}
    BY <1>7 DEF Apply, Idle
  <2>2. \A g \in Handlers : req'[g].pc \notin {"rotate", "apply"}
    BY <1>7, <2>1 DEF Apply
  <2>3. mem' = f /\ f' = Empty /\ UNCHANGED <<cur, log, watch>>
    BY <1>7 DEF Apply
  <2>4. f.id \in Int /\ f.id <= cur.id /\ SameKeys(f)
    BY <1>7 DEF Apply
  <2> QED
    BY <2>1, <2>2, <2>3, <2>4 DEF Empty
<1>8. CASE OnChange(h)
  BY <1>8 DEF OnChange, Idle
<1> QED
  BY <1>1, <1>2, <1>3, <1>4, <1>5, <1>6, <1>7, <1>8 DEF Proceed

\* And every step of the watcher, an edit and a crash.
LEMMA InvWatch ==
  ASSUME Inv, Watch \/ Crash \/ \E c \in Edits : EditFile(c)
  PROVE  Inv'
<1> USE DEF Inv, Shape, Ids, Holder, Keys3, SameKeys, IsOverlay, IsRequest,
            files, memory, saving, history
<1>1. CASE WatchStart
  <2>1. watch' = [pc |-> "wait", lastMod |-> IF There(cur) THEN cur.id ELSE 0, buf |-> watch.buf]
    BY <1>1 DEF WatchStart, IsWatcher
  <2>2. UNCHANGED <<cur, log, mem, lock, f, req>>
    BY <1>1 DEF WatchStart
  <2> QED
    BY <2>1, <2>2 DEF IsWatcher
<1>2. CASE WatchTick
  <2>1. watch' = [pc |-> "read", lastMod |-> cur.id, buf |-> watch.buf]
    BY <1>2 DEF WatchTick, IsWatcher
  <2>2. UNCHANGED <<cur, log, mem, lock, f, req>>
    BY <1>2 DEF WatchTick
  <2> QED
    BY <2>1, <2>2 DEF IsWatcher
<1>3. CASE WatchRead
  <2>1. watch' = [pc |-> "install", lastMod |-> watch.lastMod, buf |-> cur]
    BY <1>3 DEF WatchRead, IsWatcher
  <2>2. UNCHANGED <<cur, log, mem, lock, f, req>>
    BY <1>3 DEF WatchRead
  <2> QED
    BY <2>1, <2>2 DEF IsWatcher
<1>4. CASE WatchInstall
  <2>1. \A h \in Handlers : req[h].pc \notin {"rotate", "apply"}
    BY <1>4, ConstantsAssumption DEF WatchInstall
  <2>2. /\ IsOverlay(mem') /\ mem'.id = watch.buf.id
        /\ mem'.names = watch.buf.names /\ mem'.ha = watch.buf.ha
    BY <1>4 DEF WatchInstall, Unmarshal
  <2>3. watch' = [pc |-> "announce", lastMod |-> watch.lastMod, buf |-> NoFile]
    BY <1>4 DEF WatchInstall, IsWatcher
  <2>4. UNCHANGED <<cur, log, lock, f, req>> /\ SameKeys(watch.buf)
    BY <1>4 DEF WatchInstall
  <2> QED
    BY <2>1, <2>2, <2>3, <2>4 DEF NoFile, IsWatcher
<1>5. CASE WatchOnChange
  BY <1>5 DEF WatchOnChange, IsWatcher
<1>6. ASSUME NEW c \in Edits, EditFile(c) PROVE Inv'
  <2>1. Len(log) \in Nat /\ Len(log') = Len(log) + 1 /\ IsSequence(log')
    BY <1>6, AppendLength DEF EditFile
  <2>2. cur'.id = Len(log) + 1
    BY <1>6 DEF EditFile
  <2> QED
    BY <1>6, <2>1, <2>2 DEF EditFile
<1>8. CASE WatchReadFails
  <2>1. watch' = [pc |-> "wait", lastMod |-> watch.lastMod, buf |-> watch.buf]
    BY <1>8 DEF WatchReadFails, IsWatcher
  <2>2. UNCHANGED <<cur, log, mem, lock, f, req>>
    BY <1>8 DEF WatchReadFails
  <2> QED
    BY <2>1, <2>2 DEF IsWatcher
<1>7. CASE Crash
  <2>1. /\ IsOverlay(mem') /\ mem'.id = cur.id
        /\ mem'.names = cur.names /\ mem'.ha = cur.ha
    BY <1>7 DEF Crash, Unmarshal
  <2>2. \A h \in Handlers : req'[h] = Idle
    BY <1>7 DEF Crash
  <2> QED
    BY <1>7, <2>1, <2>2 DEF Crash, Empty, Idle, NoFile, IsWatcher
<1> QED
  BY <1>1, <1>2, <1>3, <1>4, <1>5, <1>6, <1>7, <1>8 DEF Watch

\* The invariant holds in every state.
LEMMA InvAlways == Spec => []Inv
<1>1. Init => Inv
  <2> SUFFICES ASSUME Init PROVE Inv
    OBVIOUS
  <2>1. IsSequence(log) /\ Len(log) = 1
    <3>1. log \in Seq({NoFile}) /\ Len(log) = 1
      BY DEF Init
    <3> QED
      BY <3>1 DEF IsSequence
  <2>2. req = [h \in Handlers |-> req[h]] /\ \A h \in Handlers : req[h] = Idle
    BY DEF Init
  <2> QED
    BY <2>1, <2>2 DEF Init, Inv, Shape, Ids, Holder, Keys3, SameKeys, IsOverlay, IsRequest,
       IsWatcher, Empty, NoFile, Idle
<1>2. Inv /\ [Next]_vars => Inv'
  <2> SUFFICES ASSUME Inv, [Next]_vars PROVE Inv'
    OBVIOUS
  <2>1. CASE UNCHANGED vars
    BY <2>1 DEF Inv, Shape, Ids, Holder, Keys3, SameKeys, IsOverlay, IsRequest, IsSequence, IsWatcher,
       vars, files, memory, saving
  <2> QED
    BY <2>1, InvRequest, InvProceed, InvWatch DEF Next
<1> QED
  BY <1>1, <1>2, PTL DEF Spec

-----------------------------------------------------------------------------
\* The overlay has the keys of the file it came from while that is the current one.
MemoryIsFile ==
  mem.id = cur.id => mem.names = cur.names /\ mem.ha = cur.ha

\* While the overlay in memory is the current file, the keys the two hold are
\* the same, so that SaveOverlay, which writes the overlay back with a patch,
\* loses no key it was not asked to change.
THEOREM SavesLoseNothing == Spec => []MemoryIsFile
<1>1. Inv => MemoryIsFile
  BY DEF Inv, Keys3, SameKeys, MemoryIsFile
<1> QED
  BY <1>1, InvAlways, PTL

\* A step of a request keeps the promise of the watcher.
LEMMA HandlersMissNothing ==
  ASSUME Inv, NoMissedUpdate, NEW h \in Handlers, Request(h) \/ Proceed(h)
  PROVE  NoMissedUpdate'
<1>1. CASE Replace(h)
  <2>1. cur'.id = Len(log) + 1 /\ f'.id = Len(log) + 1
    BY <1>1 DEF Replace, Marshal, Inv, Shape, IsOverlay
  <2>2. req'[h].pc = "apply"
    BY <1>1 DEF Replace, Inv, Shape, IsRequest
  <2> QED
    BY <2>1, <2>2 DEF NoMissedUpdate, Saving
<1>2. CASE Apply(h)
  <2>1. req[h].pc = "apply" /\ mem.id < f.id /\ f.id <= cur.id /\ mem.id \in Int /\ f.id \in Int
    BY <1>2 DEF Apply, Inv, Holder, Ids
  <2>2. mem' = f /\ UNCHANGED <<cur, watch, missed>>
    BY <1>2 DEF Apply, files, history
  <2>3. mem.id # cur.id
    BY <2>1 DEF Inv, Ids
  <2>4. CASE f.id = cur.id
    BY <2>2, <2>4 DEF NoMissedUpdate
  <2>5. CASE f.id # cur.id
    BY <2>2, <2>3, <2>5 DEF NoMissedUpdate, Saving, There
  <2> QED
    BY <2>4, <2>5
<1>3. CASE ~Replace(h) /\ ~Apply(h)
  <2>1. UNCHANGED <<cur, mem, watch, missed>>
    BY <1>3 DEF Request, Proceed, PutConfig, CreateAPIToken, DeleteAPIToken, RestoreBackup,
       Filter, SaveTokens, RotateSlot, RotateFails, PersistFails, OnChange,
       files, memory, history
  <2>2. Saving => Saving'
    <3> SUFFICES ASSUME NEW g \in Handlers, req[g].pc = "apply", f.id = cur.id
                 PROVE  Saving'
      BY DEF Saving
    <3>1. lock = g /\ lock # 0
      BY ConstantsAssumption DEF Inv, Holder
    <3>2. CASE \E name \in Names : Filter(h, name)
      BY <3>2 DEF Filter, Saving, Inv, Shape, files, saving
    <3>3. CASE OnChange(h)
      BY <3>3, <2>1 DEF OnChange, Saving, Inv, Shape, saving
    <3>4. CASE RotateSlot(h) \/ RotateFails(h) \/ PersistFails(h)
      BY <3>4, <3>1 DEF RotateSlot, RotateFails, PersistFails, Inv, Holder
    <3>5. CASE Request(h) \/ SaveTokens(h)
      BY <3>5, <3>1 DEF Request, PutConfig, CreateAPIToken, DeleteAPIToken, RestoreBackup,
         SaveTokens, StartSave
    <3> QED
      BY <1>3, <3>2, <3>3, <3>4, <3>5 DEF Proceed
  <2> QED
    BY <2>1, <2>2 DEF NoMissedUpdate, There
<1> QED
  BY <1>1, <1>2, <1>3

\* No change of the file escapes the watcher (watchLoop, which takes the time
\* before it reads): the change is in memory, about to be installed, or will be
\* noticed; unless it was made before the watcher's first look, its load failed
\* (which is logged and not tried again), or the file was removed.
THEOREM WatcherMissesNothing == Spec => []NoMissedUpdate
<1>1. Init => NoMissedUpdate
  BY DEF Init, NoMissedUpdate, Empty, NoFile
<1>2. Inv /\ NoMissedUpdate /\ [Next]_vars => NoMissedUpdate'
  <2> SUFFICES ASSUME Inv, NoMissedUpdate, [Next]_vars PROVE NoMissedUpdate'
    OBVIOUS
  <2> USE DEF NoMissedUpdate, files, memory, saving, history
  <2>1. CASE UNCHANGED vars
    BY <2>1 DEF vars, Saving, There
  <2>2. CASE WatchStart
    <3>1. UNCHANGED <<cur, mem, f, req>> /\ LetPass
      BY <2>2 DEF WatchStart
    <3>2. (Saving <=> Saving') /\ (There(cur) <=> There(cur)')
      BY <3>1 DEF Saving, There
    <3> QED
      BY <3>1, <3>2 DEF LetPass
  <2>9. CASE WatchReadFails
    <3>1. UNCHANGED <<cur, mem, f, req>> /\ LetPass
      BY <2>9 DEF WatchReadFails
    <3>2. (Saving <=> Saving') /\ (There(cur) <=> There(cur)')
      BY <3>1 DEF Saving, There
    <3> QED
      BY <3>1, <3>2 DEF LetPass
  <2>3. CASE WatchTick
    BY <2>3 DEF WatchTick, Inv, Shape, IsWatcher
  <2>4. CASE WatchRead
    BY <2>4 DEF WatchRead, Inv, Shape, IsWatcher
  <2>5. CASE WatchInstall
    <3>1. mem'.id = watch.buf.id /\ watch'.lastMod = watch.lastMod /\ cur' = cur
      BY <2>5 DEF WatchInstall, Unmarshal, Inv, Shape, IsWatcher
    <3>2. watch.lastMod <= watch.buf.id /\ watch.buf.id <= cur.id
      BY <2>5 DEF WatchInstall, Inv, Ids
    <3>3. watch.buf.id = cur.id \/ watch.lastMod # cur.id
      BY <3>2 DEF Inv, Ids
    <3> QED
      BY <3>1, <3>3
  <2>6. CASE WatchOnChange
    BY <2>6 DEF WatchOnChange, Saving, There, Inv, Shape, IsWatcher
  <2>7. ASSUME NEW c \in Edits, EditFile(c) PROVE NoMissedUpdate'
    <3>1. cur'.id = Len(log) + 1 /\ watch' = watch
      BY <2>7 DEF EditFile
    <3>2. watch.lastMod \in Nat /\ watch.lastMod <= cur.id /\ cur.id \in Nat
          /\ cur.id <= Len(log) /\ Len(log) \in Nat
      BY AppendLength DEF Inv, Ids, Shape
    <3> QED
      BY <3>1, <3>2
  <2>8. CASE Crash
    BY <2>8 DEF Crash, Unmarshal
  <2> QED
    BY <2>1, <2>2, <2>3, <2>4, <2>5, <2>6, <2>7, <2>8, <2>9, HandlersMissNothing DEF Next, Watch
<1> QED
  BY <1>1, <1>2, InvAlways, PTL DEF Spec

-----------------------------------------------------------------------------
(* The files: runtime.json and its backups. *)

\* A write's number is its place in the history; the first place stands for
\* the time before there was a file.  Without a fault nobody has removed it since.
LogInv ==
  /\ Len(log) > 0 /\ cur = log[Len(log)]
  /\ log[1] = NoFile
  /\ \A k \in 2..Len(log) : log[k].id = k
  /\ faults = 0 => \A k \in 2..Len(log) : There(log[k])

\* A backup that is not torn is a write of the past; of two backups, the one in
\* the lower slot is not older, in the middle of a rotation too.
BackupsOrdered ==
  /\ slot \in 0..BackupCount
  /\ bak = [s \in Slots |-> bak[s]]
  /\ \A i \in Slots : bak[i].id \in Int
  /\ \A i \in Slots : bak[i].id > 0 => bak[i].id <= Len(log) /\ bak[i] = log[bak[i].id]
  /\ \A i \in Slots : \A j \in 1..i :
       bak[i].id > 0 /\ bak[j].id > 0 => bak[j].id >= bak[i].id

\* The i-th write before the current one, if there was one.
Before(i) == IF i < Len(log) THEN log[Len(log) - i] ELSE NoFile

Rotating == \E h \in Handlers : req[h].pc = "rotate"

\* Without a fault every slot holds its write, and the slots a rotation has
\* passed hold the one they will have once the current file was replaced.
BackupsExact ==
  faults = 0 =>
    \A i \in Slots : bak[i] = IF Rotating /\ i > slot THEN Before(i - 1) ELSE Before(i)

FilesInv == LogInv /\ BackupsOrdered /\ BackupsExact /\ faults \in Nat

\* Of the steps of a request, these leave the files, the history and the place
\* of the rotation alone and start no rotation.
LEMMA FilesUntouched ==
  ASSUME FilesInv, UNCHANGED <<cur, log, bak, slot, faults>>, Rotating' <=> Rotating
  PROVE  FilesInv'
BY DEF FilesInv, LogInv, BackupsOrdered, BackupsExact, Before

\* A save starts with all the slots in place.
LEMMA FilesStartSave ==
  ASSUME Inv, FilesInv, NEW h \in Handlers, NEW g, StartSave(h, g),
         UNCHANGED <<files, faults>>
  PROVE  FilesInv'
<1>1. ~Rotating
  BY ConstantsAssumption DEF StartSave, Inv, Holder, Rotating
<1>2. slot' = BackupCount /\ BackupCount \in Nat /\ \A i \in Slots : ~(i > slot')
  BY ConstantsAssumption DEF StartSave, Slots
<1>3. UNCHANGED <<cur, log, bak, faults>>
  BY DEF files
<1>4. BackupsOrdered'
  <2>1. slot' \in 0..BackupCount
    BY <1>2
  <2> QED
    BY <1>3, <2>1 DEF FilesInv, BackupsOrdered
<1>5. \A i \in Slots : faults = 0 => bak[i] = Before(i)
  BY <1>1 DEF FilesInv, BackupsExact
<1>6. BackupsExact'
  BY <1>2, <1>3, <1>5 DEF BackupsExact, Before
<1> QED
  BY <1>3, <1>4, <1>6 DEF FilesInv, LogInv

\* A copy moves a write one slot up and keeps the order; a source that is not
\* there has nothing behind it either.
LEMMA FilesRotate ==
  ASSUME Inv, FilesInv, NEW h \in Handlers, RotateSlot(h)
  PROVE  FilesInv'
<1> DEFINE src == RotateFrom(slot)
<1>1. /\ slot \in Slots /\ slot' = slot - 1 /\ Rotating /\ Rotating'
      /\ UNCHANGED <<cur, log, faults>> /\ Len(log) \in Nat \ {0}
  BY AppendLength, ConstantsAssumption
     DEF RotateSlot, FilesInv, LogInv, BackupsOrdered, Slots, Rotating, history, Inv, Shape
<1>len. Len(log) # 1 => Len(log) \in 2..Len(log)
  BY <1>1
<1>2. /\ src.id \in Int
      /\ src.id > 0 => src.id <= Len(log) /\ src = log[src.id]
  <2>1. CASE slot = 1
    <3>1. src = cur /\ cur = log[Len(log)]
      BY <2>1 DEF RotateFrom, FilesInv, LogInv
    <3>2. CASE Len(log) = 1
      BY <3>1, <3>2 DEF FilesInv, LogInv, NoFile
    <3>3. CASE Len(log) # 1
      <4>1. Len(log) \in 2..Len(log)
        BY <1>len, <3>3
      <4>2. cur.id = Len(log)
        BY <3>1, <4>1 DEF FilesInv, LogInv
      <4> QED
        BY <3>1, <4>2, <1>1
    <3> QED
      BY <3>2, <3>3
  <2>2. CASE slot # 1
    <3>1. slot - 1 \in Slots /\ src = bak[slot - 1]
      BY <1>1, <2>2, ConstantsAssumption DEF RotateFrom, Slots
    <3> QED
      BY <3>1 DEF FilesInv, BackupsOrdered
  <2> QED
    BY <2>1, <2>2
<1>3. \A j \in Slots : j < slot /\ src.id > 0 /\ bak[j].id > 0 => bak[j].id >= src.id
  <2> SUFFICES ASSUME NEW j \in Slots, j < slot, src.id > 0, bak[j].id > 0
               PROVE  bak[j].id >= src.id
    OBVIOUS
  <2>1. slot - 1 \in Slots /\ slot # 1 /\ j \in 1..(slot - 1)
    BY <1>1, ConstantsAssumption DEF Slots
  <2>2. src = bak[slot - 1]
    BY <2>1 DEF RotateFrom
  <2> QED
    BY <2>1, <2>2 DEF FilesInv, BackupsOrdered
<1>4. \A i \in Slots : i > slot /\ src.id > 0 /\ bak[i].id > 0 => src.id >= bak[i].id
  <2> SUFFICES ASSUME NEW i \in Slots, i > slot, src.id > 0, bak[i].id > 0
               PROVE  src.id >= bak[i].id
    OBVIOUS
  <2>1. CASE slot = 1
    <3>1. src = cur /\ cur = log[Len(log)]
      BY <2>1 DEF RotateFrom, FilesInv, LogInv
    <3>2. Len(log) # 1
      <4>1. NoFile.id = 0
        BY DEF NoFile
      <4> QED
        BY <3>1, <4>1 DEF FilesInv, LogInv
    <3>3. Len(log) \in 2..Len(log)
      BY <3>2, <1>len
    <3>4. src.id = Len(log)
      BY <3>1, <3>3 DEF FilesInv, LogInv
    <3> QED
      BY <3>4 DEF FilesInv, BackupsOrdered
  <2>2. CASE slot # 1
    <3>1. slot - 1 \in Slots /\ src = bak[slot - 1] /\ slot - 1 \in 1..i
      BY <1>1, <2>2, ConstantsAssumption DEF RotateFrom, Slots
    <3> QED
      BY <3>1 DEF FilesInv, BackupsOrdered
  <2> QED
    BY <2>1, <2>2
<1>5. BackupsOrdered'
  <2>1. CASE ~There(src)
    <3>1. bak' = bak
      BY <2>1 DEF RotateSlot
    <3>2. slot' \in 0..BackupCount
      BY <1>1, ConstantsAssumption DEF Slots
    <3> QED
      BY <1>1, <3>1, <3>2 DEF FilesInv, BackupsOrdered
  <2>2. CASE There(src)
    <3>1. bak' = [bak EXCEPT ![slot] = src]
      BY <2>2 DEF RotateSlot
    <3>2. /\ bak' = [s \in Slots |-> bak'[s]] /\ bak'[slot] = src
          /\ \A i \in Slots : i # slot => bak'[i] = bak[i]
      BY <1>1, <3>1 DEF FilesInv, BackupsOrdered
    <3>3. slot' \in 0..BackupCount
      BY <1>1, ConstantsAssumption DEF Slots
    <3>4. \A i \in Slots : bak'[i].id \in Int
      BY <1>2, <3>2 DEF FilesInv, BackupsOrdered
    <3>5. \A i \in Slots : bak'[i].id > 0 => bak'[i].id <= Len(log) /\ bak'[i] = log[bak'[i].id]
      BY <1>2, <3>2 DEF FilesInv, BackupsOrdered
    <3>6. \A i \in Slots : \A j \in 1..i :
            bak'[i].id > 0 /\ bak'[j].id > 0 => bak'[j].id >= bak'[i].id
      <4> SUFFICES ASSUME NEW i \in Slots, NEW j \in 1..i, bak'[i].id > 0, bak'[j].id > 0
                   PROVE  bak'[j].id >= bak'[i].id
        OBVIOUS
      <4>1. j \in Slots /\ i \in Int /\ j \in Int /\ slot \in Int /\ j <= i
        BY <1>1, ConstantsAssumption DEF Slots
      <4>2. CASE i = slot /\ j = slot
        BY <3>2, <3>4, <4>2
      <4>3. CASE i = slot /\ j # slot
        BY <1>3, <3>2, <4>1, <4>3
      <4>4. CASE i # slot /\ j = slot
        BY <1>4, <3>2, <4>1, <4>4
      <4>5. CASE i # slot /\ j # slot
        BY <3>2, <4>1, <4>5 DEF FilesInv, BackupsOrdered
      <4> QED
        BY <4>2, <4>3, <4>4, <4>5
    <3> QED
      BY <1>1, <3>2, <3>3, <3>4, <3>5, <3>6 DEF BackupsOrdered
  <2> QED
    BY <2>1, <2>2
<1>6. BackupsExact'
  <2> SUFFICES ASSUME faults = 0, NEW i \in Slots
               PROVE  bak'[i] = IF i > slot - 1 THEN Before(i - 1) ELSE Before(i)
    BY <1>1 DEF BackupsExact, Before
  <2>1. bak[i] = IF i > slot THEN Before(i - 1) ELSE Before(i)
    BY <1>1 DEF FilesInv, BackupsExact
  <2>2. i \in Int /\ slot \in Int
    BY <1>1 DEF Slots
  <2>3. bak' = [bak EXCEPT ![slot] = bak'[slot]]
    <3>1. bak = [s \in Slots |-> bak[s]]
      BY DEF FilesInv, BackupsOrdered
    <3> QED
      BY <1>1, <3>1 DEF RotateSlot
  <2>4. CASE i # slot
    <3>1. bak'[i] = bak[i]
      BY <2>3, <2>4 DEF FilesInv, BackupsOrdered
    <3> QED
      BY <2>1, <2>2, <2>4, <3>1
  <2>5. CASE i = slot
    <3>1. src = Before(slot - 1)
      <4>1. CASE slot = 1
        BY <1>1, <4>1 DEF RotateFrom, Before, FilesInv, LogInv
      <4>2. CASE slot # 1
        <5>1. slot - 1 \in Slots /\ ~(slot - 1 > slot)
          BY <1>1, <4>2, ConstantsAssumption DEF Slots
        <5> QED
          BY <1>1, <4>2, <5>1 DEF RotateFrom, FilesInv, BackupsExact
      <4> QED
        BY <4>1, <4>2
    <3>2. CASE There(src)
      <4>1. bak'[slot] = src
        BY <1>1, <3>2 DEF RotateSlot, FilesInv, BackupsOrdered
      <4> QED
        BY <2>2, <2>5, <3>1, <4>1
    <3>3. CASE ~There(src)
      <4>1. bak'[slot] = bak[slot]
        BY <3>3 DEF RotateSlot
      <4>2. bak[slot] = Before(slot)
        BY <2>1, <2>2, <2>5
      <4>3. slot - 1 >= Len(log) - 1
        <5> SUFFICES ASSUME slot - 1 < Len(log) - 1 PROVE FALSE
          BY <1>1, <2>2
        <5>1. src = log[Len(log) - (slot - 1)] /\ Len(log) - (slot - 1) \in 2..Len(log)
          BY <1>1, <2>2, <3>1, ConstantsAssumption DEF Before, Slots
        <5> QED
          BY <1>1, <2>2, <3>3, <5>1 DEF FilesInv, LogInv
      <4>4. Before(slot) = NoFile
        BY <1>1, <2>2, <4>3 DEF Before
      <4>5. Before(slot - 1) = NoFile
        <5>1. CASE slot - 1 < Len(log)
          <6>1. Len(log) - (slot - 1) = 1
            BY <1>1, <2>2, <4>3, <5>1
          <6> QED
            BY <5>1, <6>1 DEF Before, FilesInv, LogInv
        <5>2. CASE ~(slot - 1 < Len(log))
          BY <5>2 DEF Before
        <5> QED
          BY <5>1, <5>2
      <4> QED
        BY <2>2, <2>5, <4>1, <4>2, <4>4, <4>5
    <3> QED
      BY <3>2, <3>3
  <2> QED
    BY <2>4, <2>5
<1> QED
  BY <1>1, <1>5, <1>6 DEF FilesInv, LogInv

\* A copy that is cut off leaves nothing that passes for a write.
LEMMA FilesCutOff ==
  ASSUME FilesInv, bak' \in {bak} \cup CutOff(slot),
         slot \in Slots \/ bak' = bak,
         slot' = 0, Fault, UNCHANGED <<cur, log>>
  PROVE  FilesInv'
<1>1. BackupCount \in Nat /\ faults' \in Nat /\ faults' # 0
  BY ConstantsAssumption DEF Fault, FilesInv
<1>2. CASE bak' = bak
  <2>1. slot' \in 0..BackupCount
    BY <1>1
  <2>2. BackupsOrdered'
    BY <1>2, <2>1 DEF FilesInv, BackupsOrdered
  <2> QED
    BY <1>1, <2>2 DEF FilesInv, LogInv, BackupsExact
<1>3. CASE bak' \in CutOff(slot) /\ slot \in Slots
  <2>1. PICK left \in {"none", "garbled"} :
          bak' = [bak EXCEPT ![slot] = [NoFile EXCEPT !.state = left]]
    BY <1>3 DEF CutOff
  <2>2. bak'[slot].id \in Int /\ ~(bak'[slot].id > 0)
    BY <1>3, <2>1 DEF NoFile, FilesInv, BackupsOrdered
  <2>3. /\ bak' = [s \in Slots |-> bak'[s]]
        /\ \A i \in Slots : i # slot => bak'[i] = bak[i]
    BY <2>1 DEF FilesInv, BackupsOrdered
  <2>4. \A i \in Slots : \A j \in 1..i : j \in Slots
    BY <1>1 DEF Slots
  <2>5. \A i \in Slots : bak'[i].id > 0 => i # slot /\ bak'[i] = bak[i]
    BY <2>2, <2>3
  <2>6. /\ \A i \in Slots : bak'[i].id \in Int
        /\ \A i \in Slots : bak'[i].id > 0 =>
             bak'[i].id <= Len(log) /\ bak'[i] = log[bak'[i].id]
    BY <2>2, <2>3, <2>5 DEF FilesInv, BackupsOrdered
  <2>7. \A i \in Slots : \A j \in 1..i :
          bak'[i].id > 0 /\ bak'[j].id > 0 => bak'[j].id >= bak'[i].id
    BY <2>4, <2>5 DEF FilesInv, BackupsOrdered
  <2>8. slot' \in 0..BackupCount
    BY <1>1
  <2>9. BackupsOrdered'
    BY <2>3, <2>6, <2>7, <2>8 DEF BackupsOrdered
  <2> QED
    BY <1>1, <2>9 DEF FilesInv, LogInv, BackupsExact
<1> QED
  BY <1>2, <1>3

\* What is written next becomes the current file and the newest of the history.
LEMMA LogGrows ==
  ASSUME Inv, FilesInv, NEW x, x.id = Len(log) + 1, cur' = x, log' = Append(log, x),
         UNCHANGED <<bak, slot>>, faults' = 0 => faults = 0 /\ There(x)
  PROVE  /\ LogInv' /\ BackupsOrdered'
         /\ Len(log) \in Nat /\ Len(log') = Len(log) + 1
         /\ \A k \in 1..Len(log) : log'[k] = log[k]
<1>1. /\ Len(log) \in Nat \ {0} /\ Len(log') = Len(log) + 1
      /\ \A k \in 1..Len(log) : log'[k] = log[k]
      /\ log'[Len(log) + 1] = x
  BY AppendLength DEF Inv, Shape, FilesInv, LogInv
<1>2. LogInv'
  <2>1. \A k \in 2..Len(log') : k \in 2..Len(log) \/ k = Len(log) + 1
    BY <1>1
  <2>2. \A k \in 2..Len(log) : log'[k] = log[k]
    BY <1>1
  <2> HIDE DEF There
  <2>3. faults' = 0 => \A k \in 2..Len(log') : There(log'[k])
    BY <1>1, <2>1, <2>2 DEF FilesInv, LogInv
  <2>4. \A k \in 2..Len(log') : log'[k].id = k
    BY <1>1, <2>1, <2>2 DEF FilesInv, LogInv
  <2>5. (\A k \in 2..Len(log) : There(log[k]))' <=> \A k \in 2..Len(log') : There(log'[k])
    BY DEF There
  <2> QED
    BY <1>1, <2>3, <2>4, <2>5 DEF FilesInv, LogInv
<1>3. \A i \in Slots : bak[i].id > 0 => bak[i].id <= Len(log') /\ bak[i] = log'[bak[i].id]
  <2> SUFFICES ASSUME NEW i \in Slots, bak[i].id > 0
               PROVE  bak[i].id <= Len(log') /\ bak[i] = log'[bak[i].id]
    OBVIOUS
  <2>1. bak[i].id \in 1..Len(log) /\ bak[i] = log[bak[i].id]
    BY <1>1 DEF FilesInv, BackupsOrdered
  <2> QED
    BY <1>1, <2>1
<1>4. BackupsOrdered'
  BY <1>3 DEF FilesInv, BackupsOrdered
<1> QED
  BY <1>1, <1>2, <1>4

\* Every step of a request keeps the files in order.
LEMMA FilesHandlers ==
  ASSUME Inv, FilesInv, NEW h \in Handlers, Request(h) \/ Proceed(h)
  PROVE  FilesInv'
<1> USE DEF files, memory, saving, history
<1>1. ASSUME NEW key \in Keys, NEW v \in Values, PutConfig(h, key, v) PROVE FilesInv'
  <2>1. PICK g : StartSave(h, g)
    BY <1>1 DEF PutConfig
  <2>2. UNCHANGED <<files, faults>>
    BY <1>1 DEF PutConfig
  <2> QED
    BY <2>1, <2>2, FilesStartSave
<1>2. CASE SaveTokens(h)
  <2>1. PICK g : StartSave(h, g)
    BY <1>2 DEF SaveTokens
  <2>2. UNCHANGED <<files, faults>>
    BY <1>2 DEF SaveTokens
  <2> QED
    BY <2>1, <2>2, FilesStartSave
<1>3. ASSUME NEW s \in Slots, RestoreBackup(h, s) PROVE FilesInv'
  <2>1. PICK g : StartSave(h, g)
    BY <1>3 DEF RestoreBackup
  <2>2. UNCHANGED <<files, faults>>
    BY <1>3 DEF RestoreBackup
  <2> QED
    BY <2>1, <2>2, FilesStartSave
<1>4. ASSUME req'[h].pc # "rotate", \A g \in Handlers \ {h} : req'[g] = req[g],
             req[h].pc # "rotate", UNCHANGED <<cur, log, bak, slot, faults>>
      PROVE  FilesInv'
  <2>1. Rotating' <=> Rotating
    BY <1>4 DEF Rotating
  <2> QED
    BY <1>4, <2>1, FilesUntouched
<1>5. ASSUME NEW name \in Names, CreateAPIToken(h, name) PROVE FilesInv'
  <2>1. PICK l : req' = [req EXCEPT ![h] = [pc |-> "save", op |-> "create", list |-> l]]
    BY <1>5 DEF CreateAPIToken
  <2>2. req[h].pc # "rotate" /\ UNCHANGED <<cur, log, bak, slot, faults>>
    BY <1>5 DEF CreateAPIToken, Busy
  <2>3. req'[h].pc # "rotate" /\ \A g \in Handlers \ {h} : req'[g] = req[g]
    BY <2>1 DEF Inv, Shape
  <2> QED
    BY <2>2, <2>3, <1>4
<1>6. CASE DeleteAPIToken(h)
  <2>1. PICK l : req' = [req EXCEPT ![h] = [pc |-> "filter", op |-> "delete", list |-> l]]
    BY <1>6 DEF DeleteAPIToken
  <2>2. req[h].pc # "rotate" /\ UNCHANGED <<cur, log, bak, slot, faults>>
    BY <1>6 DEF DeleteAPIToken, Busy
  <2>3. req'[h].pc # "rotate" /\ \A g \in Handlers \ {h} : req'[g] = req[g]
    BY <2>1 DEF Inv, Shape
  <2> QED
    BY <2>2, <2>3, <1>4
<1>7. ASSUME NEW name \in Names, Filter(h, name) PROVE FilesInv'
  <2>1. PICK l : req' = [req EXCEPT ![h] = [pc |-> "save", op |-> "delete", list |-> l]]
    BY <1>7 DEF Filter
  <2>2. req[h].pc # "rotate" /\ UNCHANGED <<cur, log, bak, slot, faults>>
    BY <1>7 DEF Filter
  <2>3. req'[h].pc # "rotate" /\ \A g \in Handlers \ {h} : req'[g] = req[g]
    BY <2>1 DEF Inv, Shape
  <2> QED
    BY <2>2, <2>3, <1>4
<1>8. CASE OnChange(h)
  <2>1. /\ req[h].pc # "rotate" /\ UNCHANGED <<cur, log, bak, slot, faults>>
        /\ req' = [req EXCEPT ![h] = Idle]
    BY <1>8 DEF OnChange
  <2>2. req'[h].pc # "rotate" /\ \A g \in Handlers \ {h} : req'[g] = req[g]
    BY <2>1 DEF Inv, Shape, Idle
  <2> QED
    BY <2>1, <2>2, <1>4
<1>9. CASE Apply(h)
  <2>1. req'[h].pc # "rotate" /\ \A g \in Handlers \ {h} : req'[g] = req[g]
    BY <1>9 DEF Apply, Inv, Shape, Idle
  <2>2. req[h].pc # "rotate" /\ UNCHANGED <<cur, log, bak, slot, faults>>
    BY <1>9 DEF Apply
  <2> QED
    BY <2>1, <2>2, <1>4
<1>10. CASE RotateFails(h)
  <2>1. slot \in Slots
    BY <1>10, ConstantsAssumption DEF RotateFails, FilesInv, BackupsOrdered, Slots
  <2> QED
    BY <1>10, <2>1, FilesCutOff DEF RotateFails
<1>11. CASE PersistFails(h)
  <2>1. slot' = 0 /\ bak' = bak /\ Fault /\ UNCHANGED <<cur, log>>
    BY <1>11 DEF PersistFails
  <2> QED
    BY <2>1, FilesCutOff
<1>12. CASE Replace(h)
  <2>1. /\ Marshal(f).id = Len(log) + 1 /\ There(Marshal(f))
        /\ cur' = Marshal(f) /\ log' = Append(log, Marshal(f))
        /\ UNCHANGED <<bak, slot, faults>> /\ slot = 0 /\ req[h].pc = "rotate"
        /\ req' = [req EXCEPT ![h].pc = "apply"]
    BY <1>12 DEF Replace, Marshal, There
  <2>2. /\ LogInv' /\ BackupsOrdered'
        /\ Len(log) \in Nat /\ Len(log') = Len(log) + 1
        /\ \A k \in 1..Len(log) : log'[k] = log[k]
    <3> HIDE DEF files
    <3> QED
      BY <2>1, LogGrows
  <2>3. Rotating /\ ~Rotating'
    <3>1. \A g \in Handlers : g # h => req[g].pc # "rotate" /\ req'[g] = req[g]
      BY <2>1 DEF Inv, Holder, Shape
    <3>2. req'[h].pc = "apply"
      BY <2>1 DEF Inv, Shape, IsRequest
    <3> QED
      BY <2>1, <3>1, <3>2 DEF Rotating
  <2>4. BackupsExact'
    <3> SUFFICES ASSUME faults = 0, NEW i \in Slots PROVE bak[i] = Before(i)'
      BY <2>1, <2>3 DEF BackupsExact
    <3>1. i \in Nat \ {0}
      BY ConstantsAssumption DEF Slots
    <3>2. bak[i] = Before(i - 1)
      BY <2>1, <2>3, <3>1 DEF FilesInv, BackupsExact
    <3>3. Before(i)' = IF i < Len(log') THEN log'[Len(log') - i] ELSE NoFile
      BY DEF Before
    <3>4. i < Len(log) + 1 => Len(log) + 1 - i \in 1..Len(log)
      BY <2>2, <3>1
    <3> QED
      BY <2>2, <3>1, <3>2, <3>3, <3>4 DEF Before
  <2> QED
    BY <2>1, <2>2, <2>4 DEF FilesInv
<1>13. CASE RotateSlot(h)
  BY <1>13, FilesRotate
<1> QED
  BY <1>1, <1>2, <1>3, <1>5, <1>6, <1>7, <1>8, <1>9, <1>10, <1>11, <1>12, <1>13
     DEF Request, Proceed

\* The files are in order in every state.
LEMMA FilesAlways == Spec => [](Inv /\ FilesInv)
<1>1. Init => FilesInv
  <2> SUFFICES ASSUME Init PROVE FilesInv
    OBVIOUS
  <2>1. Len(log) = 1 /\ log[1] = NoFile /\ cur = NoFile /\ slot = 0 /\ faults = 0
    BY DEF Init
  <2>2. bak = [s \in Slots |-> NoFile] /\ \A i \in Slots : bak[i] = NoFile
    BY DEF Init
  <2>3. ~Rotating
    BY DEF Init, Rotating, Idle
  <2>4. \A i \in Slots : Before(i) = NoFile
    BY <2>1, ConstantsAssumption DEF Before, Slots
  <2> QED
    BY <2>1, <2>2, <2>3, <2>4, ConstantsAssumption
       DEF FilesInv, LogInv, BackupsOrdered, BackupsExact, NoFile
<1>2. Inv /\ FilesInv /\ [Next]_vars => FilesInv'
  <2> SUFFICES ASSUME Inv, FilesInv, [Next]_vars PROVE FilesInv'
    OBVIOUS
  <2>1. CASE UNCHANGED vars
    <3>1. UNCHANGED <<cur, log, bak, slot, faults, req>>
      BY <2>1 DEF vars, files, saving, history
    <3> QED
      BY <3>1, FilesUntouched DEF Rotating
  <2>2. CASE Watch /\ ~WatchReadFails
    <3>1. UNCHANGED <<cur, log, bak, slot, faults, req>>
      BY <2>2 DEF Watch, WatchStart, WatchTick, WatchRead, WatchInstall, WatchOnChange,
         files, saving, history
    <3> QED
      BY <3>1, FilesUntouched DEF Rotating
  <2>5. CASE WatchReadFails
    <3>1. UNCHANGED <<cur, log, bak, slot, req>> /\ faults' \in {faults, faults + 1}
      BY <2>5 DEF WatchReadFails, Fault, files, saving
    <3>2. faults' \in Nat /\ (faults' = 0 => faults = 0)
      BY <3>1 DEF FilesInv
    <3>3. (Rotating' <=> Rotating) /\ \A i : Before(i)' = Before(i)
      BY <3>1 DEF Rotating, Before
    <3>4. LogInv'
      BY <3>1, <3>2 DEF FilesInv, LogInv, There
    <3>5. BackupsOrdered'
      BY <3>1 DEF FilesInv, BackupsOrdered
    <3>6. BackupsExact'
      BY <3>1, <3>2, <3>3 DEF FilesInv, BackupsExact
    <3> QED
      BY <3>2, <3>4, <3>5, <3>6 DEF FilesInv
  <2>3. ASSUME NEW c \in Edits, EditFile(c) PROVE FilesInv'
    <3>1. /\ cur'.id = Len(log) + 1 /\ log' = Append(log, cur')
          /\ UNCHANGED <<bak, slot>> /\ Fault
      BY <2>3 DEF EditFile, saving
    <3>3. faults' \in Nat /\ faults' # 0
      BY <3>1 DEF Fault, FilesInv
    <3>2. LogInv' /\ BackupsOrdered'
      BY <3>1, <3>3, LogGrows
    <3> QED
      BY <3>2, <3>3 DEF FilesInv, BackupsExact
  <2>4. CASE Crash
    <3>1. bak' \in {bak} \cup CutOff(slot) /\ slot' = 0 /\ Fault /\ UNCHANGED <<cur, log>>
      BY <2>4 DEF Crash
    <3>2. slot > 0 \/ bak' = bak
      BY <2>4 DEF Crash
    <3>3. slot \in Slots \/ bak' = bak
      BY <3>2, ConstantsAssumption DEF FilesInv, BackupsOrdered, Slots
    <3> QED
      BY <3>1, <3>3, FilesCutOff
  <2> QED
    BY <2>1, <2>2, <2>3, <2>4, <2>5, FilesHandlers DEF Next
<1> QED
  BY <1>1, <1>2, InvAlways, PTL DEF Spec

\* runtime.json is always the last complete write, whatever crashes or fails; a
\* backup is torn, missing or exactly an earlier write, newer ones in lower
\* slots; and without a fault slot i holds the i-th write before the current
\* one, for any number of backups (persistLocked, rotateBackupsLocked).
THEOREM BackupsAreHistory == Spec => []FilesAreHistory
<1>1. Inv /\ FilesInv => FilesAreHistory
  <2> SUFFICES ASSUME Inv, FilesInv PROVE FilesAreHistory
    OBVIOUS
  <2>1. cur = log[Len(log)]
    BY DEF FilesInv, LogInv
  <2>2. \A i \in Slots : bak[i].id > 0 =>
          /\ bak[i].id <= Len(log) /\ bak[i] = log[bak[i].id]
          /\ \A j \in 1..i : bak[j].id > 0 => bak[j].id >= bak[i].id
    BY DEF FilesInv, BackupsOrdered
  <2>3. lock = 0 => ~Rotating
    BY ConstantsAssumption DEF Inv, Holder, Rotating
  <2>4. faults = 0 /\ lock = 0 => \A i \in Slots : bak[i] = Before(i)
    BY <2>3 DEF FilesInv, BackupsExact
  <2> QED
    BY <2>1, <2>2, <2>4 DEF FilesAreHistory, Before
<1> QED
  BY <1>1, FilesAlways, PTL

-----------------------------------------------------------------------------
(* The refinement: RuntimeConfig implements OverlayStore. *)

\* What the file to be saved is, for the request op: the overlay in memory with
\* one key set, or with no key changed, or a write of the past.
Asked(op) ==
  \/ op \in Keys /\ \E v \in Values : Settings(f) = [Settings(mem) EXCEPT ![op] = v]
  \/ op \in {"create", "delete"} /\ Settings(f) = Settings(mem)
  \/ op = "restore" /\ \E i \in 2..Len(log) : Settings(f) = Settings(log[i])

StoreInv ==
  \A h \in Handlers :
    /\ req[h].pc \in {"filter", "save"} => req[h].op \in {"create", "delete"}
    /\ req[h].pc = "rotate" => Asked(req[h].op)

\* The saver is alone.
LEMMA Alone ==
  ASSUME Inv
  PROVE  /\ lock = 0 => \A g \in Handlers : req[g].pc \notin {"rotate", "apply"}
         /\ \A h \in Handlers : req[h].pc \in {"rotate", "apply"} =>
              \A g \in Handlers : g # h => req[g].pc \notin {"rotate", "apply"}
BY ConstantsAssumption DEF Inv, Holder

\* Steps that leave the settings, the saver and what the watcher has read alone.
LEMMA StoreStutters ==
  ASSUME StoreInv, UNCHANGED <<log, mem, f>>,
         \A g \in Handlers :
           /\ req'[g].pc = "apply" <=> req[g].pc = "apply"
           /\ req'[g].pc = "rotate" <=> req[g].pc = "rotate"
           /\ req[g].pc = "rotate" => req'[g].op = req[g].op
           /\ req'[g].pc \in {"filter", "save"} => req'[g].op \in {"create", "delete"},
         Seen' = Seen
  PROVE  StoreInv' /\ UNCHANGED Store!storeVars
<1>1. StoreInv'
  <2> SUFFICES ASSUME NEW h \in Handlers, req[h].pc = "rotate" PROVE Asked(req[h].op)'
    BY DEF StoreInv
  <2>1. Asked(req[h].op) /\ req'[h].op = req[h].op
    BY DEF StoreInv
  <2> QED
    BY <2>1 DEF Asked, Settings
<1>2. Versions' = Versions
  BY DEF Versions, Settings
<1>4. Overlay' = Overlay
  <2>1. (\E h \in Handlers : req'[h].pc = "apply") <=> (\E h \in Handlers : req[h].pc = "apply")
    OBVIOUS
  <2>2. CASE \E h \in Handlers : req[h].pc = "apply"
    <3>1. Overlay = Settings(f) /\ Overlay' = Settings(f)'
      BY <2>1, <2>2 DEF Overlay
    <3> QED BY <3>1 DEF Settings
  <2>3. CASE ~\E h \in Handlers : req[h].pc = "apply"
    <3>1. Overlay = Settings(mem) /\ Overlay' = Settings(mem)'
      BY <2>1, <2>3 DEF Overlay
    <3> QED BY <3>1 DEF Settings
  <2> QED BY <2>2, <2>3
<1>3. Pending' = Pending
  BY DEF Pending
<1> QED
  BY <1>1, <1>2, <1>3, <1>4 DEF Store!storeVars

\* An interval from 1 has one end.
LEMMA SameInterval ==
  ASSUME NEW a \in Nat, NEW b \in Nat, 1..a = 1..b
  PROVE  a = b
<1>1. (a > 0 => a \in 1..b) /\ (b > 0 => b \in 1..a)
  OBVIOUS
<1> QED
  BY <1>1

\* There is a version for every write.
LEMMA VersionsLength ==
  ASSUME Inv
  PROVE  Len(Versions) = Len(log)
<1>1. Len(log) \in Nat
  BY AppendLength DEF Inv, Shape
<1> DEFINE S == {Settings(log[i]) : i \in 1..Len(log)}
<1>2. Versions \in [1..Len(log) -> S]
  BY DEF Versions
<1> HIDE DEF S
<1>3. Versions \in Seq(S)
  BY <1>1, <1>2, SeqDef
<1>4. Len(Versions) \in Nat /\ 1..Len(Versions) = 1..Len(log)
  BY <1>2, <1>3, LenProperties
<1> QED
  BY <1>1, <1>4, SameInterval

\* The next write of the log is the next version.
LEMMA VersionsGrow ==
  ASSUME Inv, NEW x, log' = Append(log, x)
  PROVE  Versions' = Append(Versions, Settings(x)) /\ Len(Versions) = Len(log)
<1>1. /\ Len(log) \in Nat /\ Len(log') = Len(log) + 1
      /\ \A k \in 1..Len(log) : log'[k] = log[k]
      /\ log'[Len(log) + 1] = x
  BY AppendLength DEF Inv, Shape
<1> DEFINE n == Len(log)
           S == {Settings(log[i]) : i \in 1..n} \cup {Settings(x)}
<1>2. Versions \in Seq(S) /\ Len(Versions) = n /\ Versions' \in Seq(S) /\ Len(Versions') = n + 1
  <2>1. Versions \in [1..n -> S] /\ Versions' \in [1..(n + 1) -> S]
    BY <1>1 DEF Versions, Settings
  <2>2. Versions \in Seq(S) /\ Versions' \in Seq(S)
    <3> HIDE DEF S
    <3>1. n \in Nat /\ n + 1 \in Nat
      BY <1>1
    <3> QED BY <2>1, <3>1, SeqDef
  <2>3. DOMAIN Versions = 1..n /\ DOMAIN Versions' = 1..(n + 1)
    BY <2>1
  <2>4. Len(Versions) \in Nat /\ Len(Versions') \in Nat
        /\ 1..Len(Versions) = 1..n /\ 1..Len(Versions') = 1..(n + 1)
    <3> HIDE DEF S
    <3> QED BY <2>2, <2>3, LenProperties
  <2>5. n \in Nat /\ n + 1 \in Nat
    BY <1>1
  <2> QED BY <2>2, <2>4, <2>5, SameInterval
<1>3. \A i \in 1..n : Versions'[i] = Versions[i]
  BY <1>1 DEF Versions, Settings
<1>4. Versions'[n + 1] = Settings(x)
  BY <1>1 DEF Versions, Settings
<1>5. /\ Append(Versions, Settings(x)) \in Seq(S) /\ Len(Append(Versions, Settings(x))) = n + 1
      /\ \A i \in 1..n : Append(Versions, Settings(x))[i] = Versions[i]
      /\ Append(Versions, Settings(x))[n + 1] = Settings(x)
  <2> HIDE DEF n
  <2> QED BY <1>2, AppendProperties
<1>6. \A i \in 1..(n + 1) : Versions'[i] = Append(Versions, Settings(x))[i]
  BY <1>1, <1>3, <1>4, <1>5
<1> QED
  BY <1>2, <1>5, <1>6, SeqEqual

\* A save begins: it has the lock, and nobody else was saving.
LEMMA StoreBegins ==
  ASSUME Inv, StoreInv, NEW h \in Handlers, NEW op \in Store!Operations, lock = 0,
         \A g \in Handlers \ {h} : req'[g] = req[g],
         req'[h].pc = "rotate", req'[h].op = op, Asked(op)',
         UNCHANGED <<log, mem, watch>>
  PROVE  StoreInv' /\ Store!Begin(op)
<1>1. \A g \in Handlers : req[g].pc \notin {"rotate", "apply"}
  BY Alone
<1>2. \A g \in Handlers : req'[g].pc # "apply" /\ (req'[g].pc = "rotate" <=> g = h)
  BY <1>1
<1>3. StoreInv'
  BY <1>2 DEF StoreInv
<1>4. Pending = {} /\ Pending' = {op}
  BY <1>1, <1>2 DEF Pending
<1>5. Overlay' = Overlay
  <2>1. Overlay = Settings(mem) /\ Overlay' = Settings(mem)'
    BY <1>1, <1>2 DEF Overlay
  <2> QED BY <2>1 DEF Settings
<1>6. Versions' = Versions /\ Seen' = Seen
  BY DEF Versions, Seen, Settings
<1> QED
  BY <1>3, <1>4, <1>5, <1>6 DEF Store!Begin

\* A request is accepted: putConfig and RestoreBackup begin a save.
LEMMA StoreRequest ==
  ASSUME Inv, FilesInv, StoreInv, NEW h \in Handlers, Request(h)
  PROVE  StoreInv' /\ [Store!StoreNext]_(Store!storeVars)
<1>1. ASSUME NEW key \in Keys, NEW v \in Values, PutConfig(h, key, v)
      PROVE  StoreInv' /\ Store!Begin(key) /\ key \in Store!Operations
  <2>1. /\ lock = 0 /\ f' = [mem EXCEPT ![key] = v] /\ UNCHANGED <<log, mem, watch>>
        /\ req' = [req EXCEPT ![h] = [pc |-> "rotate", op |-> key, list |-> Nil]]
    BY <1>1 DEF PutConfig, StartSave, files, memory
  <2>2. /\ \A g \in Handlers \ {h} : req'[g] = req[g]
        /\ req'[h].pc = "rotate" /\ req'[h].op = key
    BY <2>1 DEF Inv, Shape
  <2>3. Asked(key)'
    <3>1. key \in {"names", "ha"} /\ IsOverlay(mem)
      BY ConstantsAssumption DEF Inv, Shape
    <3>2. Settings(f') = [Settings(mem) EXCEPT ![key] = v]
      <4>1. CASE key = "names"
        BY <2>1, <3>1, <4>1 DEF Settings, IsOverlay
      <4>2. CASE key = "ha"
        BY <2>1, <3>1, <4>2 DEF Settings, IsOverlay
      <4> QED BY <3>1, <4>1, <4>2
    <3>3. Settings(f)' = Settings(f') /\ Settings(mem)' = Settings(mem)
      BY <2>1 DEF Settings
    <3> QED BY <3>2, <3>3 DEF Asked
  <2>4. key \in Store!Operations
    BY DEF Store!Operations
  <2> QED
    BY <2>1, <2>2, <2>3, <2>4, StoreBegins
<1>2. ASSUME NEW s \in Slots, RestoreBackup(h, s)
      PROVE  StoreInv' /\ Store!Begin("restore") /\ "restore" \in Store!Operations
  <2>1. /\ lock = 0 /\ f' = Unmarshal(bak[s], Fresh) /\ bak[s].id > 0
        /\ UNCHANGED <<log, mem, watch>>
        /\ req' = [req EXCEPT ![h] = [pc |-> "rotate", op |-> "restore", list |-> Nil]]
    BY <1>2 DEF RestoreBackup, StartSave, files, memory
  <2>2. /\ \A g \in Handlers \ {h} : req'[g] = req[g]
        /\ req'[h].pc = "rotate" /\ req'[h].op = "restore"
    BY <2>1 DEF Inv, Shape
  <2>3. bak[s].id \in 2..Len(log) /\ bak[s] = log[bak[s].id]
    <3>1. bak[s].id \in Int /\ bak[s].id <= Len(log) /\ bak[s] = log[bak[s].id]
      BY <2>1 DEF FilesInv, BackupsOrdered
    <3>2. bak[s].id # 1
      BY <3>1 DEF FilesInv, LogInv, NoFile
    <3>3. Len(log) \in Nat
      BY AppendLength DEF Inv, Shape
    <3> QED BY <2>1, <3>1, <3>2, <3>3
  <2>4. Asked("restore")'
    <3>1. Settings(f)' = Settings(log[bak[s].id])
      BY <2>1, <2>3 DEF Settings, Unmarshal
    <3>2. \A i : Settings(log[i])' = Settings(log[i])
      BY <2>1 DEF Settings
    <3> QED BY <2>1, <2>3, <3>1, <3>2 DEF Asked
  <2>5. "restore" \in Store!Operations
    BY DEF Store!Operations
  <2> QED
    BY <2>1, <2>2, <2>4, <2>5, StoreBegins
<1>3. ASSUME UNCHANGED <<log, mem, f, watch>>, ~Busy(h),
             \A g \in Handlers \ {h} : req'[g] = req[g],
             req'[h].pc \in {"save", "filter"}, req'[h].op \in {"create", "delete"}
      PROVE  StoreInv' /\ UNCHANGED Store!storeVars
  <2>1. Seen' = Seen
    BY <1>3 DEF Seen, Settings
  <2>2. \A g \in Handlers :
          /\ req'[g].pc = "apply" <=> req[g].pc = "apply"
          /\ req'[g].pc = "rotate" <=> req[g].pc = "rotate"
          /\ req[g].pc = "rotate" => req'[g].op = req[g].op
          /\ req'[g].pc \in {"filter", "save"} => req'[g].op \in {"create", "delete"}
    BY <1>3 DEF StoreInv, Busy
  <2> QED
    BY <1>3, <2>1, <2>2, StoreStutters
<1>4. ASSUME NEW name \in Names, CreateAPIToken(h, name)
      PROVE  StoreInv' /\ UNCHANGED Store!storeVars
  <2>1. PICK l : req' = [req EXCEPT ![h] = [pc |-> "save", op |-> "create", list |-> l]]
    BY <1>4 DEF CreateAPIToken
  <2>2. ~Busy(h) /\ UNCHANGED <<log, mem, f, watch>>
    BY <1>4 DEF CreateAPIToken, files, memory, saving
  <2>3. /\ req'[h].pc = "save" /\ req'[h].op = "create"
        /\ \A g \in Handlers \ {h} : req'[g] = req[g]
    BY <2>1 DEF Inv, Shape
  <2> QED
    BY <1>3, <2>2, <2>3
<1>5. ASSUME DeleteAPIToken(h) PROVE StoreInv' /\ UNCHANGED Store!storeVars
  <2>1. PICK l : req' = [req EXCEPT ![h] = [pc |-> "filter", op |-> "delete", list |-> l]]
    BY <1>5 DEF DeleteAPIToken
  <2>2. ~Busy(h) /\ UNCHANGED <<log, mem, f, watch>>
    BY <1>5 DEF DeleteAPIToken, files, memory, saving
  <2>3. /\ req'[h].pc = "filter" /\ req'[h].op = "delete"
        /\ \A g \in Handlers \ {h} : req'[g] = req[g]
    BY <2>1 DEF Inv, Shape
  <2> QED
    BY <1>3, <2>2, <2>3
<1> QED
  BY <1>1, <1>2, <1>4, <1>5 DEF Request, Store!StoreNext

\* The rename adds the version that the request asked for.
LEMMA StoreReplaces ==
  ASSUME Inv, StoreInv, NEW h \in Handlers, Replace(h)
  PROVE  StoreInv' /\ Store!Commit(req[h].op) /\ req[h].op \in Store!Operations
<1> DEFINE op == req[h].op
<1>1. /\ req[h].pc = "rotate" /\ log' = Append(log, Marshal(f))
      /\ f' = [f EXCEPT !.id = Len(log) + 1]
      /\ req' = [req EXCEPT ![h].pc = "apply"] /\ UNCHANGED <<mem, watch>>
  BY DEF Replace, memory
<1>2. /\ \A g \in Handlers \ {h} : req'[g] = req[g] /\ req[g].pc \notin {"rotate", "apply"}
      /\ req'[h].pc = "apply" /\ req'[h].op = op
  BY <1>1, Alone DEF Inv, Shape, IsRequest
<1>3. \A g \in Handlers : req[g].pc # "apply" /\ (req[g].pc = "rotate" <=> g = h)
                          /\ req'[g].pc # "rotate"
  BY <1>1, <1>2
<1>4. StoreInv'
  BY <1>2, <1>3 DEF StoreInv
<1>5. Pending = {op} /\ Pending' = {}
  BY <1>3 DEF Pending
<1>6. Settings(f)' = Settings(f) /\ Settings(Marshal(f)) = Settings(f)
  BY <1>1 DEF Settings, Marshal, Inv, Shape, IsOverlay
<1>7. Overlay = Settings(mem) /\ Overlay' = Settings(f)
  <2>1. Overlay = Settings(mem)
    BY <1>3 DEF Overlay
  <2>2. Overlay' = Settings(f)'
    BY <1>2 DEF Overlay
  <2> QED BY <1>6, <2>1, <2>2
<1>8. Versions' = Append(Versions, Overlay') /\ Len(Versions) = Len(log)
  BY <1>1, <1>6, <1>7, VersionsGrow
<1>9. Store!Changed(op)
  <2>1. Asked(op)
    BY <1>1 DEF StoreInv
  <2>2. ASSUME NEW i \in 2..Len(log) PROVE Versions[i] = Settings(log[i])
    <3>1. Len(log) \in Nat
      BY AppendLength DEF Inv, Shape
    <3>2. i \in 1..Len(log)
      BY <3>1
    <3> QED BY <3>2 DEF Versions
  <2> HIDE DEF op
  <2> QED
    BY <1>7, <1>8, <2>1, <2>2 DEF Asked, Store!Changed
<1>10. op \in Store!Operations
  <2>1. Asked(op)
    BY <1>1 DEF StoreInv
  <2> QED BY <2>1 DEF Asked, Store!Operations
<1>11. Seen' = Seen
  BY <1>1 DEF Seen, Settings
<1> QED
  BY <1>4, <1>5, <1>8, <1>9, <1>10, <1>11 DEF Store!Commit

\* A save that fails adds nothing.
LEMMA StoreFails ==
  ASSUME Inv, StoreInv, NEW h \in Handlers, PersistFails(h)
  PROVE  StoreInv' /\ Store!Fail(req[h].op) /\ req[h].op \in Store!Operations
<1> DEFINE op == req[h].op
<1>1. req[h].pc = "rotate" /\ req' = [req EXCEPT ![h] = Idle] /\ UNCHANGED <<log, mem, watch>>
  BY DEF PersistFails, files, memory
<1>2. /\ \A g \in Handlers \ {h} : req'[g] = req[g] /\ req[g].pc \notin {"rotate", "apply"}
      /\ req'[h].pc = "idle"
  BY <1>1, Alone DEF Inv, Shape, Idle
<1>3. \A g \in Handlers : req[g].pc # "apply" /\ (req[g].pc = "rotate" <=> g = h)
                          /\ req'[g].pc \notin {"rotate", "apply"}
  BY <1>1, <1>2
<1>4. StoreInv'
  BY <1>2, <1>3 DEF StoreInv
<1>5. Pending = {op} /\ Pending' = {}
  BY <1>3 DEF Pending
<1>6. Overlay' = Overlay
  <2>1. Overlay = Settings(mem) /\ Overlay' = Settings(mem)'
    BY <1>3 DEF Overlay
  <2> QED BY <1>1, <2>1 DEF Settings
<1>7. Versions' = Versions /\ Seen' = Seen
  BY <1>1 DEF Versions, Seen, Settings
<1>8. op \in Store!Operations
  <2>1. Asked(op)
    BY <1>1 DEF StoreInv
  <2> QED BY <2>1 DEF Asked, Store!Operations
<1> QED
  BY <1>4, <1>5, <1>6, <1>7, <1>8 DEF Store!Fail

\* Every step of a request is a step of the store or none.
LEMMA StoreProceed ==
  ASSUME Inv, StoreInv, NEW h \in Handlers, Proceed(h)
  PROVE  StoreInv' /\ [Store!StoreNext]_(Store!storeVars)
<1>1. ASSUME UNCHANGED <<log, mem, f, watch>>,
             \A g \in Handlers \ {h} : req'[g] = req[g],
             req[h].pc # "apply", req'[h].pc # "apply",
             req'[h].pc = "rotate" <=> req[h].pc = "rotate",
             req[h].pc = "rotate" => req'[h] = req[h],
             req'[h].pc \in {"filter", "save"} => req'[h].op \in {"create", "delete"}
      PROVE  StoreInv' /\ UNCHANGED Store!storeVars
  <2>1. Seen' = Seen
    BY <1>1 DEF Seen, Settings
  <2>2. \A g \in Handlers :
          /\ req'[g].pc = "apply" <=> req[g].pc = "apply"
          /\ req'[g].pc = "rotate" <=> req[g].pc = "rotate"
          /\ req[g].pc = "rotate" => req'[g].op = req[g].op
          /\ req'[g].pc \in {"filter", "save"} => req'[g].op \in {"create", "delete"}
    BY <1>1 DEF StoreInv
  <2> QED
    BY <1>1, <2>1, <2>2, StoreStutters
<1>2. ASSUME NEW name \in Names, Filter(h, name) PROVE StoreInv' /\ UNCHANGED Store!storeVars
  <2>1. PICK l : req' = [req EXCEPT ![h] = [pc |-> "save", op |-> "delete", list |-> l]]
    BY <1>2 DEF Filter
  <2>2. req[h].pc = "filter" /\ UNCHANGED <<log, mem, f, watch>>
    BY <1>2 DEF Filter, files, memory, saving
  <2>3. /\ req'[h].pc = "save" /\ req'[h].op = "delete"
        /\ \A g \in Handlers \ {h} : req'[g] = req[g]
    BY <2>1 DEF Inv, Shape
  <2> QED BY <1>1, <2>2, <2>3
<1>3. ASSUME SaveTokens(h)
      PROVE  StoreInv' /\ Store!Begin(req[h].op) /\ req[h].op \in Store!Operations
  <2>1. /\ req[h].pc = "save" /\ lock = 0 /\ UNCHANGED <<log, mem, watch>>
        /\ f' = IF req[h].list = Nil THEN mem ELSE [mem EXCEPT !.tokens = req[h].list]
        /\ req' = [req EXCEPT ![h].pc = "rotate", ![h].list = Nil]
    BY <1>3 DEF SaveTokens, StartSave, files, memory
  <2>2. /\ \A g \in Handlers \ {h} : req'[g] = req[g]
        /\ req'[h].pc = "rotate" /\ req'[h].op = req[h].op
    BY <2>1 DEF Inv, Shape, IsRequest
  <2>3. req[h].op \in {"create", "delete"}
    BY <2>1 DEF StoreInv
  <2>4. Settings(f)' = Settings(mem) /\ Settings(mem)' = Settings(mem)
    BY <2>1 DEF Settings, Inv, Shape, IsOverlay
  <2>5. \A op \in {"create", "delete"} : Asked(op)'
    BY <2>4 DEF Asked
  <2>6. PICK op \in Store!Operations : op = req[h].op /\ req'[h].op = op /\ Asked(op)'
    BY <2>2, <2>3, <2>5 DEF Store!Operations
  <2> QED
    BY <2>1, <2>2, <2>6, StoreBegins
<1>4. ASSUME RotateSlot(h) \/ RotateFails(h) PROVE StoreInv' /\ UNCHANGED Store!storeVars
  <2>1. req[h].pc = "rotate" /\ UNCHANGED <<log, mem, f, watch, req>>
    BY <1>4 DEF RotateSlot, RotateFails, memory
  <2>2. req'[h] = req[h] /\ \A g \in Handlers \ {h} : req'[g] = req[g]
    BY <2>1
  <2> QED BY <1>1, <2>1, <2>2
<1>5. ASSUME Apply(h) PROVE StoreInv' /\ UNCHANGED Store!storeVars
  <2>1. /\ req[h].pc = "apply" /\ mem' = f /\ UNCHANGED <<log, watch>>
        /\ req' = [req EXCEPT ![h] = IF req[h].op = "restore" THEN Idle
                    ELSE [pc |-> "announce", op |-> req[h].op, list |-> Nil]]
    BY <1>5 DEF Apply, files
  <2>2. /\ \A g \in Handlers \ {h} : req'[g] = req[g] /\ req[g].pc \notin {"rotate", "apply"}
        /\ req'[h].pc \in {"idle", "announce"}
    BY <2>1, Alone DEF Inv, Shape, Idle
  <2>3. \A g \in Handlers : req'[g].pc \notin {"rotate", "apply"} /\ req[g].pc # "rotate"
    BY <2>1, <2>2
  <2>4. StoreInv'
    BY <2>2, <2>3 DEF StoreInv
  <2>5. Pending' = Pending
    BY <2>3 DEF Pending
  <2>6. Overlay' = Overlay
    <3>1. Overlay = Settings(f)
      BY <2>1 DEF Overlay
    <3>2. Overlay' = Settings(mem)'
      BY <2>3 DEF Overlay
    <3> QED BY <2>1, <3>1, <3>2 DEF Settings
  <2>7. Versions' = Versions /\ Seen' = Seen
    BY <2>1 DEF Versions, Seen, Settings
  <2> QED
    BY <2>4, <2>5, <2>6, <2>7 DEF Store!storeVars
<1>6. ASSUME OnChange(h) PROVE StoreInv' /\ UNCHANGED Store!storeVars
  <2>1. /\ req[h].pc = "announce" /\ UNCHANGED <<log, mem, f, watch>>
        /\ req' = [req EXCEPT ![h] = Idle]
    BY <1>6 DEF OnChange, files, saving
  <2>2. req'[h].pc = "idle" /\ \A g \in Handlers \ {h} : req'[g] = req[g]
    BY <2>1 DEF Inv, Shape, Idle
  <2> QED BY <1>1, <2>1, <2>2
<1> QED
  BY <1>2, <1>3, <1>4, <1>5, <1>6, StoreReplaces, StoreFails DEF Proceed, Store!StoreNext

\* So are the watcher's steps, an edit of the file and a crash.
LEMMA StoreOutside ==
  ASSUME Inv, FilesInv, StoreInv, Watch \/ Crash \/ \E c \in Edits : EditFile(c)
  PROVE  StoreInv' /\ [Store!StoreNext]_(Store!storeVars)
<1>0. /\ Len(log) \in Nat \ {0} /\ cur = log[Len(log)]
      /\ Len(Versions) = Len(log) /\ Store!Newest = Settings(cur)
  <2>1. Len(log) \in Nat \ {0} /\ cur = log[Len(log)]
    BY AppendLength DEF Inv, Shape, FilesInv, LogInv
  <2>2. Len(Versions) = Len(log)
    BY VersionsLength
  <2>3. Versions[Len(log)] = Settings(cur)
    BY <2>1 DEF Versions
  <2> QED BY <2>1, <2>2, <2>3 DEF Store!Newest
<1>1. ASSUME UNCHANGED <<log, mem, f, req>>, Seen' = Seen
      PROVE  StoreInv' /\ UNCHANGED Store!storeVars
  <2>1. \A g \in Handlers : req'[g] = req[g]
    BY <1>1
  <2>2. \A g \in Handlers : req[g].pc \in {"filter", "save"} => req[g].op \in {"create", "delete"}
    BY DEF StoreInv
  <2> QED BY <1>1, <2>1, <2>2, StoreStutters
<1>2. ASSUME WatchStart \/ WatchTick \/ WatchReadFails \/ WatchOnChange
      PROVE  StoreInv' /\ UNCHANGED Store!storeVars
  <2>1. /\ watch.pc # "install" /\ watch'.pc # "install"
        /\ UNCHANGED <<log, mem, f, req>>
    BY <1>2 DEF WatchStart, WatchTick, WatchReadFails, WatchOnChange, files, memory, saving,
       Inv, Shape, IsWatcher
  <2>2. Seen' = Seen
    BY <2>1 DEF Seen
  <2> QED BY <1>1, <2>1, <2>2
<1>3. ASSUME WatchRead PROVE StoreInv' /\ Store!Look
  <2>1. watch'.pc = "install" /\ watch'.buf = cur /\ UNCHANGED <<log, mem, f, req>>
    BY <1>3 DEF WatchRead, files, memory, saving, Inv, Shape, IsWatcher
  <2>2. Seen' = {Settings(cur)}
    BY <2>1 DEF Seen, Settings
  <2>3. StoreInv'
    BY <2>1 DEF StoreInv, Asked, Settings
  <2>4. Versions' = Versions /\ Pending' = Pending
    BY <2>1 DEF Versions, Pending, Settings
  <2>5. Overlay' = Overlay
    BY <2>1 DEF Overlay, Settings
  <2> QED BY <1>0, <2>2, <2>3, <2>4, <2>5 DEF Store!Look
<1>4. ASSUME WatchInstall PROVE StoreInv' /\ Store!Install
  <2>1. /\ watch.pc = "install" /\ watch'.pc = "announce" /\ lock = 0
        /\ mem' = Unmarshal(watch.buf, Fresh) /\ UNCHANGED <<log, req>>
    BY <1>4 DEF WatchInstall, files, Inv, Shape, IsWatcher
  <2>2. \A g \in Handlers : req[g].pc \notin {"rotate", "apply"}
    BY <2>1, Alone
  <2>3. StoreInv'
    BY <2>1, <2>2 DEF StoreInv
  <2>4. Seen = {Settings(watch.buf)} /\ Seen' = {}
    BY <2>1 DEF Seen
  <2>5. Pending = {} /\ Pending' = {}
    BY <2>1, <2>2 DEF Pending
  <2>6. Overlay' = Settings(watch.buf)
    <3>1. Overlay' = Settings(mem)'
      BY <2>1, <2>2 DEF Overlay
    <3> QED BY <2>1, <3>1 DEF Settings, Unmarshal
  <2>7. Versions' = Versions
    BY <2>1 DEF Versions, Settings
  <2> QED BY <2>3, <2>4, <2>5, <2>6, <2>7 DEF Store!Install
<1>5. ASSUME NEW c \in Edits, EditFile(c) PROVE StoreInv' /\ Store!Add(Settings(c))
  <2>1. /\ log' = Append(log, cur') /\ Settings(cur') = Settings(c)
        /\ UNCHANGED <<mem, f, req, watch>>
    BY <1>5 DEF EditFile, memory, saving, Settings
  <2>2. Versions' = Append(Versions, Settings(c))
    BY <2>1, VersionsGrow
  <2>3. StoreInv'
    <3>1. /\ Len(log') = Len(log) + 1 /\ \A k \in 1..Len(log) : log'[k] = log[k]
      BY <2>1, AppendLength DEF Inv, Shape
    <3>2. \A i \in 2..Len(log) : i \in 2..Len(log') /\ log'[i] = log[i]
      BY <1>0, <3>1
    <3> SUFFICES ASSUME NEW h \in Handlers, req[h].pc = "rotate" PROVE Asked(req[h].op)'
      BY <2>1 DEF StoreInv
    <3>3. Asked(req[h].op)
      BY DEF StoreInv
    <3> QED BY <2>1, <3>2, <3>3 DEF Asked, Settings
  <2>4. Seen' = Seen /\ Pending' = Pending
    BY <2>1 DEF Seen, Pending, Settings
  <2>5. Overlay' = Overlay
    BY <2>1 DEF Overlay, Settings
  <2> QED BY <2>2, <2>3, <2>4, <2>5 DEF Store!Add
<1>6. ASSUME Crash PROVE StoreInv' /\ Store!Restart
  <2>1. /\ mem' = Unmarshal(cur, 1) /\ req' = [h \in Handlers |-> Idle]
        /\ watch'.pc = "start" /\ UNCHANGED log
    BY <1>6 DEF Crash
  <2>2. \A g \in Handlers : req'[g].pc = "idle"
    BY <2>1 DEF Idle
  <2>3. StoreInv'
    BY <2>2 DEF StoreInv
  <2>4. Pending' = {} /\ Seen' = {}
    BY <2>1, <2>2 DEF Pending, Seen
  <2>5. Overlay' = Settings(cur)
    <3>1. Overlay' = Settings(mem)'
      BY <2>2 DEF Overlay
    <3> QED BY <2>1, <3>1 DEF Settings, Unmarshal
  <2>6. Versions' = Versions
    BY <2>1 DEF Versions, Settings
  <2> QED BY <1>0, <2>3, <2>4, <2>5, <2>6 DEF Store!Restart
<1>7. \A c \in Edits : Settings(c) \in {Settings(d) : d \in Edits}
  OBVIOUS
<1> QED
  BY <1>2, <1>3, <1>4, <1>5, <1>6, <1>7 DEF Watch, Store!StoreNext

\* The file with its backups and the overlay in memory are a store of versions: a
\* save that succeeds adds, in one step, the overlay with nothing but its key changed,
\* or a backup as it was; one that fails changes nothing; nothing is lost in a crash
\* (SaveOverlay, RestoreBackup, persistLocked, loadAndApply).
THEOREM OverlayIsStore == Spec => ImplementsStore
<1>1. Init => StoreInv /\ Store!StoreInit
  <2> SUFFICES ASSUME Init PROVE StoreInv /\ Store!StoreInit
    OBVIOUS
  <2>1. \A h \in Handlers : req[h].pc = "idle"
    BY DEF Init, Idle
  <2>2. StoreInv
    BY <2>1 DEF StoreInv
  <2>3. Pending = {} /\ Seen = {}
    BY <2>1 DEF Init, Pending, Seen
  <2>4. Overlay = Settings(NoFile)
    <3>1. Overlay = Settings(mem)
      BY <2>1 DEF Overlay
    <3> QED BY <3>1 DEF Init, Settings, Empty, NoFile
  <2>5. Versions = <<Settings(NoFile)>>
    <3>1. Len(log) = 1 /\ log[1] = NoFile
      BY DEF Init
    <3> QED BY <3>1 DEF Versions
  <2> QED BY <2>2, <2>3, <2>4, <2>5 DEF Store!StoreInit
<1>2. Inv /\ FilesInv /\ StoreInv /\ [Next]_vars
        => StoreInv' /\ [Store!StoreNext]_(Store!storeVars)
  <2> SUFFICES ASSUME Inv, FilesInv, StoreInv, [Next]_vars
               PROVE  StoreInv' /\ [Store!StoreNext]_(Store!storeVars)
    OBVIOUS
  <2>1. CASE UNCHANGED vars
    <3>1. UNCHANGED <<log, mem, f, req, watch>>
      BY <2>1 DEF vars, files, memory, saving
    <3>2. Seen' = Seen
      BY <3>1 DEF Seen, Settings
    <3>3. \A g \in Handlers : req'[g] = req[g]
      BY <3>1
    <3>4. \A g \in Handlers : req[g].pc \in {"filter", "save"} => req[g].op \in {"create", "delete"}
      BY DEF StoreInv
    <3> QED BY <3>1, <3>2, <3>3, <3>4, StoreStutters
  <2> QED
    BY <2>1, StoreRequest, StoreProceed, StoreOutside DEF Next
<1> QED
  BY <1>1, <1>2, FilesAlways, PTL DEF Spec, ImplementsStore, Store!StoreSpec

-----------------------------------------------------------------------------
(* The token lists in memory. *)

\* A Go slice: nil, or a prefix of an array of the heap H; and what it holds.
IsSlice(H, s) ==
  \/ s = Nil
  \/ /\ s = [arr |-> s.arr, len |-> s.len] /\ s.arr \in Arrays
     /\ s.len \in Nat /\ s.len <= Len(H[s.arr])

ContentsIn(H, s) == SubSeq(H[s.arr], 1, s.len)

Heaps == [Arrays -> Seq(Names)]

\* What a file says about the tokens.
IsList(t) == t = Absent \/ t \in Seq(Names)

\* Every list in memory is a slice of an array, every list on disk a sequence of
\* names; an idle request holds nothing, and only a deletion filters.
HeapInv ==
  /\ heap \in Heaps
  /\ IsSlice(heap, mem.tokens) /\ IsSlice(heap, f.tokens)
  /\ \A h \in Handlers : IsSlice(heap, req[h].list)
  /\ opts.tokens \in Seq(Names)
  /\ IsList(cur.tokens) /\ IsList(watch.buf.tokens) /\ \A i \in Slots : IsList(bak[i].tokens)
  /\ \A h \in Handlers : req[h].pc = "idle" => req[h] = Idle
  /\ \A h \in Handlers : req[h].pc = "filter" => req[h].op = "delete"

\* No deletion is between its start and its end.
Quiet == \A h \in Handlers : req[h].op = "delete" => req[h].pc = "announce"

\* A file that is not there has no keys.
Bare(g) == ~There(g) => g.names = Absent /\ g.ha = Absent /\ g.tokens = Absent

IsOptions(o) ==
  o = [names |-> o.names, ha |-> o.ha, tokens |-> o.tokens, source |-> o.source, kept |-> o.kept]

\* What applyLocked left in Options is the overlay's, except for the tokens while
\* a deletion moves them about; and unless the file it came from was gone when
\* the watcher read it.
OptInv ==
  /\ Bare(cur) /\ Bare(watch.buf)
  /\ IsOptions(opts)
  /\ opts.source = IF mem.tokens = Nil THEN "env" ELSE "runtime"
  /\ ~opts.kept =>
       /\ opts.names = IF mem.names = Absent THEN 0 ELSE mem.names
       /\ mem.ha # Absent => opts.ha = mem.ha
       /\ mem.tokens = Nil => opts.tokens = EnvTokens
  /\ ~overlapped /\ Quiet /\ mem.tokens # Nil => opts.tokens = ContentsIn(heap, mem.tokens)

DistinctSlice(H, s) == s = Nil \/ IsInjective(ContentsIn(H, s))
DistinctList(t) == t = Absent \/ IsInjective(t)

\* A deletion that meets nobody is alone.
Solo ==
  \A h, g \in Handlers : req[h].op = "delete" /\ g # h => req[g].pc = "idle"

\* No deletion has moved the entries of the array that the overlay refers to.
Intact ==
  \A h \in Handlers : req[h].op = "delete" /\ req[h].pc \in {"save", "rotate", "apply"} =>
    req[h].pc = "save" /\ req[h].list.arr # mem.tokens.arr

\* Without an overlap, every list that is or will be saved has distinct names.
NamesInv ==
  ~overlapped =>
    /\ Solo
    /\ IsInjective(opts.tokens)
    /\ DistinctList(cur.tokens) /\ DistinctList(watch.buf.tokens)
    /\ \A i \in Slots : DistinctList(bak[i].tokens)
    /\ \A h \in Handlers : req[h].pc \in {"filter", "save"} => DistinctSlice(heap, req[h].list)
    /\ \A h \in Handlers : req[h].pc \in {"rotate", "apply"} => DistinctSlice(heap, f.tokens)
    /\ Intact => DistinctSlice(heap, mem.tokens)

\* The k-th of I exists, is different for every k, and k is bounded.
LEMMA NthProperties ==
  ASSUME NEW n \in Nat, NEW I \in SUBSET (1..n)
  PROVE  /\ Cardinality(I) \in Nat /\ Cardinality(I) <= n
         /\ \A k \in 1..Cardinality(I) : Nth(I, k) \in I
         /\ \A k, l \in 1..Cardinality(I) : Nth(I, k) = Nth(I, l) => k = l
<1> DEFINE Upto(i) == {j \in I : j <= i}
           rank == [i \in I |-> Cardinality(Upto(i))]
           N == Cardinality(I)
<1>1. IsFiniteSet(I) /\ N \in Nat /\ N <= n
  <2>1. IsFiniteSet(1..n) /\ Cardinality(1..n) = n
    BY FS_Interval
  <2>2. IsFiniteSet(I) /\ N <= n
    BY <2>1, FS_Subset
  <2> QED
    BY <2>2, FS_CardinalityType
<1>2. \A i \in I : IsFiniteSet(Upto(i)) /\ Cardinality(Upto(i)) \in 1..N
  <2> SUFFICES ASSUME NEW i \in I
               PROVE  IsFiniteSet(Upto(i)) /\ Cardinality(Upto(i)) \in 1..N
    OBVIOUS
  <2>1. Upto(i) \in SUBSET I /\ i \in Upto(i)
    OBVIOUS
  <2> HIDE DEF Upto
  <2>2. IsFiniteSet(Upto(i)) /\ Cardinality(Upto(i)) <= N
    BY <1>1, <2>1, FS_Subset
  <2>3. Cardinality(Upto(i)) \in Nat
    BY <2>2, FS_CardinalityType
  <2>4. Cardinality(Upto(i)) # 0
    <3>1. Upto(i) # {}
      BY <2>1
    <3> QED
      BY <2>2, <3>1, FS_EmptySet, Zenon
  <2> QED
    BY <1>1, <2>2, <2>3, <2>4
<1>3. ASSUME NEW i \in I, NEW j \in I, i < j PROVE Cardinality(Upto(i)) # Cardinality(Upto(j))
  <2>1. Upto(i) \in SUBSET Upto(j) /\ j \in Upto(j) /\ j \notin Upto(i)
    <3>1. \A k \in I : k \in Int
      OBVIOUS
    <3>2. i \in Int /\ j \in Int /\ ~(j <= i) /\ j <= j
      BY <1>3, <3>1
    <3>3. \A k \in I : k <= i => k <= j
      BY <1>3, <3>1, <3>2
    <3> QED
      BY <3>2, <3>3
  <2>2. IsFiniteSet(Upto(j))
    BY <1>2
  <2> HIDE DEF Upto
  <2> QED
    BY <2>1, <2>2, FS_Subset
<1>4. \A i, j \in I : Cardinality(Upto(i)) = Cardinality(Upto(j)) => i = j
  <2>1. \A i, j \in I : i # j => i < j \/ j < i
    OBVIOUS
  <2> HIDE DEF Upto
  <2> QED
    BY <1>3, <2>1
<1>5. rank \in Injection(I, 1..N)
  <2> HIDE DEF Upto, N
  <2>1. rank \in [I -> 1..N]
    BY <1>2
  <2>2. \A i, j \in I : rank[i] = rank[j] => i = j
    BY <1>4
  <2> HIDE DEF rank
  <2> QED
    BY <2>1, <2>2 DEF Injection, IsInjective
<1>6. rank \in Surjection(I, 1..N)
  <2>1. IsFiniteSet(1..N) /\ Cardinality(1..N) = N
    BY <1>1, FS_Interval
  <2> HIDE DEF rank
  <2> QED
    BY <1>5, <2>1, FS_Injection
<1>7. \A k \in 1..N : \E i \in I : Cardinality(Upto(i)) = k
  <2> SUFFICES ASSUME NEW k \in 1..N PROVE \E i \in I : rank[i] = k
    OBVIOUS
  <2> HIDE DEF rank, N
  <2> QED
    BY <1>6 DEF Surjection
<1>8. \A k \in 1..N : Nth(I, k) \in I /\ Cardinality(Upto(Nth(I, k))) = k
  BY <1>7 DEF Nth
<1> QED
  <2> HIDE DEF Upto
  <2> QED
    BY <1>1, <1>8

\* What is kept of a sequence is a sequence, no longer, and without repetition
\* if the sequence was.
LEMMA KeptProperties ==
  ASSUME NEW S, NEW s \in Seq(S), NEW I \in SUBSET (1..Len(s))
  PROVE  /\ Kept(s, I) \in Seq(S)
         /\ Len(Kept(s, I)) = Cardinality(I)
         /\ Cardinality(I) <= Len(s)
         /\ IsInjective(s) => IsInjective(Kept(s, I))
<1>1. /\ Cardinality(I) \in Nat /\ Cardinality(I) <= Len(s)
      /\ \A k \in 1..Cardinality(I) : Nth(I, k) \in I
      /\ \A k, l \in 1..Cardinality(I) : Nth(I, k) = Nth(I, l) => k = l
  BY NthProperties
<1>2. \A k \in 1..Cardinality(I) : s[Nth(I, k)] \in S
  <2>1. \A i \in I : s[i] \in S
    OBVIOUS
  <2> QED
    BY <1>1, <2>1
<1>3. Kept(s, I) \in [1..Cardinality(I) -> S]
  BY <1>2 DEF Kept
<1>4. Kept(s, I) \in Seq(S)
  BY <1>1, <1>3
<1>5. DOMAIN Kept(s, I) = 1..Cardinality(I)
  BY <1>3
<1>6. Len(Kept(s, I)) \in Nat /\ DOMAIN Kept(s, I) = 1..Len(Kept(s, I))
  BY <1>4, LenProperties
<1>7. Len(Kept(s, I)) = Cardinality(I)
  BY <1>1, <1>5, <1>6
<1>8. ASSUME IsInjective(s) PROVE IsInjective(Kept(s, I))
  <2>1. \A k \in 1..Cardinality(I) : Kept(s, I)[k] = s[Nth(I, k)] /\ Nth(I, k) \in DOMAIN s
    <3>1. DOMAIN s = 1..Len(s)
      OBVIOUS
    <3> QED
      BY <1>1, <3>1 DEF Kept
  <2>2. \A k, l \in DOMAIN Kept(s, I) : Kept(s, I)[k] = Kept(s, I)[l] => k = l
    BY <1>1, <1>5, <1>8, <2>1 DEF IsInjective
  <2> QED
    BY <2>2 DEF IsInjective
<1> QED
  BY <1>1, <1>4, <1>7, <1>8

\* There is always an array nothing refers to.
LEMMA FreshExists == Fresh \in Arrays /\ Fresh \notin Referred
<1> DEFINE n == Cardinality(Handlers)
           ref == [h \in Handlers |-> req[h].list.arr]
           image == {req[h].list.arr : h \in Handlers}
<1>1. IsFiniteSet(Handlers) /\ n \in Nat \ {0}
  <2>1. IsFiniteSet(Handlers) /\ Handlers # {}
    BY ConstantsAssumption
  <2>2. n # 0
    BY <2>1, FS_EmptySet, Zenon
  <2> QED
    BY <2>1, <2>2, FS_CardinalityType
<1>2. IsFiniteSet(image) /\ Cardinality(image) <= n /\ Cardinality(image) \in Nat
  <2>1. ref \in Surjection(Handlers, image)
    BY DEF Surjection
  <2> HIDE DEF ref, image
  <2>2. IsFiniteSet(image) /\ Cardinality(image) <= n
    BY <1>1, <2>1, FS_Surjection
  <2> QED
    BY <2>2, FS_CardinalityType
<1>3. IsFiniteSet(Referred) /\ Cardinality(Referred) <= n + 2 /\ Cardinality(Referred) \in Nat
  <2> DEFINE one == image \cup {mem.tokens.arr}
  <2>1. Referred = one \cup {f.tokens.arr}
    BY DEF Referred
  <2> HIDE DEF image, n
  <2>2. IsFiniteSet(one) /\ Cardinality(one) <= Cardinality(image) + 1 /\ Cardinality(one) \in Nat
    <3>1. IsFiniteSet(one)
      BY <1>2, FS_AddElement
    <3>2. Cardinality(one) \in Nat
      BY <3>1, FS_CardinalityType
    <3> QED
      BY <1>2, <3>1, <3>2, FS_AddElement
  <2> HIDE DEF one
  <2>3. /\ IsFiniteSet(one \cup {f.tokens.arr})
        /\ Cardinality(one \cup {f.tokens.arr}) <= Cardinality(one) + 1
    BY <2>2, FS_AddElement
  <2>4. Cardinality(Referred) \in Nat
    BY <2>1, <2>3, FS_CardinalityType
  <2>5. Cardinality(Referred) <= Cardinality(one) + 1
    BY <2>1, <2>3
  <2> QED
    BY <1>1, <1>2, <2>1, <2>2, <2>3, <2>4, <2>5
<1>4. IsFiniteSet(Arrays) /\ Cardinality(Arrays) = 2 * n + 2
  BY <1>1, FS_Interval DEF Arrays
<1>5. ~(Arrays \subseteq Referred)
  <2> SUFFICES ASSUME Arrays \subseteq Referred PROVE FALSE
    OBVIOUS
  <2>1. Cardinality(Arrays) <= Cardinality(Referred)
    BY <1>3, FS_Subset
  <2> QED
    BY <1>1, <1>3, <1>4, <2>1
<1> QED
  BY <1>5 DEF Fresh

\* A slice is none the worse for a change of another array.
LEMMA SliceKeeps ==
  ASSUME NEW H, NEW G, NEW s, IsSlice(H, s), s.arr \in Arrays => G[s.arr] = H[s.arr]
  PROVE  /\ IsSlice(G, s)
         /\ s # Nil => ContentsIn(G, s) = ContentsIn(H, s)
         /\ DistinctSlice(H, s) => DistinctSlice(G, s)
BY DEF IsSlice, ContentsIn, DistinctSlice

\* What a slice holds are names.
LEMMA SliceContents ==
  ASSUME NEW H \in Heaps, NEW s, IsSlice(H, s), s # Nil
  PROVE  ContentsIn(H, s) \in Seq(Names) /\ Len(ContentsIn(H, s)) = s.len
<1>1. H[s.arr] \in Seq(Names) /\ s.len \in Nat /\ s.len <= Len(H[s.arr])
  BY DEF Heaps, IsSlice
<1> QED
  BY <1>1 DEF ContentsIn

\* The slice of a whole array.
LEMMA SliceWhole ==
  ASSUME NEW G \in Heaps, NEW a \in Arrays, NEW q, G[a] = q,
         NEW s, s = [arr |-> a, len |-> Len(q)]
  PROVE  IsSlice(G, s) /\ ContentsIn(G, s) = q
<1>1. q \in Seq(Names) /\ Len(q) \in Nat
  BY DEF Heaps
<1>2. SubSeq(q, 1, Len(q)) = q
  BY <1>1
<1>3. s.arr = a /\ s.len = Len(q)
  OBVIOUS
<1> QED
  BY <1>1, <1>2, <1>3 DEF IsSlice, ContentsIn

\* Garbage collection takes nothing that is still referred to.
LEMMA CollectKeeps ==
  ASSUME NEW H \in Heaps, Collect(H)
  PROVE  heap' \in Heaps /\ \A a \in Arrays : a \in Referred' => heap'[a] = H[a]
BY DEF Collect, Heaps

ListInv == HeapInv /\ OptInv /\ NamesInv

\* A request that is accepted and meets no deletion finds the overlay's list as
\* it should be.
LEMMA Accepted ==
  ASSUME ListInv, NEW h \in Handlers, NEW op, ~Busy(h), Overlap(h, op)
  PROVE  /\ ~overlapped' => ~overlapped
         /\ ~overlapped' => \A g \in Handlers : req[g].op # "delete"
         /\ ~overlapped' /\ op = "delete" => \A g \in Handlers : req[g].pc = "idle"
         /\ ~overlapped' => DistinctSlice(heap, mem.tokens) /\ Intact
         /\ req[h] = Idle
<1>1. req[h] = Idle /\ \A g \in Handlers : req[g].pc = "idle" => req[g].op = "none"
  BY DEF ListInv, HeapInv, Busy, Idle
<1>2. /\ ~overlapped' => ~overlapped
      /\ ~overlapped' => \A g \in Handlers \ {h} :
           ~(Busy(g) /\ (op = "delete" \/ req[g].op = "delete"))
  BY DEF Overlap
<1>3. ~overlapped' => \A g \in Handlers : req[g].op # "delete"
  BY <1>1, <1>2 DEF Busy, Idle
<1>4. ~overlapped' /\ op = "delete" => \A g \in Handlers : req[g].pc = "idle"
  BY <1>2 DEF Busy
<1>5. ~overlapped' => DistinctSlice(heap, mem.tokens) /\ Intact
  BY <1>2, <1>3 DEF ListInv, NamesInv, Intact
<1> QED
  BY <1>1, <1>2, <1>3, <1>4, <1>5

\* A step of a request that writes to no array in use and leaves files, memory
\* and the watcher alone.
LEMMA RequestStep ==
  ASSUME Inv, ListInv, NEW h \in Handlers, NEW r,
         UNCHANGED <<cur, bak, mem, opts, watch>>,
         req' = [req EXCEPT ![h] = r],
         heap' \in Heaps, \A a \in Arrays : a \in Referred => heap'[a] = heap[a],
         r.pc # "idle", r.pc = "filter" => r.op = "delete",
         IsSlice(heap', r.list), IsSlice(heap', f'.tokens),
         req[h].op = "delete" => r.op = "delete" /\ r.pc # "announce",
         ~overlapped' =>
           /\ ~overlapped /\ Solo' /\ (Intact' => Intact)
           /\ r.pc \in {"filter", "save"} => DistinctSlice(heap', r.list)
           /\ r.pc \in {"rotate", "apply"} => DistinctSlice(heap', f'.tokens)
           /\ r.pc # "rotate" => f' = f
  PROVE  ListInv'
<1>1. req'[h] = r /\ \A g \in Handlers : g # h => req'[g] = req[g]
  BY DEF Inv, Shape
<1>2. /\ mem.tokens.arr \in Referred /\ f.tokens.arr \in Referred
      /\ \A g \in Handlers : req[g].list.arr \in Referred
  BY DEF Referred
<1>3. /\ IsSlice(heap', mem.tokens)
      /\ mem.tokens # Nil => ContentsIn(heap', mem.tokens) = ContentsIn(heap, mem.tokens)
      /\ DistinctSlice(heap, mem.tokens) => DistinctSlice(heap', mem.tokens)
  <2>1. IsSlice(heap, mem.tokens) /\ (mem.tokens.arr \in Arrays => heap'[mem.tokens.arr] = heap[mem.tokens.arr])
    BY <1>2 DEF ListInv, HeapInv
  <2> QED
    BY <2>1, SliceKeeps
<1>4. \A g \in Handlers : g # h =>
        IsSlice(heap', req[g].list)
        /\ (DistinctSlice(heap, req[g].list) => DistinctSlice(heap', req[g].list))
  <2> SUFFICES ASSUME NEW g \in Handlers
               PROVE  IsSlice(heap', req[g].list)
                      /\ (DistinctSlice(heap, req[g].list) => DistinctSlice(heap', req[g].list))
    OBVIOUS
  <2>1. IsSlice(heap, req[g].list)
        /\ (req[g].list.arr \in Arrays => heap'[req[g].list.arr] = heap[req[g].list.arr])
    BY <1>2 DEF ListInv, HeapInv
  <2> QED
    BY <2>1, SliceKeeps
<1>5. DistinctSlice(heap, f.tokens) => DistinctSlice(heap', f.tokens)
  <2>1. IsSlice(heap, f.tokens) /\ (f.tokens.arr \in Arrays => heap'[f.tokens.arr] = heap[f.tokens.arr])
    BY <1>2 DEF ListInv, HeapInv
  <2> QED
    BY <2>1, SliceKeeps
<1>6. HeapInv'
  <2>1. \A g \in Handlers : IsSlice(heap', req'[g].list)
    BY <1>1, <1>4
  <2>2. \A g \in Handlers : /\ req'[g].pc = "idle" => req'[g] = Idle
                            /\ req'[g].pc = "filter" => req'[g].op = "delete"
    BY <1>1 DEF ListInv, HeapInv
  <2> QED
    BY <1>3, <2>1, <2>2 DEF ListInv, HeapInv
<1>7. OptInv'
  <2>1. ~overlapped' /\ Quiet' => ~overlapped /\ Quiet
    BY <1>1 DEF Quiet
  <2> QED
    BY <1>3, <2>1 DEF ListInv, OptInv, Bare, There, IsOptions
<1>8. NamesInv'
  <2> SUFFICES ASSUME ~overlapped'
               PROVE  /\ Solo' /\ IsInjective(opts.tokens)
                      /\ DistinctList(cur.tokens) /\ DistinctList(watch.buf.tokens)
                      /\ \A i \in Slots : DistinctList(bak[i].tokens)
                      /\ \A g \in Handlers : req'[g].pc \in {"filter", "save"} =>
                           DistinctSlice(heap', req'[g].list)
                      /\ \A g \in Handlers : req'[g].pc \in {"rotate", "apply"} =>
                           DistinctSlice(heap', f'.tokens)
                      /\ Intact' => DistinctSlice(heap', mem.tokens)
    BY DEF NamesInv
  <2>1. /\ IsInjective(opts.tokens)
        /\ DistinctList(cur.tokens) /\ DistinctList(watch.buf.tokens)
        /\ \A i \in Slots : DistinctList(bak[i].tokens)
        /\ Intact' => DistinctSlice(heap', mem.tokens)
    BY <1>3 DEF ListInv, NamesInv
  <2>2. \A g \in Handlers : req'[g].pc \in {"filter", "save"} =>
          DistinctSlice(heap', req'[g].list)
    BY <1>1, <1>4 DEF ListInv, NamesInv
  <2>3. \A g \in Handlers : req'[g].pc \in {"rotate", "apply"} => DistinctSlice(heap', f'.tokens)
    <3>1. CASE r.pc \in {"rotate", "apply"}
      BY <3>1
    <3>2. CASE r.pc \notin {"rotate", "apply"}
      BY <1>1, <1>5, <3>2 DEF ListInv, NamesInv
    <3> QED
      BY <3>1, <3>2
  <2> QED
    BY <2>1, <2>2, <2>3
<1> QED
  BY <1>6, <1>7, <1>8 DEF ListInv

\* putConfig saves the overlay's own list.
LEMMA ListPutConfig ==
  ASSUME Inv, ListInv, NEW h \in Handlers, NEW key \in Keys, NEW v \in Values,
         PutConfig(h, key, v)
  PROVE  ListInv'
<1> DEFINE r == [pc |-> "rotate", op |-> key, list |-> Nil]
<1>1. key \in {"names", "ha"}
  BY ConstantsAssumption
<1>2. f'.tokens = mem.tokens
  BY <1>1 DEF PutConfig, StartSave, Inv, Shape, IsOverlay
<1>3. /\ UNCHANGED <<cur, bak, mem, opts, watch, heap>> /\ req' = [req EXCEPT ![h] = r]
      /\ ~Busy(h) /\ Overlap(h, key)
  BY DEF PutConfig, files, memory
<1>4. /\ ~overlapped' => ~overlapped
      /\ ~overlapped' => \A g \in Handlers : req[g].op # "delete"
      /\ ~overlapped' => DistinctSlice(heap, mem.tokens) /\ Intact
      /\ req[h] = Idle
  BY <1>3, Accepted
<1>5. ~overlapped' => Solo'
  <2>1. ~overlapped' => \A g \in Handlers : req'[g].op # "delete"
    BY <1>1, <1>3, <1>4 DEF Inv, Shape
  <2> QED
    BY <2>1 DEF Solo
<1>6. IsSlice(heap, Nil) /\ IsSlice(heap, mem.tokens) /\ heap \in Heaps
  BY DEF ListInv, HeapInv, IsSlice
<1>7. r.pc = "rotate" /\ r.op = key /\ r.list = Nil
  OBVIOUS
<1> HIDE DEF r
<1>8. req[h].op # "delete" /\ IsSlice(heap', r.list) /\ IsSlice(heap', f'.tokens) /\ heap' \in Heaps
  BY <1>2, <1>3, <1>4, <1>6, <1>7 DEF Idle
<1>9. ~overlapped' => ~overlapped /\ Solo' /\ Intact /\ DistinctSlice(heap', f'.tokens)
  BY <1>2, <1>3, <1>4, <1>5
<1> QED
  BY <1>3, <1>7, <1>8, <1>9, RequestStep

\* restoreBackup builds a list of its own from the backup.
LEMMA ListRestore ==
  ASSUME Inv, ListInv, NEW h \in Handlers, NEW i \in Slots, RestoreBackup(h, i)
  PROVE  ListInv'
<1> DEFINE r == [pc |-> "rotate", op |-> "restore", list |-> Nil]
           t == bak[i].tokens
<1>1. /\ UNCHANGED <<cur, bak, mem, opts, watch>> /\ req' = [req EXCEPT ![h] = r]
      /\ ~Busy(h) /\ Overlap(h, "restore")
      /\ heap' = IF t = Absent THEN heap ELSE [heap EXCEPT ![Fresh] = t]
      /\ f'.tokens = IF t = Absent THEN Nil ELSE [arr |-> Fresh, len |-> Len(t)]
  BY DEF RestoreBackup, files, memory, StartSave, Unmarshal, Unmarshalled
<1>2. /\ ~overlapped' => ~overlapped
      /\ ~overlapped' => \A g \in Handlers : req[g].op # "delete"
      /\ ~overlapped' => Intact
      /\ req[h] = Idle
  BY <1>1, Accepted
<1>3. ~overlapped' => Solo'
  <2>1. ~overlapped' => \A g \in Handlers : req'[g].op # "delete"
    BY <1>1, <1>2 DEF Inv, Shape
  <2> QED
    BY <2>1 DEF Solo
<1>4. /\ heap \in Heaps /\ Fresh \in Arrays /\ Fresh \notin Referred /\ IsList(t)
      /\ ~overlapped => DistinctList(t)
  BY FreshExists DEF ListInv, HeapInv, NamesInv
<1>5. /\ heap' \in Heaps /\ \A a \in Arrays : a \in Referred => heap'[a] = heap[a]
      /\ IsSlice(heap', f'.tokens) /\ (~overlapped' => DistinctSlice(heap', f'.tokens))
  <2>1. CASE t = Absent
    BY <1>1, <1>4, <2>1 DEF IsSlice, DistinctSlice
  <2>2. CASE t # Absent
    <3> HIDE DEF t
    <3>1. t \in Seq(Names) /\ (~overlapped' => IsInjective(t))
      BY <1>2, <1>4, <2>2 DEF IsList, DistinctList
    <3>2. heap' = [heap EXCEPT ![Fresh] = t] /\ f'.tokens = [arr |-> Fresh, len |-> Len(t)]
      BY <1>1, <2>2
    <3>3. /\ heap' \in Heaps /\ \A b \in Arrays : b # Fresh => heap'[b] = heap[b]
          /\ heap'[Fresh] = t
      BY <1>4, <3>1, <3>2 DEF Heaps
    <3>4. IsSlice(heap', f'.tokens) /\ ContentsIn(heap', f'.tokens) = t
      <4> DEFINE sl == [arr |-> Fresh, len |-> Len(t)]
      <4>1. IsSlice(heap', sl) /\ ContentsIn(heap', sl) = t
        BY <1>4, <3>3, SliceWhole
      <4> QED
        BY <3>2, <4>1
    <3> QED
      BY <1>4, <3>1, <3>3, <3>4 DEF DistinctSlice
  <2> QED
    BY <2>1, <2>2
<1>6. r.pc = "rotate" /\ r.op = "restore" /\ r.list = Nil /\ IsSlice(heap', Nil)
  BY DEF IsSlice
<1> HIDE DEF r
<1>7. req[h].op # "delete" /\ IsSlice(heap', r.list)
  BY <1>2, <1>6 DEF Idle
<1>8. ~overlapped' => ~overlapped /\ Solo' /\ Intact /\ DistinctSlice(heap', f'.tokens)
  BY <1>2, <1>3, <1>5
<1> QED
  BY <1>1, <1>5, <1>6, <1>7, <1>8, RequestStep

\* createAPIToken appends a new name to a copy of the list.
LEMMA ListCreate ==
  ASSUME Inv, ListInv, NEW h \in Handlers, NEW name \in Names, CreateAPIToken(h, name)
  PROVE  ListInv'
<1> DEFINE q == Append(TokenList, name)
           r == [pc |-> "save", op |-> "create", list |-> [arr |-> Fresh, len |-> Len(TokenList) + 1]]
<1>1. /\ UNCHANGED <<cur, bak, mem, opts, watch, f>> /\ req' = [req EXCEPT ![h] = r]
      /\ ~Busy(h) /\ Overlap(h, "create") /\ heap' = [heap EXCEPT ![Fresh] = q]
      /\ ~NameTaken(name)
  BY DEF CreateAPIToken, files, memory, saving
<1>2. /\ ~overlapped' => ~overlapped
      /\ ~overlapped' => \A g \in Handlers : req[g].op # "delete"
      /\ ~overlapped' => DistinctSlice(heap, mem.tokens) /\ Intact
      /\ req[h] = Idle
  BY <1>1, Accepted
<1>3. ~overlapped' => Solo'
  <2>1. ~overlapped' => \A g \in Handlers : req'[g].op # "delete"
    BY <1>1, <1>2 DEF Inv, Shape
  <2> QED
    BY <2>1 DEF Solo
<1>4. heap \in Heaps /\ Fresh \in Arrays /\ Fresh \notin Referred
  BY FreshExists DEF ListInv, HeapInv
<1>5. TokenList \in Seq(Names) /\ (~overlapped' => IsInjective(TokenList))
  <2>1. CASE mem.tokens = Nil
    <3>1. TokenList = opts.tokens
      BY <2>1 DEF TokenList, ListInv, OptInv
    <3> QED
      BY <1>2, <3>1 DEF ListInv, HeapInv, NamesInv
  <2>2. CASE mem.tokens # Nil
    <3>1. TokenList = ContentsIn(heap, mem.tokens)
      BY <2>2 DEF TokenList, ListInv, OptInv, Contents, ContentsIn
    <3>2. ContentsIn(heap, mem.tokens) \in Seq(Names)
      BY <1>4, <2>2, SliceContents DEF ListInv, HeapInv
    <3> QED
      BY <1>2, <2>2, <3>1, <3>2 DEF DistinctSlice
  <2> QED
    BY <2>1, <2>2
<1> HIDE DEF q
<1>6. q \in Seq(Names) /\ Len(q) = Len(TokenList) + 1 /\ (~overlapped' => IsInjective(q))
  <2>1. q \in Seq(Names) /\ Len(q) = Len(TokenList) + 1
    BY <1>5 DEF q
  <2>2. \A i \in 1..Len(TokenList) : q[i] = TokenList[i] /\ q[i] # name
    BY <1>1, <1>5 DEF q, NameTaken
  <2>3. q[Len(TokenList) + 1] = name
    BY <1>5 DEF q
  <2>4. Len(TokenList) \in Nat /\ DOMAIN q = 1..(Len(TokenList) + 1) /\ DOMAIN TokenList = 1..Len(TokenList)
    BY <1>5, <2>1
  <2>5. ASSUME ~overlapped' PROVE IsInjective(q)
    <3>1. \A i, j \in 1..Len(TokenList) : q[i] = q[j] => i = j
      BY <1>5, <2>2, <2>4, <2>5 DEF IsInjective
    <3>2. \A i \in DOMAIN q : i = Len(TokenList) + 1 \/ i \in 1..Len(TokenList)
      BY <2>4
    <3> HIDE DEF q
    <3>3. \A i, j \in DOMAIN q : q[i] = q[j] => i = j
      BY <2>2, <2>3, <3>1, <3>2
    <3> QED
      BY <3>3 DEF IsInjective
  <2> QED
    BY <2>1, <2>5
<1>7. r.list = [arr |-> Fresh, len |-> Len(q)] /\ r.pc = "save" /\ r.op = "create"
  BY <1>6
<1> HIDE DEF r
<1>8. /\ heap' \in Heaps /\ \A a \in Arrays : a # Fresh => heap'[a] = heap[a]
      /\ heap'[Fresh] = q
  BY <1>1, <1>4, <1>6 DEF Heaps
<1>9. IsSlice(heap', r.list) /\ ContentsIn(heap', r.list) = q
  BY <1>4, <1>7, <1>8, SliceWhole
<1>10. ~overlapped' => DistinctSlice(heap', r.list)
  BY <1>6, <1>9 DEF DistinctSlice
<1>11. \A a \in Arrays : a \in Referred => heap'[a] = heap[a]
  BY <1>4, <1>8
<1>12. IsSlice(heap', f'.tokens)
  <2>1. IsSlice(heap, f.tokens) /\ f.tokens.arr \in Referred
    BY DEF ListInv, HeapInv, Referred
  <2> QED
    BY <1>1, <1>11, <2>1, SliceKeeps
<1>13. ~overlapped' => ~overlapped /\ Solo' /\ Intact
  BY <1>2, <1>3
<1>14. req[h].op # "delete"
  BY <1>2 DEF Idle
<1> QED
  BY <1>1, <1>7, <1>8, <1>9, <1>10, <1>11, <1>12, <1>13, <1>14, RequestStep

\* deleteAPIToken takes the overlay's slice, or a copy of the list in force.
LEMMA ListDelete ==
  ASSUME Inv, ListInv, NEW h \in Handlers, DeleteAPIToken(h)
  PROVE  ListInv'
<1>1. /\ UNCHANGED <<cur, bak, mem, opts, watch, f>> /\ ~Busy(h) /\ Overlap(h, "delete")
  BY DEF DeleteAPIToken, files, memory, saving
<1>2. /\ ~overlapped' => ~overlapped
      /\ ~overlapped' => \A g \in Handlers : req[g].pc = "idle"
      /\ ~overlapped' => DistinctSlice(heap, mem.tokens) /\ Intact
      /\ req[h] = Idle
  BY <1>1, Accepted
<1>3. heap \in Heaps /\ Fresh \in Arrays /\ Fresh \notin Referred /\ IsSlice(heap, mem.tokens)
  BY FreshExists DEF ListInv, HeapInv
<1>4. PICK l : /\ req' = [req EXCEPT ![h] = [pc |-> "filter", op |-> "delete", list |-> l]]
               /\ heap' \in Heaps /\ \A a \in Arrays : a \in Referred => heap'[a] = heap[a]
               /\ IsSlice(heap', l) /\ (~overlapped' => DistinctSlice(heap', l))
  <2>1. CASE opts.source = "runtime" \/ opts.tokens = <<>>
    BY <1>2, <1>3, <2>1 DEF DeleteAPIToken
  <2>2. CASE ~(opts.source = "runtime" \/ opts.tokens = <<>>)
    <3>1. /\ heap' = [heap EXCEPT ![Fresh] = opts.tokens]
          /\ req' = [req EXCEPT ![h] = [pc |-> "filter", op |-> "delete",
                       list |-> [arr |-> Fresh, len |-> Len(opts.tokens)]]]
      BY <2>2 DEF DeleteAPIToken
    <3>2. opts.tokens \in Seq(Names) /\ (~overlapped' => IsInjective(opts.tokens))
      BY <1>2 DEF ListInv, HeapInv, NamesInv
    <3>3. /\ heap' \in Heaps /\ \A a \in Arrays : a # Fresh => heap'[a] = heap[a]
          /\ heap'[Fresh] = opts.tokens
      BY <1>3, <3>1, <3>2 DEF Heaps
    <3>4. /\ IsSlice(heap', [arr |-> Fresh, len |-> Len(opts.tokens)])
          /\ ContentsIn(heap', [arr |-> Fresh, len |-> Len(opts.tokens)]) = opts.tokens
      BY <1>3, <3>3, SliceWhole
    <3>5. ~overlapped' => DistinctSlice(heap', [arr |-> Fresh, len |-> Len(opts.tokens)])
      BY <3>2, <3>4 DEF DistinctSlice
    <3> QED
      BY <1>3, <3>1, <3>3, <3>4, <3>5
  <2> QED
    BY <2>1, <2>2
<1> DEFINE r == [pc |-> "filter", op |-> "delete", list |-> l]
<1>5. r.pc = "filter" /\ r.op = "delete" /\ r.list = l /\ req' = [req EXCEPT ![h] = r]
  BY <1>4
<1> HIDE DEF r
<1>6. ~overlapped' => Solo'
  BY <1>2, <1>5 DEF Solo, Inv, Shape, ListInv, HeapInv, Idle
<1>7. IsSlice(heap', f'.tokens)
  <2>1. IsSlice(heap, f.tokens) /\ f.tokens.arr \in Referred
    BY DEF ListInv, HeapInv, Referred
  <2> QED
    BY <1>1, <1>4, <2>1, SliceKeeps
<1>8. req[h].op # "delete" /\ IsSlice(heap', r.list)
  BY <1>2, <1>4, <1>5 DEF Idle
<1>9. ~overlapped' => ~overlapped /\ Solo' /\ Intact /\ DistinctSlice(heap', r.list)
  BY <1>2, <1>4, <1>5, <1>6
<1> QED
  BY <1>1, <1>4, <1>5, <1>7, <1>8, <1>9, RequestStep

\* SaveOverlay takes the new list, or keeps the overlay's if there is none.
LEMMA ListSave ==
  ASSUME Inv, ListInv, NEW h \in Handlers, SaveTokens(h)
  PROVE  ListInv'
<1> DEFINE r == [pc |-> "rotate", op |-> req[h].op, list |-> Nil]
           l == req[h].list
<1>1. /\ UNCHANGED <<cur, bak, mem, opts, watch, heap, overlapped>> /\ req[h].pc = "save"
  BY DEF SaveTokens, files, memory, history
<1>2. req' = [req EXCEPT ![h] = r]
  <2>1. /\ req' = [g \in Handlers |-> req'[g]]
        /\ \A g \in Handlers : g # h => req'[g] = req[g]
        /\ req'[h] = r
    <3>1. /\ req' = [req EXCEPT ![h].pc = "rotate", ![h].list = Nil]
          /\ req = [g \in Handlers |-> req[g]] /\ IsRequest(req[h])
      BY DEF SaveTokens, Inv, Shape
    <3>2. /\ req' = [g \in Handlers |-> req'[g]]
          /\ \A g \in Handlers : g # h => req'[g] = req[g]
      BY <3>1
    <3>3. req'[h] = [req[h] EXCEPT !.pc = "rotate", !.list = Nil]
      BY <3>1
    <3>4. req'[h] = r
      BY <3>1, <3>3 DEF IsRequest
    <3> QED
      BY <3>2, <3>4
  <2> HIDE DEF r
  <2>2. [req EXCEPT ![h] = r] = [g \in Handlers |-> req'[g]]
    BY <2>1 DEF Inv, Shape
  <2> QED
    BY <2>1, <2>2
<1>3. f'.tokens = IF l = Nil THEN mem.tokens ELSE l
  BY DEF SaveTokens, StartSave, Inv, Shape, IsOverlay
<1>4. IsSlice(heap, f'.tokens) /\ IsSlice(heap, Nil) /\ heap \in Heaps
  BY <1>3 DEF ListInv, HeapInv, IsSlice
<1>5. r.pc = "rotate" /\ r.op = req[h].op /\ r.list = Nil
  OBVIOUS
<1> HIDE DEF r
<1>6. req'[h] = r /\ \A g \in Handlers : g # h => req'[g] = req[g]
  BY <1>2 DEF Inv, Shape
<1>7. ASSUME ~overlapped PROVE Solo' /\ DistinctSlice(heap, f'.tokens) /\ (Intact' => Intact)
  <2>1. Solo /\ DistinctSlice(heap, l)
    BY <1>1, <1>7 DEF ListInv, NamesInv
  <2>2. Solo'
    BY <1>1, <1>5, <1>6, <2>1 DEF Solo
  <2>3. Intact' => Intact
    BY <1>1, <1>5, <1>6 DEF Intact
  <2>4. CASE l # Nil
    BY <1>3, <2>1, <2>2, <2>3, <2>4
  <2>5. CASE l = Nil /\ mem.tokens.arr = 0
    <3>1. mem.tokens = Nil
      BY <2>5 DEF ListInv, HeapInv, IsSlice, Arrays
    <3> QED
      BY <1>3, <2>2, <2>3, <2>5, <3>1 DEF DistinctSlice
  <2>6. CASE l = Nil /\ mem.tokens.arr # 0
    <3>1. \A g \in Handlers : g # h => req[g].op # "delete"
      BY <1>1, <2>1 DEF Solo
    <3>2. Intact
      BY <1>1, <2>6, <3>1 DEF Intact, Nil
    <3> QED
      BY <1>3, <1>7, <2>2, <2>3, <2>6, <3>2 DEF ListInv, NamesInv
  <2> QED
    BY <2>4, <2>5, <2>6
<1> QED
  BY <1>1, <1>2, <1>4, <1>5, <1>7, RequestStep

\* A filtered array is as long as before and starts with what is kept.
LEMMA FilteredArray ==
  ASSUME NEW q \in Seq(Names), NEW k \in Seq(Names), Len(k) <= Len(q),
         NEW new, new = [i \in DOMAIN q |-> IF i <= Len(k) THEN k[i] ELSE q[i]]
  PROVE  new \in Seq(Names) /\ Len(new) = Len(q) /\ SubSeq(new, 1, Len(k)) = k
<1>1. DOMAIN q = 1..Len(q) /\ DOMAIN k = 1..Len(k) /\ Len(q) \in Nat /\ Len(k) \in Nat
  OBVIOUS
<1>2. \A i \in 1..Len(q) : new[i] \in Names
  <2> SUFFICES ASSUME NEW i \in 1..Len(q) PROVE new[i] \in Names
    OBVIOUS
  <2>1. CASE i <= Len(k)
    <3>1. i \in 1..Len(k)
      BY <1>1, <2>1
    <3> QED
      BY <1>1, <2>1, <3>1
  <2>2. CASE ~(i <= Len(k))
    BY <1>1, <2>2
  <2> QED
    BY <2>1, <2>2
<1>3. new \in [1..Len(q) -> Names]
  BY <1>1, <1>2
<1>4. new \in Seq(Names) /\ Len(new) = Len(q)
  <2>1. new \in Seq(Names)
    BY <1>1, <1>3
  <2>2. DOMAIN new = 1..Len(q) /\ DOMAIN new = 1..Len(new) /\ Len(new) \in Nat
    BY <1>3, <2>1, LenProperties
  <2> QED
    BY <1>1, <2>1, <2>2
<1>5. /\ SubSeq(new, 1, Len(k)) \in Seq(Names) /\ Len(SubSeq(new, 1, Len(k))) = Len(k)
      /\ \A i \in 1..Len(k) : SubSeq(new, 1, Len(k))[i] = new[i]
  BY <1>1, <1>4
<1>6. \A i \in 1..Len(k) : new[i] = k[i]
  BY <1>1
<1>7. \A i \in 1..Len(k) : SubSeq(new, 1, Len(k))[i] = k[i]
  BY <1>5, <1>6
<1>8. SubSeq(new, 1, Len(k)) = k
  BY <1>1, <1>5, <1>7, SeqEqual
<1> QED
  BY <1>4, <1>8

\* The deletion's loop moves entries of one array; every slice stays one.
LEMMA ListFilter ==
  ASSUME Inv, ListInv, NEW h \in Handlers, NEW name \in Names, Filter(h, name)
  PROVE  ListInv'
<1> DEFINE s == req[h].list
           c == ContentsIn(heap, s)
           I == {i \in 1..s.len : c[i] # name}
           kept == IF s = Nil THEN <<>> ELSE Kept(c, I)
           l == [s EXCEPT !.len = Len(kept)]
           r == [pc |-> "save", op |-> "delete", list |-> l]
<1>1. /\ UNCHANGED <<cur, bak, mem, opts, watch, f, overlapped>>
      /\ req[h].pc = "filter" /\ req[h].op = "delete" /\ req' = [req EXCEPT ![h] = r]
      /\ heap' = IF s = Nil THEN heap
                 ELSE [heap EXCEPT ![s.arr] =
                        [i \in DOMAIN @ |-> IF i <= Len(kept) THEN kept[i] ELSE @[i]]]
  BY DEF Filter, files, memory, saving, history, ListInv, HeapInv, Contents, ContentsIn
<1>2. heap \in Heaps /\ IsSlice(heap, s) /\ (~overlapped => DistinctSlice(heap, s))
  BY <1>1 DEF ListInv, HeapInv, NamesInv
<1>3. /\ heap' \in Heaps /\ \A a \in Arrays : Len(heap'[a]) = Len(heap[a])
      /\ \A a \in Arrays : a # s.arr => heap'[a] = heap[a]
      /\ IsSlice(heap', l) /\ l.arr = s.arr
      /\ ~overlapped => DistinctSlice(heap', l)
  <2>1. CASE s = Nil
    <3>1. l = Nil
      BY <2>1 DEF Nil
    <3> HIDE DEF l
    <3> QED
      BY <1>1, <1>2, <2>1, <3>1 DEF IsSlice, DistinctSlice
  <2>2. CASE s # Nil
    <3> DEFINE q == heap[s.arr]
               new == [i \in DOMAIN q |-> IF i <= Len(kept) THEN kept[i] ELSE q[i]]
    <3>1. /\ s.arr \in Arrays /\ s.len \in Nat /\ s.len <= Len(q) /\ q \in Seq(Names)
          /\ s = [arr |-> s.arr, len |-> s.len]
      BY <1>2, <2>2 DEF IsSlice, Heaps
    <3>2. c \in Seq(Names) /\ Len(c) = s.len
      <4> HIDE DEF s, c
      <4> QED
        BY <1>2, <2>2, SliceContents DEF c
    <3>3. /\ kept \in Seq(Names) /\ Len(kept) <= s.len /\ Len(kept) \in Nat
          /\ IsInjective(c) => IsInjective(kept)
      <4>1. I \in SUBSET (1..Len(c))
        BY <3>2
      <4> HIDE DEF I, c
      <4>2. /\ Kept(c, I) \in Seq(Names) /\ Len(Kept(c, I)) = Cardinality(I)
            /\ Cardinality(I) <= Len(c) /\ (IsInjective(c) => IsInjective(Kept(c, I)))
        BY <3>2, <4>1, KeptProperties
      <4>3. Len(Kept(c, I)) \in Nat
        BY <4>2
      <4> HIDE DEF s
      <4> QED
        BY <2>2, <3>2, <4>2, <4>3
    <3>4. l = [arr |-> s.arr, len |-> Len(kept)]
      BY <3>1
    <3>5. heap' = [heap EXCEPT ![s.arr] = new]
      <4> HIDE DEF kept
      <4> QED
        BY <1>1, <1>2, <2>2, <3>1 DEF Heaps
    <3> HIDE DEF kept
    <3>6. new \in Seq(Names) /\ Len(new) = Len(q) /\ SubSeq(new, 1, Len(kept)) = kept
      <4>1. Len(kept) <= Len(q) /\ Len(q) \in Nat
        BY <3>1, <3>3
      <4> HIDE DEF s, q
      <4> QED
        BY <3>1, <3>3, <4>1, FilteredArray
    <3> HIDE DEF new, s, l
    <3>7. /\ heap' \in Heaps /\ heap'[s.arr] = new
          /\ \A a \in Arrays : a # s.arr => heap'[a] = heap[a]
      BY <1>2, <3>1, <3>5, <3>6 DEF Heaps
    <3>8. \A a \in Arrays : Len(heap'[a]) = Len(heap[a])
      BY <3>6, <3>7
    <3>9. l.arr = s.arr /\ l.len = Len(kept)
      BY <3>4
    <3>10. IsSlice(heap', l) /\ ContentsIn(heap', l) = kept
      <4>1. Len(kept) <= Len(new)
        BY <3>1, <3>3, <3>6
      <4> QED
        BY <3>1, <3>3, <3>4, <3>6, <3>7, <3>9, <4>1 DEF IsSlice, ContentsIn
    <3>11. ~overlapped => DistinctSlice(heap', l)
      BY <1>2, <2>2, <3>3, <3>10 DEF DistinctSlice
    <3> QED
      BY <3>7, <3>8, <3>9, <3>10, <3>11
  <2> QED
    BY <2>1, <2>2
<1>4. r.pc = "save" /\ r.op = "delete" /\ r.list = l
  OBVIOUS
<1> HIDE DEF r, l, s
<1>5. req'[h] = r /\ \A g \in Handlers : g # h => req'[g] = req[g]
  BY <1>1 DEF Inv, Shape
<1>6. HeapInv'
  <2>1. ASSUME NEW t, IsSlice(heap, t) PROVE IsSlice(heap', t)
    BY <1>3, <2>1 DEF IsSlice
  <2>2. \A g \in Handlers : IsSlice(heap', req'[g].list)
    BY <1>3, <1>4, <1>5, <2>1 DEF ListInv, HeapInv
  <2>3. \A g \in Handlers : /\ req'[g].pc = "idle" => req'[g] = Idle
                            /\ req'[g].pc = "filter" => req'[g].op = "delete"
    BY <1>4, <1>5 DEF ListInv, HeapInv
  <2>4. IsSlice(heap', mem.tokens) /\ IsSlice(heap', f.tokens)
    BY <2>1 DEF ListInv, HeapInv
  <2> QED
    BY <1>1, <1>3, <2>2, <2>3, <2>4 DEF ListInv, HeapInv
<1>7. OptInv'
  <2>1. ~Quiet'
    BY <1>4, <1>5 DEF Quiet
  <2> QED
    BY <1>1, <2>1 DEF ListInv, OptInv, Bare, There, IsOptions
<1>8. NamesInv'
  <2> SUFFICES ASSUME ~overlapped
               PROVE  /\ Solo' /\ IsInjective(opts.tokens)
                      /\ DistinctList(cur.tokens) /\ DistinctList(watch.buf.tokens)
                      /\ \A i \in Slots : DistinctList(bak[i].tokens)
                      /\ \A g \in Handlers : req'[g].pc \in {"filter", "save"} =>
                           DistinctSlice(heap', req'[g].list)
                      /\ \A g \in Handlers : req'[g].pc \in {"rotate", "apply"} =>
                           DistinctSlice(heap', f.tokens)
                      /\ Intact' => DistinctSlice(heap', mem.tokens)
    BY <1>1 DEF NamesInv
  <2>1. \A g \in Handlers : g # h => req[g].pc = "idle"
    BY <1>1 DEF ListInv, NamesInv, Solo
  <2>2. Solo'
    BY <1>4, <1>5, <2>1 DEF Solo, ListInv, HeapInv, Idle
  <2>3. Intact /\ DistinctSlice(heap, mem.tokens)
    <3>1. Intact
      BY <1>1, <2>1 DEF Intact
    <3> QED
      BY <3>1 DEF ListInv, NamesInv
  <2>4. Intact' => DistinctSlice(heap', mem.tokens)
    <3> SUFFICES ASSUME Intact' PROVE DistinctSlice(heap', mem.tokens)
      OBVIOUS
    <3>1. mem.tokens.arr # s.arr
      BY <1>1, <1>3, <1>4, <1>5 DEF Intact
    <3>2. IsSlice(heap, mem.tokens)
      BY DEF ListInv, HeapInv
    <3>3. mem.tokens.arr \in Arrays => heap'[mem.tokens.arr] = heap[mem.tokens.arr]
      BY <1>3, <3>1
    <3> QED
      BY <2>3, <3>2, <3>3, SliceKeeps
  <2>5. /\ \A g \in Handlers : req'[g].pc \in {"filter", "save"} =>
             DistinctSlice(heap', req'[g].list)
        /\ \A g \in Handlers : req'[g].pc \notin {"rotate", "apply"}
    BY <1>3, <1>4, <1>5, <2>1
  <2> QED
    BY <2>2, <2>4, <2>5 DEF ListInv, NamesInv
<1> QED
  BY <1>6, <1>7, <1>8 DEF ListInv

\* A step that changes files, the watcher or the place of a request only.
LEMMA PlainStep ==
  ASSUME ListInv, UNCHANGED <<mem, opts, heap, overlapped>>, f'.tokens = f.tokens,
         IsList(cur'.tokens), IsList(watch'.buf.tokens),
         \A i \in Slots : IsList(bak'[i].tokens),
         ~overlapped =>
           /\ DistinctList(cur'.tokens) /\ DistinctList(watch'.buf.tokens)
           /\ \A i \in Slots : DistinctList(bak'[i].tokens),
         Bare(cur'), Bare(watch'.buf),
         \A g \in Handlers :
           \/ req'[g] = req[g]
           \/ /\ req[g].pc = "rotate" /\ req'[g].pc = "apply"
              /\ req'[g].op = req[g].op /\ req'[g].list = req[g].list
           \/ req[g].pc = "announce" /\ req'[g] = Idle
  PROVE  ListInv'
<1>1. HeapInv'
  <2>1. IsSlice(heap, Nil) /\ Idle.list = Nil /\ Idle.pc = "idle"
    BY DEF IsSlice, Idle
  <2>2. \A g \in Handlers : IsSlice(heap, req'[g].list)
    BY <2>1 DEF ListInv, HeapInv
  <2>3. \A g \in Handlers : /\ req'[g].pc = "idle" => req'[g] = Idle
                            /\ req'[g].pc = "filter" => req'[g].op = "delete"
    BY <2>1 DEF ListInv, HeapInv
  <2> QED
    BY <2>2, <2>3 DEF ListInv, HeapInv
<1>2. Quiet' => Quiet
  BY DEF Quiet
<1>3. OptInv'
  <2>1. Bare(cur)' /\ Bare(watch.buf)'
    BY DEF Bare, There
  <2> QED
    BY <1>2, <2>1 DEF ListInv, OptInv, IsOptions
<1>4. Intact' => Intact
  BY DEF Intact
<1>5. Solo => Solo'
  BY DEF Solo, Idle
<1>6. NamesInv'
  <2> SUFFICES ASSUME ~overlapped
               PROVE  /\ Solo' /\ IsInjective(opts.tokens)
                      /\ \A g \in Handlers : req'[g].pc \in {"filter", "save"} =>
                           DistinctSlice(heap, req'[g].list)
                      /\ \A g \in Handlers : req'[g].pc \in {"rotate", "apply"} =>
                           DistinctSlice(heap, f.tokens)
                      /\ Intact' => DistinctSlice(heap, mem.tokens)
    BY DEF NamesInv
  <2>1. \A g \in Handlers : req'[g].pc \in {"filter", "save"} => DistinctSlice(heap, req'[g].list)
    BY DEF ListInv, NamesInv, Idle
  <2>2. \A g \in Handlers : req'[g].pc \in {"rotate", "apply"} => DistinctSlice(heap, f.tokens)
    BY DEF ListInv, NamesInv, Idle
  <2> QED
    BY <1>4, <1>5, <2>1, <2>2 DEF ListInv, NamesInv
<1> QED
  BY <1>1, <1>3, <1>6 DEF ListInv

\* A backup is copied from a file, or cut off.
LEMMA ListBackup ==
  ASSUME ListInv, FilesInv, slot \in Slots, NEW x,
         IsList(x.tokens), ~overlapped => DistinctList(x.tokens),
         bak' = [bak EXCEPT ![slot] = x]
  PROVE  /\ \A i \in Slots : IsList(bak'[i].tokens)
         /\ ~overlapped => \A i \in Slots : DistinctList(bak'[i].tokens)
<1>1. \A i \in Slots : bak'[i] = IF i = slot THEN x ELSE bak[i]
  BY DEF FilesInv, BackupsOrdered
<1> QED
  BY <1>1 DEF ListInv, HeapInv, NamesInv

LEMMA ListCutOff ==
  ASSUME ListInv, FilesInv, slot \in Slots, bak' \in CutOff(slot)
  PROVE  /\ \A i \in Slots : IsList(bak'[i].tokens)
         /\ ~overlapped => \A i \in Slots : DistinctList(bak'[i].tokens)
<1>1. PICK left \in {"none", "garbled"} :
        bak' = [bak EXCEPT ![slot] = [NoFile EXCEPT !.state = left]]
  BY DEF CutOff
<1> DEFINE x == [NoFile EXCEPT !.state = left]
<1>2. x.tokens = Absent
  BY DEF NoFile
<1>3. IsList(x.tokens) /\ DistinctList(x.tokens)
  BY <1>2 DEF IsList, DistinctList
<1> HIDE DEF x
<1> QED
  BY <1>1, <1>3, ListBackup DEF x

LEMMA ListRotate ==
  ASSUME Inv, ListInv, FilesInv, NEW h \in Handlers, RotateSlot(h) \/ RotateFails(h)
  PROVE  ListInv'
<1>1. /\ UNCHANGED <<mem, opts, heap, overlapped, cur, watch, f, req>>
      /\ slot > 0
  BY DEF RotateSlot, RotateFails, memory, history
<1>2. slot \in Slots /\ (slot # 1 => slot - 1 \in Slots)
  BY <1>1, ConstantsAssumption DEF FilesInv, BackupsOrdered, Slots
<1>3. IsList(RotateFrom(slot).tokens) /\ (~overlapped => DistinctList(RotateFrom(slot).tokens))
  BY <1>2 DEF RotateFrom, ListInv, HeapInv, NamesInv
<1>4. /\ \A i \in Slots : IsList(bak'[i].tokens)
      /\ ~overlapped => \A i \in Slots : DistinctList(bak'[i].tokens)
  <2>1. CASE bak' = bak
    BY <2>1 DEF ListInv, HeapInv, NamesInv
  <2>2. CASE bak' = [bak EXCEPT ![slot] = RotateFrom(slot)]
    BY <1>2, <1>3, <2>2, ListBackup
  <2>3. CASE bak' \in CutOff(slot)
    BY <1>2, <2>3, ListCutOff
  <2> QED
    BY <2>1, <2>2, <2>3 DEF RotateSlot, RotateFails
<1>5. /\ IsList(cur'.tokens) /\ IsList(watch'.buf.tokens)
      /\ ~overlapped => DistinctList(cur'.tokens) /\ DistinctList(watch'.buf.tokens)
      /\ Bare(cur') /\ Bare(watch'.buf)
  BY <1>1 DEF ListInv, HeapInv, NamesInv, OptInv
<1> QED
  BY <1>1, <1>4, <1>5, PlainStep

\* The file that replaces runtime.json has the list of the overlay that is saved.
LEMMA ListReplace ==
  ASSUME Inv, ListInv, NEW h \in Handlers, Replace(h)
  PROVE  ListInv'
<1>1. /\ UNCHANGED <<mem, opts, heap, overlapped, bak, watch>> /\ req[h].pc = "rotate"
      /\ There(cur')
      /\ cur'.tokens = IF f.tokens.len = 0 THEN Absent ELSE ContentsIn(heap, f.tokens)
      /\ f' = [f EXCEPT !.id = Len(log) + 1]
      /\ req' = [req EXCEPT ![h].pc = "apply"]
  BY DEF Replace, memory, history, Marshal, Contents, ContentsIn, There
<1>2. f'.tokens = f.tokens /\ Bare(cur')
  BY <1>1 DEF Inv, Shape, IsOverlay, Bare
<1>3. IsList(cur'.tokens) /\ (~overlapped => DistinctList(cur'.tokens))
  <2>1. CASE f.tokens.len = 0
    BY <1>1, <2>1 DEF IsList, DistinctList
  <2>2. CASE f.tokens.len # 0
    <3>1. f.tokens # Nil /\ heap \in Heaps /\ IsSlice(heap, f.tokens)
      BY <2>2 DEF Nil, ListInv, HeapInv
    <3>2. ContentsIn(heap, f.tokens) \in Seq(Names)
      BY <3>1, SliceContents
    <3>3. ~overlapped => IsInjective(ContentsIn(heap, f.tokens))
      BY <1>1, <3>1 DEF ListInv, NamesInv, DistinctSlice
    <3> QED
      BY <1>1, <2>2, <3>2, <3>3 DEF IsList, DistinctList
  <2> QED
    BY <2>1, <2>2
<1>4. \A g \in Handlers :
        \/ req'[g] = req[g]
        \/ /\ req[g].pc = "rotate" /\ req'[g].pc = "apply"
           /\ req'[g].op = req[g].op /\ req'[g].list = req[g].list
  <2>1. req'[h] = [req[h] EXCEPT !.pc = "apply"] /\ \A g \in Handlers : g # h => req'[g] = req[g]
    BY <1>1 DEF Inv, Shape
  <2>2. req'[h].pc = "apply" /\ req'[h].op = req[h].op /\ req'[h].list = req[h].list
    BY <2>1 DEF Inv, Shape, IsRequest
  <2> QED
    BY <1>1, <2>1, <2>2
<1>5. /\ \A i \in Slots : IsList(bak'[i].tokens)
      /\ IsList(watch'.buf.tokens)
      /\ ~overlapped => /\ DistinctList(watch'.buf.tokens)
                        /\ \A i \in Slots : DistinctList(bak'[i].tokens)
      /\ Bare(watch'.buf)
  BY <1>1 DEF ListInv, HeapInv, NamesInv, OptInv
<1>6. UNCHANGED <<mem, opts, heap, overlapped>>
  BY <1>1
<1> QED
  BY <1>2, <1>3, <1>4, <1>5, <1>6, PlainStep

LEMMA ListOnChange ==
  ASSUME Inv, ListInv, NEW h \in Handlers, OnChange(h)
  PROVE  ListInv'
<1>1. /\ UNCHANGED <<mem, opts, heap, overlapped, cur, bak, watch, f>>
      /\ req[h].pc = "announce" /\ req' = [req EXCEPT ![h] = Idle]
  BY DEF OnChange, files, saving, history
<1>2. \A g \in Handlers : req'[g] = req[g] \/ (req[g].pc = "announce" /\ req'[g] = Idle)
  BY <1>1 DEF Inv, Shape
<1>3. /\ IsList(cur'.tokens) /\ IsList(watch'.buf.tokens)
      /\ \A i \in Slots : IsList(bak'[i].tokens)
      /\ ~overlapped => /\ DistinctList(cur'.tokens) /\ DistinctList(watch'.buf.tokens)
                        /\ \A i \in Slots : DistinctList(bak'[i].tokens)
      /\ Bare(cur') /\ Bare(watch'.buf)
  BY <1>1 DEF ListInv, HeapInv, NamesInv, OptInv
<1> QED
  BY <1>1, <1>2, <1>3, PlainStep

\* The watcher looks at the file and reads it, or fails to.
LEMMA ListWatch ==
  ASSUME Inv, ListInv, WatchStart \/ WatchTick \/ WatchRead \/ WatchReadFails \/ WatchOnChange
  PROVE  ListInv'
<1>1. UNCHANGED <<mem, opts, heap, overlapped, cur, bak, f, req>>
  BY DEF WatchStart, WatchTick, WatchRead, WatchReadFails, WatchOnChange,
     files, memory, saving, history
<1>2. watch'.buf \in {watch.buf, cur}
  BY DEF WatchStart, WatchTick, WatchRead, WatchReadFails, WatchOnChange, Inv, Shape, IsWatcher
<1>3. /\ IsList(cur'.tokens) /\ IsList(watch'.buf.tokens)
      /\ \A i \in Slots : IsList(bak'[i].tokens)
      /\ ~overlapped => /\ DistinctList(cur'.tokens) /\ DistinctList(watch'.buf.tokens)
                        /\ \A i \in Slots : DistinctList(bak'[i].tokens)
      /\ Bare(cur') /\ Bare(watch'.buf)
  BY <1>1, <1>2 DEF ListInv, HeapInv, NamesInv, OptInv
<1>4. UNCHANGED <<mem, opts, heap, overlapped>> /\ f'.tokens = f.tokens
      /\ \A g \in Handlers : req'[g] = req[g]
  BY <1>1
<1> QED
  BY <1>3, <1>4, PlainStep

LEMMA ListEdit ==
  ASSUME Inv, ListInv, NEW c \in Edits, EditFile(c)
  PROVE  ListInv'
<1>1. /\ UNCHANGED <<mem, opts, heap, overlapped, bak, f, req, watch>>
      /\ cur'.state = c.state /\ cur'.names = c.names /\ cur'.ha = c.ha /\ cur'.tokens = c.tokens
  BY DEF EditFile, memory, saving
<1>2. Bare(cur')
  BY <1>1, EditsAssumption DEF Bare, There
<1>3. IsList(cur'.tokens) /\ DistinctList(cur'.tokens)
  BY <1>1, EditsAssumption DEF IsList, DistinctList
<1>4. /\ IsList(watch'.buf.tokens)
      /\ \A i \in Slots : IsList(bak'[i].tokens)
      /\ ~overlapped => /\ DistinctList(watch'.buf.tokens)
                        /\ \A i \in Slots : DistinctList(bak'[i].tokens)
      /\ Bare(watch'.buf)
      /\ f'.tokens = f.tokens /\ \A g \in Handlers : req'[g] = req[g]
  BY <1>1 DEF ListInv, HeapInv, NamesInv, OptInv
<1>5. UNCHANGED <<mem, opts, heap, overlapped>>
  BY <1>1
<1> QED
  BY <1>2, <1>3, <1>4, <1>5, PlainStep

\* What the collection leaves of a slice that is still referred to: all of it.
LEMMA CollectSlice ==
  ASSUME NEW H \in Heaps, Collect(H), NEW s, IsSlice(H, s), s.arr \in Referred'
  PROVE  /\ IsSlice(heap', s)
         /\ s # Nil => ContentsIn(heap', s) = ContentsIn(H, s)
         /\ DistinctSlice(H, s) => DistinctSlice(heap', s)
<1>1. s.arr \in Arrays => heap'[s.arr] = H[s.arr]
  BY CollectKeeps
<1> QED
  BY <1>1, SliceKeeps

\* The collection after a request has ended or a new overlay was installed: every
\* list in use is as it was.
LEMMA Collected ==
  ASSUME ListInv, NEW H \in Heaps, Collect(H),
         \A a \in Arrays : a \in Referred => H[a] = heap[a],
         IsSlice(H, mem'.tokens), f'.tokens \in {f.tokens, Nil},
         \A g \in Handlers : req'[g].list \in {req[g].list, Nil}
  PROVE  /\ heap' \in Heaps
         /\ IsSlice(heap', mem'.tokens) /\ IsSlice(heap', f'.tokens)
         /\ mem'.tokens # Nil => ContentsIn(heap', mem'.tokens) = ContentsIn(H, mem'.tokens)
         /\ DistinctSlice(H, mem'.tokens) => DistinctSlice(heap', mem'.tokens)
         /\ \A g \in Handlers :
              /\ IsSlice(heap', req'[g].list)
              /\ DistinctSlice(heap, req[g].list) => DistinctSlice(heap', req'[g].list)
<1>1. /\ mem'.tokens.arr \in Referred' /\ f'.tokens.arr \in Referred'
      /\ \A g \in Handlers : req'[g].list.arr \in Referred'
      /\ f.tokens.arr \in Referred /\ \A g \in Handlers : req[g].list.arr \in Referred
  BY DEF Referred
<1>2. IsSlice(heap', Nil) /\ DistinctSlice(heap', Nil)
  BY DEF IsSlice, DistinctSlice
<1>3. heap' \in Heaps
  BY CollectKeeps
<1>4. /\ IsSlice(heap', mem'.tokens)
      /\ mem'.tokens # Nil => ContentsIn(heap', mem'.tokens) = ContentsIn(H, mem'.tokens)
      /\ DistinctSlice(H, mem'.tokens) => DistinctSlice(heap', mem'.tokens)
  BY <1>1, CollectSlice
<1>5. IsSlice(heap', f'.tokens)
  <2>1. CASE f'.tokens = Nil
    BY <1>2, <2>1
  <2>2. CASE f'.tokens = f.tokens
    <3>1. IsSlice(heap, f.tokens) /\ (f.tokens.arr \in Arrays => H[f.tokens.arr] = heap[f.tokens.arr])
      BY <1>1 DEF ListInv, HeapInv
    <3>2. IsSlice(H, f.tokens)
      BY <3>1, SliceKeeps
    <3>3. f.tokens.arr \in Referred'
      BY <1>1, <2>2
    <3>4. IsSlice(heap', f.tokens)
      BY <3>2, <3>3, CollectSlice
    <3> QED
      BY <2>2, <3>4
  <2> QED
    BY <2>1, <2>2
<1>6. ASSUME NEW g \in Handlers
      PROVE  /\ IsSlice(heap', req'[g].list)
             /\ DistinctSlice(heap, req[g].list) => DistinctSlice(heap', req'[g].list)
  <2>1. CASE req'[g].list = Nil
    BY <1>2, <2>1
  <2>2. CASE req'[g].list = req[g].list
    <3>1. /\ IsSlice(heap, req[g].list)
          /\ req[g].list.arr \in Arrays => H[req[g].list.arr] = heap[req[g].list.arr]
      BY <1>1 DEF ListInv, HeapInv
    <3>2. IsSlice(H, req[g].list) /\ (DistinctSlice(heap, req[g].list) => DistinctSlice(H, req[g].list))
      BY <3>1, SliceKeeps
    <3>3. req[g].list.arr \in Referred'
      BY <1>1, <2>2
    <3>4. IsSlice(heap', req[g].list) /\ (DistinctSlice(H, req[g].list) => DistinctSlice(heap', req[g].list))
      BY <3>2, <3>3, CollectSlice
    <3> QED
      BY <2>2, <3>2, <3>4
  <2> QED
    BY <2>1, <2>2
<1> QED
  BY <1>3, <1>4, <1>5, <1>6

\* A save that fails leaves the overlay as it was; after a deletion, whose array
\* was shortened, nothing is claimed.
LEMMA ListPersistFails ==
  ASSUME Inv, ListInv, NEW h \in Handlers, PersistFails(h)
  PROVE  ListInv'
<1>1. /\ UNCHANGED <<cur, bak, mem, opts, watch>> /\ req[h].pc = "rotate"
      /\ f' = Empty /\ req' = [req EXCEPT ![h] = Idle] /\ Collect(heap)
      /\ overlapped' = (overlapped \/ req[h].op = "delete")
  BY DEF PersistFails, files, memory
<1>2. req'[h] = Idle /\ \A g \in Handlers : g # h => req'[g] = req[g]
  BY <1>1 DEF Inv, Shape
<1>3. f'.tokens = Nil /\ Idle.list = Nil /\ Idle.pc = "idle" /\ Idle.op = "none"
  BY <1>1 DEF Empty, Idle
<1>4. \A g \in Handlers : req'[g].list \in {req[g].list, Nil}
  BY <1>2, <1>3
<1>5. heap \in Heaps /\ IsSlice(heap, mem'.tokens)
  BY <1>1 DEF ListInv, HeapInv
<1>6. /\ heap' \in Heaps
      /\ IsSlice(heap', mem.tokens) /\ IsSlice(heap', f'.tokens)
      /\ mem.tokens # Nil => ContentsIn(heap', mem.tokens) = ContentsIn(heap, mem.tokens)
      /\ DistinctSlice(heap, mem.tokens) => DistinctSlice(heap', mem.tokens)
      /\ \A g \in Handlers :
           /\ IsSlice(heap', req'[g].list)
           /\ DistinctSlice(heap, req[g].list) => DistinctSlice(heap', req'[g].list)
  BY <1>1, <1>3, <1>4, <1>5, Collected
<1>7. HeapInv'
  <2>1. \A g \in Handlers : /\ req'[g].pc = "idle" => req'[g] = Idle
                            /\ req'[g].pc = "filter" => req'[g].op = "delete"
    BY <1>2, <1>3 DEF ListInv, HeapInv
  <2> QED
    BY <1>1, <1>6, <2>1 DEF ListInv, HeapInv
<1>8. OptInv'
  <2>1. ~overlapped' /\ Quiet' => ~overlapped /\ Quiet
    BY <1>1, <1>2 DEF Quiet
  <2> QED
    BY <1>1, <1>6, <2>1 DEF ListInv, OptInv, Bare, There, IsOptions
<1>9. NamesInv'
  <2> SUFFICES ASSUME ~overlapped' PROVE NamesInv'
    BY DEF NamesInv
  <2>1. ~overlapped /\ req[h].op # "delete"
    BY <1>1
  <2>2. Solo'
    BY <1>2, <1>3, <2>1 DEF Solo, ListInv, NamesInv
  <2>3. \A g \in Handlers : req'[g].pc \in {"filter", "save"} => DistinctSlice(heap', req'[g].list)
    BY <1>2, <1>3, <1>6, <2>1 DEF ListInv, NamesInv
  <2>4. \A g \in Handlers : req'[g].pc \notin {"rotate", "apply"}
    BY <1>1, <1>2, <1>3 DEF Inv, Holder
  <2>5. Intact' => Intact
    BY <1>1, <1>2, <2>1 DEF Intact
  <2>6. Intact' => DistinctSlice(heap', mem'.tokens)
    BY <1>1, <1>6, <2>1, <2>5 DEF ListInv, NamesInv
  <2> QED
    BY <1>1, <2>1, <2>2, <2>3, <2>4, <2>6 DEF ListInv, NamesInv
<1> QED
  BY <1>7, <1>8, <1>9 DEF ListInv

\* The overlay that was saved becomes the one in memory, and Options its copy.
LEMMA ListApply ==
  ASSUME Inv, ListInv, NEW h \in Handlers, Apply(h)
  PROVE  ListInv'
<1> DEFINE r == IF req[h].op = "restore" THEN Idle
                ELSE [pc |-> "announce", op |-> req[h].op, list |-> Nil]
           t == IF f.tokens = Nil THEN Absent ELSE ContentsIn(heap, f.tokens)
<1>1. /\ UNCHANGED <<cur, bak, watch, overlapped>> /\ req[h].pc = "apply"
      /\ mem' = f /\ opts' = ApplyLocked(f.names, f.ha, t, opts)
      /\ f' = Empty /\ req' = [req EXCEPT ![h] = r] /\ Collect(heap)
  BY DEF Apply, files, history, Contents, ContentsIn
<1>2. /\ r.list = Nil /\ (r.pc = "idle" => r = Idle) /\ r.pc \in {"idle", "announce"}
      /\ r.op = "delete" => req[h].op = "delete" /\ r.pc = "announce"
  BY DEF Idle
<1> HIDE DEF r
<1>3. req'[h] = r /\ \A g \in Handlers : g # h => req'[g] = req[g]
  BY <1>1 DEF Inv, Shape
<1>4. f'.tokens = Nil /\ \A g \in Handlers : req'[g].list \in {req[g].list, Nil}
  BY <1>1, <1>2, <1>3 DEF Empty
<1>5. heap \in Heaps /\ IsSlice(heap, mem'.tokens)
  BY <1>1 DEF ListInv, HeapInv
<1>6. /\ heap' \in Heaps
      /\ IsSlice(heap', f.tokens) /\ IsSlice(heap', f'.tokens)
      /\ f.tokens # Nil => ContentsIn(heap', f.tokens) = ContentsIn(heap, f.tokens)
      /\ DistinctSlice(heap, f.tokens) => DistinctSlice(heap', f.tokens)
      /\ \A g \in Handlers :
           /\ IsSlice(heap', req'[g].list)
           /\ DistinctSlice(heap, req[g].list) => DistinctSlice(heap', req'[g].list)
  BY <1>1, <1>4, <1>5, Collected
<1>7. f.tokens # Nil => t = ContentsIn(heap, f.tokens) /\ t \in Seq(Names) /\ t # Absent
  <2>1. ASSUME f.tokens # Nil PROVE ContentsIn(heap, f.tokens) \in Seq(Names)
    BY <1>1, <1>5, <2>1, SliceContents
  <2> QED
    BY <2>1, ConstantsAssumption
<1>8. /\ opts'.names = IF f.names = Absent THEN 0 ELSE f.names
      /\ f.ha # Absent => opts'.ha = f.ha
      /\ opts'.source = IF f.tokens = Nil THEN "env" ELSE "runtime"
      /\ opts'.tokens = IF f.tokens = Nil THEN EnvTokens ELSE ContentsIn(heap, f.tokens)
      /\ IsOptions(opts')
  <2>1. f.tokens = Nil => t = Absent
    OBVIOUS
  <2> HIDE DEF t
  <2> QED
    BY <1>1, <1>7, <2>1 DEF ApplyLocked, IsOptions
<1>9. HeapInv'
  <2>1. \A g \in Handlers : /\ req'[g].pc = "idle" => req'[g] = Idle
                            /\ req'[g].pc = "filter" => req'[g].op = "delete"
    BY <1>2, <1>3 DEF ListInv, HeapInv
  <2>2. opts'.tokens \in Seq(Names)
    BY <1>7, <1>8, ConstantsAssumption
  <2> QED
    BY <1>1, <1>6, <2>1, <2>2 DEF ListInv, HeapInv
<1>10. OptInv'
  <2>1. Bare(cur)' /\ Bare(watch.buf)' /\ IsOptions(opts)'
    BY <1>1, <1>8 DEF ListInv, OptInv, Bare, There, IsOptions
  <2> QED
    BY <1>1, <1>6, <1>8, <2>1 DEF OptInv
<1>11. NamesInv'
  <2> SUFFICES ASSUME ~overlapped PROVE NamesInv'
    BY <1>1 DEF NamesInv
  <2>1. Solo'
    BY <1>1, <1>2, <1>3 DEF Solo, ListInv, NamesInv
  <2>2. \A g \in Handlers : req'[g].pc \in {"filter", "save"} => DistinctSlice(heap', req'[g].list)
    BY <1>2, <1>3, <1>6 DEF ListInv, NamesInv
  <2>3. \A g \in Handlers : req'[g].pc \notin {"rotate", "apply"}
    BY <1>1, <1>2, <1>3 DEF Inv, Holder
  <2>4. DistinctSlice(heap', mem'.tokens)
    BY <1>1, <1>6 DEF ListInv, NamesInv
  <2>5. IsInjective(opts'.tokens)
    BY <1>1, <1>8, ConstantsAssumption DEF ListInv, NamesInv, DistinctSlice
  <2> QED
    BY <1>1, <2>1, <2>2, <2>3, <2>4, <2>5 DEF ListInv, NamesInv
<1> QED
  BY <1>9, <1>10, <1>11 DEF ListInv

\* A file's list, once its bytes are in array a.
LEMMA Installed ==
  ASSUME NEW G \in Heaps, NEW a \in Arrays, NEW t, IsList(t), t # Absent => G[a] = t,
         NEW s, s = IF t = Absent THEN Nil ELSE [arr |-> a, len |-> Len(t)]
  PROVE  /\ IsSlice(G, s) /\ (s = Nil <=> t = Absent)
         /\ t # Absent => ContentsIn(G, s) = t
         /\ DistinctList(t) => DistinctSlice(G, s)
<1>1. CASE t = Absent
  BY <1>1 DEF IsSlice, DistinctSlice
<1>2. CASE t # Absent
  <2>1. IsSlice(G, s) /\ ContentsIn(G, s) = t
    BY <1>2, SliceWhole
  <2>2. a # 0 /\ s.arr = a /\ Nil.arr = 0
    BY <1>2 DEF Arrays, Nil
  <2> QED
    BY <1>2, <2>1, <2>2 DEF DistinctSlice, DistinctList
<1> QED
  BY <1>1, <1>2

\* What loadAndApply makes of the options: the file's, or, without a file, what
\* they were.
LEMMA LoadedOptions ==
  ASSUME NEW g, Bare(g), NEW old, IsOptions(old), NEW o, o = Loaded(g, old)
  PROVE  /\ IsOptions(o)
         /\ o.source = IF g.tokens = Absent THEN "env" ELSE "runtime"
         /\ ~o.kept =>
              /\ o.names = IF g.names = Absent THEN 0 ELSE g.names
              /\ g.ha # Absent => o.ha = g.ha
              /\ g.tokens = Absent => o.tokens = EnvTokens
         /\ g.tokens # Absent => o.tokens = g.tokens
         /\ o.tokens \in {old.tokens, EnvTokens, g.tokens}
         /\ g.tokens = Absent => o.tokens \in {old.tokens, EnvTokens}
         /\ old = EnvOptions => ~o.kept
<1>1. CASE There(g)
  <2>1. o = ApplyLocked(g.names, g.ha, g.tokens, old)
    BY <1>1 DEF Loaded
  <2> QED
    BY <2>1 DEF ApplyLocked, IsOptions
<1>2. CASE ~There(g)
  <2>1. o = [old EXCEPT !.source = "env", !.kept = (old # EnvOptions)]
    BY <1>2 DEF Loaded
  <2>2. /\ IsOptions(o) /\ o.source = "env" /\ o.kept = (old # EnvOptions)
        /\ o.names = old.names /\ o.ha = old.ha /\ o.tokens = old.tokens
    BY <2>1 DEF IsOptions
  <2>3. ~o.kept => o.names = 0 /\ o.tokens = EnvTokens
    <3>1. ~o.kept => old = EnvOptions
      BY <2>2, Zenon
    <3>2. EnvOptions.names = 0 /\ EnvOptions.tokens = EnvTokens
      BY DEF EnvOptions
    <3> QED
      BY <2>2, <3>1, <3>2
  <2> QED
    BY <1>2, <2>2, <2>3 DEF Bare
<1> QED
  BY <1>1, <1>2

\* The watcher installs the file that it has read; no save is under way.
LEMMA ListInstall ==
  ASSUME Inv, ListInv, WatchInstall
  PROVE  ListInv'
<1> DEFINE t == watch.buf.tokens
           H == Unmarshalled(watch.buf, Fresh)
<1>1. /\ UNCHANGED <<cur, bak, f, req, overlapped>> /\ lock = 0 /\ watch.pc = "install"
      /\ mem'.names = watch.buf.names /\ mem'.ha = watch.buf.ha
      /\ mem'.tokens = IF t = Absent THEN Nil ELSE [arr |-> Fresh, len |-> Len(t)]
      /\ opts' = Loaded(watch.buf, opts)
      /\ watch' = [watch EXCEPT !.pc = "announce", !.buf = NoFile]
      /\ Collect(H)
  BY DEF WatchInstall, files, saving, history, Unmarshal
<1>2. watch'.pc = "announce" /\ watch'.buf = NoFile
  BY <1>1 DEF Inv, Shape, IsWatcher
<1>3. heap \in Heaps /\ Fresh \in Arrays /\ Fresh \notin Referred /\ IsList(t)
  BY FreshExists DEF ListInv, HeapInv
<1>4. /\ H \in Heaps /\ (t # Absent => H[Fresh] = t)
      /\ \A a \in Arrays : a \in Referred => H[a] = heap[a]
  <2>1. CASE t = Absent
    BY <1>3, <2>1 DEF Unmarshalled
  <2>2. CASE t # Absent
    <3>1. H = [heap EXCEPT ![Fresh] = t] /\ t \in Seq(Names)
      BY <1>3, <2>2 DEF Unmarshalled, IsList
    <3> HIDE DEF H, t
    <3> QED
      BY <1>3, <3>1 DEF Heaps
  <2> QED
    BY <2>1, <2>2
<1> HIDE DEF H, t
<1>5. /\ IsSlice(H, mem'.tokens) /\ (mem'.tokens = Nil <=> t = Absent)
      /\ t # Absent => ContentsIn(H, mem'.tokens) = t
      /\ DistinctList(t) => DistinctSlice(H, mem'.tokens)
  BY <1>1, <1>3, <1>4, Installed
<1>6. f'.tokens = f.tokens /\ \A g \in Handlers : req'[g].list = req[g].list
  BY <1>1
<1>7. /\ heap' \in Heaps
      /\ IsSlice(heap', mem'.tokens) /\ IsSlice(heap', f'.tokens)
      /\ mem'.tokens # Nil => ContentsIn(heap', mem'.tokens) = ContentsIn(H, mem'.tokens)
      /\ DistinctSlice(H, mem'.tokens) => DistinctSlice(heap', mem'.tokens)
      /\ \A g \in Handlers :
           /\ IsSlice(heap', req'[g].list)
           /\ DistinctSlice(heap, req[g].list) => DistinctSlice(heap', req'[g].list)
  BY <1>1, <1>4, <1>5, <1>6, Collected
<1>9. /\ opts'.source = IF mem'.tokens = Nil THEN "env" ELSE "runtime"
      /\ ~opts'.kept =>
           /\ opts'.names = IF mem'.names = Absent THEN 0 ELSE mem'.names
           /\ mem'.ha # Absent => opts'.ha = mem'.ha
           /\ mem'.tokens = Nil => opts'.tokens = EnvTokens
      /\ mem'.tokens # Nil => opts'.tokens = t
      /\ IsOptions(opts')
      /\ opts'.tokens \in {opts.tokens, EnvTokens} \/ (opts'.tokens = t /\ t # Absent)
  BY <1>1, <1>5, LoadedOptions DEF t, ListInv, OptInv
<1>10. watch'.buf.tokens = Absent
  BY <1>2 DEF NoFile
<1>11. HeapInv'
  <2>1. opts'.tokens \in Seq(Names)
    BY <1>3, <1>9, ConstantsAssumption DEF IsList, ListInv, HeapInv
  <2>2. IsList(watch'.buf.tokens)
    BY <1>10 DEF IsList
  <2> QED
    BY <1>1, <1>7, <2>1, <2>2 DEF ListInv, HeapInv
<1>12. OptInv'
  <2>1. Bare(cur)' /\ Bare(watch.buf)' /\ IsOptions(opts)'
    BY <1>1, <1>2, <1>9 DEF ListInv, OptInv, Bare, There, IsOptions, NoFile
  <2> QED
    BY <1>5, <1>7, <1>9, <2>1 DEF OptInv
<1>13. NamesInv'
  <2> SUFFICES ASSUME ~overlapped PROVE NamesInv'
    BY <1>1 DEF NamesInv
  <2>1. Solo' /\ \A g \in Handlers : req'[g].pc \in {"filter", "save"} => DistinctSlice(heap', req'[g].list)
    BY <1>1, <1>7 DEF Solo, ListInv, NamesInv
  <2>2. \A g \in Handlers : req'[g].pc \notin {"rotate", "apply"}
    BY <1>1, ConstantsAssumption DEF Inv, Holder
  <2>3. DistinctSlice(heap', mem'.tokens)
    BY <1>5, <1>7 DEF ListInv, NamesInv, t
  <2>4. DistinctList(watch'.buf.tokens)
    BY <1>10 DEF DistinctList
  <2>5. IsInjective(opts'.tokens)
    BY <1>9, ConstantsAssumption DEF ListInv, NamesInv, DistinctList, t
  <2> QED
    BY <1>1, <2>1, <2>2, <2>3, <2>4, <2>5 DEF ListInv, NamesInv
<1> QED
  BY <1>11, <1>12, <1>13 DEF ListInv

\* A restart reads the file that is there, with no request under way.
LEMMA ListCrash ==
  ASSUME Inv, ListInv, FilesInv, Crash
  PROVE  ListInv'
<1> DEFINE t == cur.tokens
<1>1. /\ UNCHANGED <<cur, overlapped>>
      /\ mem'.names = cur.names /\ mem'.ha = cur.ha
      /\ mem'.tokens = IF t = Absent THEN Nil ELSE [arr |-> 1, len |-> Len(t)]
      /\ heap' = [a \in Arrays |-> IF a = 1 /\ t # Absent THEN t ELSE <<>>]
      /\ opts' = Loaded(cur, EnvOptions) /\ f' = Empty
      /\ req' = [h \in Handlers |-> Idle]
      /\ watch' = [pc |-> "start", lastMod |-> 0, buf |-> NoFile]
      /\ bak' = bak \/ (slot > 0 /\ bak' \in CutOff(slot))
  BY DEF Crash, Unmarshal
<1>2. IsList(t) /\ (~overlapped => DistinctList(t))
  BY DEF ListInv, HeapInv, NamesInv
<1>3. 1 \in Arrays
  <2>1. Cardinality(Handlers) \in Nat
    BY ConstantsAssumption, FS_CardinalityType
  <2> QED
    BY <2>1 DEF Arrays
<1> HIDE DEF t
<1>4. heap' \in Heaps /\ (t # Absent => heap'[1] = t)
  <2>1. <<>> \in Seq(Names) /\ (t # Absent => t \in Seq(Names))
    BY <1>2 DEF IsList
  <2> QED
    BY <1>1, <1>3, <2>1 DEF Heaps
<1>5. /\ IsSlice(heap', mem'.tokens) /\ (mem'.tokens = Nil <=> t = Absent)
      /\ t # Absent => ContentsIn(heap', mem'.tokens) = t
      /\ DistinctList(t) => DistinctSlice(heap', mem'.tokens)
  BY <1>1, <1>2, <1>3, <1>4, Installed
<1>6. /\ \A i \in Slots : IsList(bak'[i].tokens)
      /\ ~overlapped => \A i \in Slots : DistinctList(bak'[i].tokens)
  <2>1. CASE bak' = bak
    BY <2>1 DEF ListInv, HeapInv, NamesInv
  <2>2. CASE slot > 0 /\ bak' \in CutOff(slot)
    <3>1. slot \in Slots
      BY <2>2, ConstantsAssumption DEF FilesInv, BackupsOrdered, Slots
    <3> QED
      BY <2>2, <3>1, ListCutOff
  <2> QED
    BY <1>1, <2>1, <2>2
<1>8. /\ opts'.names = IF mem'.names = Absent THEN 0 ELSE mem'.names
      /\ mem'.ha # Absent => opts'.ha = mem'.ha
      /\ opts'.source = IF mem'.tokens = Nil THEN "env" ELSE "runtime"
      /\ opts'.tokens = IF mem'.tokens = Nil THEN EnvTokens ELSE t
      /\ IsOptions(opts')
  <2>1. Bare(cur) /\ IsOptions(EnvOptions)
    BY DEF ListInv, OptInv, IsOptions, EnvOptions
  <2> QED
    BY <1>1, <1>5, <2>1, LoadedOptions DEF t
<1>9. /\ f'.tokens = Nil /\ watch'.buf.tokens = Absent /\ watch'.pc = "start"
      /\ \A g \in Handlers : req'[g] = Idle
      /\ Idle.list = Nil /\ Idle.pc = "idle" /\ Idle.op = "none"
  BY <1>1 DEF Empty, NoFile, Idle
<1>10. HeapInv'
  <2>1. opts'.tokens \in Seq(Names)
    BY <1>2, <1>5, <1>8, ConstantsAssumption DEF IsList
  <2>2. IsList(Absent) /\ IsSlice(heap', Nil)
    BY DEF IsList, IsSlice
  <2>3. IsList(cur'.tokens)
    BY <1>1, <1>2 DEF t
  <2> QED
    BY <1>4, <1>5, <1>6, <1>9, <2>1, <2>2, <2>3 DEF HeapInv
<1>11. OptInv'
  <2>1. Bare(cur)' /\ Bare(watch.buf)' /\ IsOptions(opts)'
    BY <1>1, <1>8 DEF ListInv, OptInv, Bare, There, IsOptions, NoFile
  <2> QED
    BY <1>5, <1>8, <1>9, <2>1 DEF OptInv
<1>12. NamesInv'
  <2>1. Solo'
    BY <1>9 DEF Solo
  <2>2. DistinctList(Absent)
    BY DEF DistinctList
  <2>3. ~overlapped' => DistinctList(cur'.tokens)
    BY <1>1, <1>2 DEF t
  <2>4. ~overlapped' => DistinctSlice(heap', mem'.tokens)
    BY <1>1, <1>2, <1>5
  <2>5. ~overlapped' => IsInjective(opts'.tokens)
    BY <1>1, <1>2, <1>5, <1>8, ConstantsAssumption DEF DistinctList
  <2> QED
    BY <1>1, <1>6, <1>9, <2>1, <2>2, <2>3, <2>4, <2>5 DEF NamesInv
<1> QED
  BY <1>10, <1>11, <1>12 DEF ListInv

\* The lists are in order in every state.
LEMMA ListAlways == Spec => []ListInv
<1>1. Init => ListInv
  <2> SUFFICES ASSUME Init PROVE ListInv
    OBVIOUS
  <2>1. /\ cur.tokens = Absent /\ (\A i \in Slots : bak[i].tokens = Absent)
        /\ watch.buf.tokens = Absent /\ watch.pc = "start"
        /\ mem.names = Absent /\ mem.ha = Absent /\ mem.tokens = Nil /\ f.tokens = Nil
        /\ opts = EnvOptions /\ heap = [a \in Arrays |-> <<>>]
        /\ \A h \in Handlers : req[h] = Idle
    BY DEF Init, NoFile, Empty
  <2>2. Idle.list = Nil /\ Idle.pc = "idle" /\ Idle.op = "none"
    BY DEF Idle
  <2>3. heap \in Heaps
    BY <2>1 DEF Heaps
  <2>4. IsList(Absent) /\ DistinctList(Absent) /\ IsSlice(heap, Nil) /\ DistinctSlice(heap, Nil)
    BY DEF IsList, DistinctList, IsSlice, DistinctSlice
  <2>5. HeapInv
    BY <2>1, <2>2, <2>3, <2>4, ConstantsAssumption DEF HeapInv, EnvOptions
  <2>6. OptInv
    <3>1. Bare(cur) /\ Bare(watch.buf)
      BY DEF Init, NoFile, Bare
    <3> QED
      BY <2>1, <3>1 DEF OptInv, EnvOptions, IsOptions
  <2>7. NamesInv
    BY <2>1, <2>2, <2>4, ConstantsAssumption DEF NamesInv, Solo, EnvOptions
  <2> QED
    BY <2>5, <2>6, <2>7 DEF ListInv
<1>2. Inv /\ FilesInv /\ ListInv /\ [Next]_vars => ListInv'
  <2> SUFFICES ASSUME Inv, FilesInv, ListInv, [Next]_vars PROVE ListInv'
    OBVIOUS
  <2>1. CASE UNCHANGED vars
    <3>1. /\ UNCHANGED <<mem, opts, heap, overlapped, cur, bak, watch, f, req>>
      BY <2>1 DEF vars, files, memory, saving, history
    <3> QED
      BY <3>1 DEF ListInv, HeapInv, OptInv, NamesInv, Quiet, Solo, Intact, Bare, There, IsOptions
  <2>2. ASSUME NEW h \in Handlers, Request(h) PROVE ListInv'
    BY <2>2, ListPutConfig, ListCreate, ListDelete, ListRestore DEF Request
  <2>3. ASSUME NEW h \in Handlers, Proceed(h) PROVE ListInv'
    BY <2>3, ListFilter, ListSave, ListRotate, ListReplace, ListPersistFails, ListApply,
       ListOnChange DEF Proceed
  <2>4. CASE Watch
    BY <2>4, ListWatch, ListInstall DEF Watch
  <2>5. ASSUME NEW c \in Edits, EditFile(c) PROVE ListInv'
    BY <2>5, ListEdit
  <2> QED
    BY <2>1, <2>2, <2>3, <2>4, <2>5, ListCrash DEF Next
<1> QED
  BY <1>1, <1>2, FilesAlways, PTL DEF Spec

-----------------------------------------------------------------------------
\* As long as no deletion is under way, met another request or failed, the
\* settings in force are those of the overlay in memory, through saves, reloads,
\* restores, failed saves and restarts, although Options and the overlay hold
\* lists of their own and a deletion shortens the overlay's in place.
THEOREM OptionsCorrect == Spec => []OptionsFollowOverlay
<1>1. ListInv => OptionsFollowOverlay
  BY DEF ListInv, OptInv, OptionsFollowOverlay, Quiet, Contents, ContentsIn
<1> QED
  BY <1>1, ListAlways, PTL

\* The names of the tokens on disk are distinct as long as no deletion met
\* another request or failed: createAPIToken's check is then made on the list
\* that is saved, whichever of memory, backups and file it comes from.
THEOREM NamesCorrect == Spec => []TokenNamesDistinct
<1>1. ListInv => TokenNamesDistinct
  BY DEF ListInv, NamesInv, TokenNamesDistinct, DistinctList
<1> QED
  BY <1>1, ListAlways, PTL

=============================================================================
