---------------------------- MODULE RuntimeConfig ----------------------------
(***************************************************************************)
(* The runtime overlay (rflink/runtime_config.go): a file over the         *)
(* environment's settings, saved by HTTP handlers through a rotation of    *)
(* backups and an atomic rename, hot-reloaded by a watcher that polls its  *)
(* modification time, and the API-token handlers that read the overlay,    *)
(* change the list and save it (rflink/http_server.go).                    *)
(*                                                                         *)
(* A file is [id, state, names, ha, tokens]: id is its modification time,  *)
(* the number of the change that made it (or removed it); state says       *)
(* whether it is "json" that parses, "garbled" or "none", not there.       *)
(* names stands for the keys that go back to the environment when they are *)
(* absent (friendly_names, ignore_list, hwid_map), ha for the Home         *)
(* Assistant keys, which do not.  In memory the token list is a Go slice,  *)
(* [arr, len] over a backing array: a handler that shortens its slice in   *)
(* place writes into the manager's.  Two fields are histories: the id of   *)
(* the overlay in memory, the file it is or came from, and kept of the     *)
(* options, which have outlived the file they came from.                   *)
(***************************************************************************)
EXTENDS Integers, Sequences, FiniteSets, Functions, Subsequences

CONSTANTS
  Handlers,     \* HTTP requests that may be in progress at a time
  Names,        \* names of API tokens
  EnvTokens,    \* API_AUTH_TOKEN, as a sequence of names
  Keys,         \* keys putConfig may set, some of {"names", "ha"}
  Values,       \* values a key may be given
  Absent,       \* the key is not in the file
  BackupCount,  \* runtimeBackupCount
  Edits,        \* what somebody may make of the file
  MaxWrites,    \* bound on the writes of the file
  MaxFaults     \* bound on the crashes, the failures and the edits

ASSUME ConstantsAssumption ==
  /\ BackupCount \in Nat \ {0} /\ MaxWrites \in Nat /\ MaxFaults \in Nat
  /\ IsFiniteSet(Handlers) /\ Handlers # {} /\ 0 \notin Handlers
  /\ Keys \subseteq {"names", "ha"}
  /\ EnvTokens \in Seq(Names) /\ IsInjective(EnvTokens)
  /\ Absent \notin Values /\ 0 \notin Values /\ Absent # 0 /\ Absent \notin Seq(Names)

\* Whoever edits the file names no token twice, as in API_AUTH_TOKEN; there are
\* no keys in a file that does not parse or was removed.
ASSUME EditsAssumption ==
  \A c \in Edits :
    /\ c.state \in {"json", "garbled", "none"}
    /\ c.tokens = Absent \/ (c.tokens \in Seq(Names) /\ IsInjective(c.tokens))
    /\ c.state # "json" => c.names = Absent /\ c.ha = Absent /\ c.tokens = Absent

Slots == 1..BackupCount
Arrays == 1..(2 * Cardinality(Handlers) + 2)
Nil == [arr |-> 0, len |-> 0]

VARIABLES
  cur,        \* runtime.json
  bak,        \* runtime.json.bak.1 ...
  mem,        \* runtimeManager.file
  opts,       \* what applyLocked has put into Options
  heap,       \* backing arrays of token lists
  lock,       \* who holds runtimeManager.mu across several steps, or 0
  req,        \* the requests in progress
  f,          \* the RuntimeFile the lock's holder saves
  slot,       \* where the rotation of the backups is
  watch,      \* the watcher: its position, lastMod and what it has read
  announced,  \* onChange was called after the last change of the settings
  log,        \* history: what runtime.json has been
  missed,     \* history: the change the watcher has let pass
  overlapped, \* history: a deletion met another request, or failed
  faults      \* crashes, failures and edits so far

files == <<cur, bak, log>>
memory == <<mem, opts, announced>>
saving == <<lock, f, slot>>
history == <<missed, overlapped, faults>>
vars == <<files, memory, heap, saving, req, watch, history>>

-----------------------------------------------------------------------------
(* Slices and files. *)

There(g) == g.state # "none"
Parses(g) == g.state = "json"

Contents(s) == SubSeq(heap[s.arr], 1, s.len)

\* Backing arrays nothing refers to.
Referred == {mem.tokens.arr, f.tokens.arr} \cup {req[h].list.arr : h \in Handlers}
Fresh == CHOOSE a \in Arrays : a \notin Referred

\* Garbage collection, with the references of the next state.
Collect(h) == heap' = [a \in Arrays |-> IF a \in Referred' THEN h[a] ELSE <<>>]

\* omitempty: an empty list is not written, no more than a nil one.
Marshal(g) ==
  [id |-> Len(log) + 1, state |-> "json", names |-> g.names, ha |-> g.ha,
   tokens |-> IF g.tokens.len = 0 THEN Absent ELSE Contents(g.tokens)]

\* Mutant: the bytes are unmarshalled over the overlay in memory.
UnmarshalOver(file, a) ==
  [id |-> file.id,
   names |-> IF file.names = Absent THEN mem.names ELSE file.names,
   ha |-> IF file.ha = Absent THEN mem.ha ELSE file.ha,
   tokens |-> IF file.tokens = Absent THEN Nil ELSE [arr |-> a, len |-> Len(file.tokens)]]

\* The overlay a file's bytes stand for; its list lives in array a.
Unmarshal(file, a) ==
  [id |-> file.id, names |-> file.names, ha |-> file.ha,
   tokens |-> IF file.tokens = Absent THEN Nil ELSE [arr |-> a, len |-> Len(file.tokens)]]

\* The backing array that Unmarshal allocates.
Unmarshalled(file, a) ==
  IF file.tokens = Absent THEN heap ELSE [heap EXCEPT ![a] = file.tokens]

\* Mutant: the tokens, too, keep their last value.
ApplyLockedKeeps(names, ha, tokens, old) ==
  [names  |-> IF names = Absent THEN 0 ELSE names,
   ha     |-> IF ha = Absent THEN old.ha ELSE ha,
   tokens |-> IF tokens = Absent THEN old.tokens ELSE tokens,
   source |-> IF tokens = Absent THEN "env" ELSE "runtime",
   kept   |-> FALSE]

\* applyLocked: the runtime file over the environment.  The Home Assistant
\* keys keep their last value when the file does not have them.
ApplyLocked(names, ha, tokens, old) ==
  [names  |-> IF names = Absent THEN 0 ELSE names,
   ha     |-> IF ha = Absent THEN old.ha ELSE ha,
   tokens |-> IF tokens = Absent THEN EnvTokens ELSE tokens,
   source |-> IF tokens = Absent THEN "env" ELSE "runtime",
   kept   |-> FALSE]

EnvOptions ==
  [names |-> 0, ha |-> 0, tokens |-> EnvTokens, source |-> "env", kept |-> FALSE]

\* loadAndApply of the file g: without a file the options stay as they are, and
\* are said to be the environment's.
Loaded(g, old) ==
  IF There(g) THEN ApplyLocked(g.names, g.ha, g.tokens, old)
  ELSE [old EXCEPT !.source = "env", !.kept = (old # EnvOptions)]

NoFile == [id |-> 0, state |-> "none", names |-> Absent, ha |-> Absent, tokens |-> Absent]
Empty == [id |-> 0, names |-> Absent, ha |-> Absent, tokens |-> Nil]
Idle == [pc |-> "idle", op |-> "none", list |-> Nil]

\* A fresh installation: newRuntimeManager finds no file.
Init ==
  /\ cur = NoFile
  /\ log = <<NoFile>>
  /\ bak = [s \in Slots |-> NoFile]
  /\ heap = [a \in Arrays |-> <<>>]
  /\ mem = Empty
  /\ opts = EnvOptions
  /\ announced = TRUE
  /\ lock = 0 /\ f = Empty /\ slot = 0
  /\ req = [h \in Handlers |-> Idle]
  /\ watch = [pc |-> "start", lastMod |-> 0, buf |-> NoFile]
  /\ missed = 0 /\ overlapped = FALSE /\ faults = 0

-----------------------------------------------------------------------------
(* The handlers up to the save. *)

Fault == faults < MaxFaults /\ faults' = faults + 1

Busy(h) == req[h].pc # "idle"

\* A new request meets another one and one of the two deletes a token.
Overlap(h, op) ==
  overlapped' = (overlapped \/ \E g \in Handlers \ {h} :
                   Busy(g) /\ (op = "delete" \/ req[g].op = "delete"))

\* SaveOverlay of a patch to the overlay g: lock, and start rotating.
StartSave(h, g) ==
  /\ lock = 0
  /\ Len(log) < MaxWrites
  /\ lock' = h
  /\ f' = g
  /\ slot' = BackupCount

\* putConfig
PutConfig(h, key, v) ==
  /\ ~Busy(h)
  /\ StartSave(h, [mem EXCEPT ![key] = v])
  /\ req' = [req EXCEPT ![h] = [pc |-> "rotate", op |-> key, list |-> Nil]]
  /\ Overlap(h, key)
  /\ UNCHANGED <<files, memory, heap, watch, missed, faults>>

\* What createAPIToken and deleteAPIToken take for the list.
TokenList == IF opts.source = "runtime" THEN Contents(mem.tokens) ELSE opts.tokens

\* Mutant: no check for a token of the same name.
NameTakenNever(name) == FALSE

NameTaken(name) == \E i \in DOMAIN TokenList : TokenList[i] = name

\* createAPIToken works on a copy; a name that exists is refused.
CreateAPIToken(h, name) ==
  /\ ~Busy(h)
  /\ lock = 0
  /\ ~NameTaken(name)
  /\ heap' = [heap EXCEPT ![Fresh] = Append(TokenList, name)]
  /\ req' = [req EXCEPT ![h] = [pc |-> "save", op |-> "create",
               list |-> [arr |-> Fresh, len |-> Len(TokenList) + 1]]]
  /\ Overlap(h, "create")
  /\ UNCHANGED <<files, memory, saving, watch, missed, faults>>

\* deleteAPIToken takes the manager's own slice, or builds one from the
\* environment's tokens.
DeleteAPIToken(h) ==
  /\ ~Busy(h)
  /\ lock = 0
  /\ IF opts.source = "runtime" \/ opts.tokens = <<>>
     THEN /\ req' = [req EXCEPT ![h] = [pc |-> "filter", op |-> "delete", list |-> mem.tokens]]
          /\ UNCHANGED heap
     ELSE /\ heap' = [heap EXCEPT ![Fresh] = opts.tokens]
          /\ req' = [req EXCEPT ![h] = [pc |-> "filter", op |-> "delete",
                       list |-> [arr |-> Fresh, len |-> Len(opts.tokens)]]]
  /\ Overlap(h, "delete")
  /\ UNCHANGED <<files, memory, saving, watch, missed, faults>>

\* filtered := list[:0]: what stays is moved to the front of the same array,
\* without the lock.
Filter(h, name) ==
  /\ req[h].pc = "filter"
  /\ LET s == req[h].list
         kept == IF s = Nil THEN <<>>
                 ELSE Kept(Contents(s), {i \in 1..s.len : Contents(s)[i] # name})
     IN /\ req' = [req EXCEPT ![h] = [pc |-> "save", op |-> "delete",
                                      list |-> [s EXCEPT !.len = Len(kept)]]]
        /\ heap' = IF s = Nil THEN heap
                   ELSE [heap EXCEPT ![s.arr] =
                          [i \in DOMAIN @ |-> IF i <= Len(kept) THEN kept[i] ELSE @[i]]]
  /\ UNCHANGED <<files, memory, saving, watch, history>>

\* SaveOverlay of the new list; a nil one is no patch.
SaveTokens(h) ==
  /\ req[h].pc = "save"
  /\ StartSave(h, IF req[h].list = Nil THEN mem ELSE [mem EXCEPT !.tokens = req[h].list])
  /\ req' = [req EXCEPT ![h].pc = "rotate", ![h].list = Nil]
  /\ UNCHANGED <<files, memory, heap, watch, history>>

\* A backup that is missing or does not parse is refused.
RestoreBackup(h, s) ==
  /\ ~Busy(h)
  /\ bak[s].id > 0 /\ Parses(bak[s])
  /\ StartSave(h, Unmarshal(bak[s], Fresh))
  /\ heap' = Unmarshalled(bak[s], Fresh)
  /\ req' = [req EXCEPT ![h] = [pc |-> "rotate", op |-> "restore", list |-> Nil]]
  /\ Overlap(h, "restore")
  /\ UNCHANGED <<files, memory, watch, missed, faults>>

-----------------------------------------------------------------------------
(* persistLocked, with the lock held. *)

\* Mutant: every slot is copied from the current file.
RotateFromCurrent(s) == cur

RotateFrom(s) == IF s = 1 THEN cur ELSE bak[s - 1]

\* rotateBackupsLocked, from the last slot to the first: a source that is not
\* there is skipped, else its bytes replace the destination.
RotateSlot(h) ==
  /\ req[h].pc = "rotate"
  /\ slot > 0
  /\ bak' = IF There(RotateFrom(slot)) THEN [bak EXCEPT ![slot] = RotateFrom(slot)] ELSE bak
  /\ slot' = slot - 1
  /\ UNCHANGED <<cur, log, req, memory, heap, lock, f, watch, history>>

\* What a copy that is cut off leaves of its destination: the file was removed,
\* or created and not written to the end.
CutOff(s) == {[bak EXCEPT ![s] = [NoFile EXCEPT !.state = left]] : left \in {"none", "garbled"}}

\* A copy that fails ends the rotation and nothing else: the save goes on.
RotateFails(h) ==
  /\ req[h].pc = "rotate"
  /\ slot > 0 /\ There(RotateFrom(slot))
  /\ bak' \in CutOff(slot)
  /\ slot' = 0
  /\ Fault
  /\ UNCHANGED <<cur, log, req, memory, heap, lock, f, watch, missed, overlapped>>

\* The temporary file is written, synced and renamed over runtime.json.
Replace(h) ==
  /\ req[h].pc = "rotate"
  /\ slot = 0
  /\ cur' = Marshal(f)
  /\ log' = Append(log, Marshal(f))
  /\ f' = [f EXCEPT !.id = Len(log) + 1]
  /\ req' = [req EXCEPT ![h].pc = "apply"]
  /\ UNCHANGED <<bak, memory, heap, lock, slot, watch, history>>

\* Any step of it fails: the error is the answer, memory stays as it was, and
\* so do the rotated backups and the array a deletion has shortened.
PersistFails(h) ==
  /\ req[h].pc = "rotate"
  /\ slot = 0
  /\ lock' = 0
  /\ f' = Empty
  /\ Fault
  /\ overlapped' = (overlapped \/ req[h].op = "delete")
  /\ req' = [req EXCEPT ![h] = Idle]
  /\ UNCHANGED <<files, memory, slot, watch, missed>>
  /\ Collect(heap)

\* rm.file = f; applyLocked; unlock.  Only SaveOverlay calls onChange.
Apply(h) ==
  /\ req[h].pc = "apply"
  /\ mem' = f
  /\ LET tokens == IF f.tokens = Nil THEN Absent ELSE Contents(f.tokens)
     IN opts' = ApplyLocked(f.names, f.ha, tokens, opts)
  /\ announced' = FALSE
  /\ lock' = 0
  /\ f' = Empty
  /\ req' = [req EXCEPT ![h] = IF req[h].op = "restore" THEN Idle
                               ELSE [pc |-> "announce", op |-> req[h].op, list |-> Nil]]
  /\ UNCHANGED <<files, slot, watch, history>>
  /\ Collect(heap)

OnChange(h) ==
  /\ req[h].pc = "announce"
  /\ announced' = TRUE
  /\ req' = [req EXCEPT ![h] = Idle]
  /\ UNCHANGED <<files, mem, opts, heap, saving, watch, history>>

\* The request's next step, once it was accepted.
Proceed(h) ==
  \/ \E name \in Names : Filter(h, name)
  \/ SaveTokens(h)
  \/ RotateSlot(h) \/ RotateFails(h) \/ Replace(h) \/ PersistFails(h)
  \/ Apply(h) \/ OnChange(h)

Request(h) ==
  \/ \E key \in Keys, v \in Values : PutConfig(h, key, v)
  \/ \E name \in Names : CreateAPIToken(h, name)
  \/ DeleteAPIToken(h)
  \/ \E s \in Slots : RestoreBackup(h, s)

-----------------------------------------------------------------------------
(* watchLoop, and what happens to the file and the process from outside. *)

\* A save under way will install the current file.
Saving == \E h \in Handlers : req[h].pc = "apply" /\ f.id = cur.id

\* A restore has changed the settings, or will, and tells nobody.
Untold ==
  \/ ~announced /\ \A h \in Handlers : req[h].pc # "announce"
  \/ \E h \in Handlers : req[h].pc = "apply" /\ req[h].op = "restore"

\* The watcher will not come back to the current file: it compares with its
\* time, although memory does not have it, or nobody was told of it.
LetPass ==
  missed' = IF watch'.lastMod = cur.id /\ ((mem.id # cur.id /\ ~Saving) \/ Untold)
            THEN cur.id ELSE missed

\* The watcher's first look at the file comes after newRuntimeManager has
\* loaded it: a file replaced in between counts as loaded.
WatchStart ==
  /\ watch.pc = "start"
  /\ watch' = [watch EXCEPT !.pc = "wait", !.lastMod = IF There(cur) THEN cur.id ELSE 0]
  /\ LetPass
  /\ UNCHANGED <<files, memory, heap, saving, req, overlapped, faults>>

\* A tick that finds another modification time.  A file that is not there is
\* passed over, and so is one that was removed.
WatchTick ==
  /\ watch.pc = "wait"
  /\ There(cur)
  /\ cur.id # watch.lastMod
  /\ watch' = [watch EXCEPT !.pc = "read", !.lastMod = cur.id]
  /\ UNCHANGED <<files, memory, heap, saving, req, history>>

\* The load fails, or what was read does not parse: that is logged.  The time
\* was taken before, so the watcher does not try this file again.
WatchReadFails ==
  /\ watch.pc = "read"
  /\ There(cur)
  /\ (~Parses(cur) /\ UNCHANGED faults) \/ Fault
  /\ watch' = [watch EXCEPT !.pc = "wait"]
  /\ LetPass
  /\ UNCHANGED <<files, memory, heap, saving, req, overlapped>>

\* loadAndApply reads the file without the lock; it may be gone by now ...
WatchRead ==
  /\ watch.pc = "read"
  /\ Parses(cur) \/ ~There(cur)
  /\ watch' = [watch EXCEPT !.pc = "install", !.buf = cur]
  /\ UNCHANGED <<files, memory, heap, saving, req, history>>

\* Mutant: the time is taken once more after the file was installed.
WatchInstallStamps ==
  /\ watch.pc = "install"
  /\ lock = 0
  /\ mem' = Unmarshal(watch.buf, Fresh)
  /\ opts' = Loaded(watch.buf, opts)
  /\ announced' = FALSE
  /\ watch' = [pc |-> "announce", lastMod |-> cur.id, buf |-> NoFile]
  /\ UNCHANGED <<files, saving, req, history>>
  /\ Collect(Unmarshalled(watch.buf, Fresh))

\* ... and installs what it has read.
WatchInstall ==
  /\ watch.pc = "install"
  /\ lock = 0
  /\ mem' = Unmarshal(watch.buf, Fresh)
  /\ opts' = Loaded(watch.buf, opts)
  /\ announced' = FALSE
  /\ watch' = [watch EXCEPT !.pc = "announce", !.buf = NoFile]
  /\ UNCHANGED <<files, saving, req, history>>
  /\ Collect(Unmarshalled(watch.buf, Fresh))

\* Mutant: a reload tells nobody.
WatchOnChangeSilent ==
  /\ watch.pc = "announce"
  /\ watch' = [watch EXCEPT !.pc = "wait"]
  /\ UNCHANGED <<files, memory, heap, saving, req, history>>

WatchOnChange ==
  /\ watch.pc = "announce"
  /\ announced' = TRUE
  /\ watch' = [watch EXCEPT !.pc = "wait"]
  /\ UNCHANGED <<files, mem, opts, heap, saving, req, history>>

Watch ==
  WatchStart \/ WatchTick \/ WatchRead \/ WatchReadFails \/ WatchInstall \/ WatchOnChange

\* Somebody replaces the file, not always with something that parses, or removes
\* it (external).
EditFile(c) ==
  /\ There(cur) \/ There(c)
  /\ Len(log) + Cardinality({h \in Handlers : req[h].pc = "rotate"}) < MaxWrites
  /\ cur' = [id |-> Len(log) + 1, state |-> c.state, names |-> c.names, ha |-> c.ha, tokens |-> c.tokens]
  /\ log' = Append(log, cur')
  /\ Fault
  /\ UNCHANGED <<bak, memory, heap, saving, req, watch, missed, overlapped>>

\* The process dies, perhaps while it copies a backup, and starts again
\* (external; newRuntimeManager).  With a file that does not parse it does not
\* start before somebody has replaced that.
Crash ==
  /\ Parses(cur) \/ ~There(cur)
  /\ bak' \in {bak} \cup (IF slot > 0 /\ There(RotateFrom(slot)) THEN CutOff(slot) ELSE {})
  /\ mem' = Unmarshal(cur, 1)
  /\ heap' = [a \in Arrays |-> IF a = 1 /\ cur.tokens # Absent THEN cur.tokens ELSE <<>>]
  /\ opts' = Loaded(cur, EnvOptions)
  /\ announced' = TRUE
  /\ lock' = 0 /\ f' = Empty /\ slot' = 0
  /\ req' = [h \in Handlers |-> Idle]
  /\ watch' = [pc |-> "start", lastMod |-> 0, buf |-> NoFile]
  /\ Fault
  /\ UNCHANGED <<cur, log, missed, overlapped>>

Next ==
  \/ \E h \in Handlers : Request(h) \/ Proceed(h)
  \/ Watch
  \/ \E c \in Edits : EditFile(c)
  \/ Crash

\* Handlers and watcher run on; mu is a fair lock and every save releases it.
Fairness == WF_vars(Watch) /\ \A h \in Handlers : WF_vars(Proceed(h))

Spec == Init /\ [][Next]_vars /\ Fairness

-----------------------------------------------------------------------------
\* The settings in force are those of the overlay in memory: the tokens that let
\* a request in are the ones that the next save will write.  Options has a copy
\* of the list, the overlay the slice that deleteAPIToken shortens in place: they
\* may differ while a deletion is under way, and after one that met another
\* request or failed.  A file gone when the watcher reads it empties the overlay
\* and leaves the options as they were.
OptionsFollowOverlay ==
  /\ ~overlapped
  /\ \A h \in Handlers : req[h].op = "delete" => req[h].pc = "announce"
  /\ ~opts.kept
  =>
    /\ opts.tokens = IF mem.tokens = Nil THEN EnvTokens ELSE Contents(mem.tokens)
    /\ opts.names = IF mem.names = Absent THEN 0 ELSE mem.names
    /\ mem.ha # Absent => opts.ha = mem.ha

\* runtime.json is always the last complete write, whatever crashes or fails;
\* a backup is torn or missing or an earlier write, newer ones in lower slots;
\* and as long as nothing crashed, failed or was edited, slot i holds exactly
\* the i-th write before the current one.
FilesAreHistory ==
  /\ cur = log[Len(log)]
  /\ \A i \in Slots : bak[i].id > 0 =>
       /\ bak[i].id <= Len(log) /\ bak[i] = log[bak[i].id]
       /\ \A j \in 1..i : bak[j].id > 0 => bak[j].id >= bak[i].id
  /\ faults = 0 /\ lock = 0 =>
       \A i \in Slots : bak[i] = (IF i < Len(log) THEN log[Len(log) - i] ELSE NoFile)

\* No change of the file escapes the watcher: it is in memory, about to be
\* installed, or its time differs from the one the watcher compares with;
\* except for a file that was removed, for the change between the start and the
\* watcher's first look, and for one whose load failed.
NoMissedUpdate ==
  \/ mem.id = cur.id \/ missed = cur.id \/ Saving \/ ~There(cur)
  \/ watch.pc \in {"start", "read"} \/ watch.lastMod # cur.id
  \/ watch.pc = "install" /\ watch.buf.id = cur.id

\* Token names on disk are distinct, unless a deletion (which shortens the
\* manager's list in place and without its lock) met another request or failed.
\* The operator's own lists (API_AUTH_TOKEN, an edited file) are taken to be so.
TokenNamesDistinct ==
  ~overlapped /\ cur.tokens # Absent => IsInjective(cur.tokens)

\* In the end the overlay in memory is the file, and the webhooks were told,
\* after a restore (which does not call onChange) too; unless the file is gone or
\* the watcher has let its last change pass.
Converges ==
  <>[]((mem.id = cur.id /\ announced) \/ missed = cur.id \/ ~There(cur))

\* What the comment in applyLocked says: an explicitly empty list of tokens
\* still means that the runtime file owns the key.
RuntimeOwnsTokens ==
  [][opts.source = "runtime" /\ opts.source' = "env" =>
       faults' > 0 \/ \E h \in Handlers : req[h].op = "restore"]_vars

-----------------------------------------------------------------------------
(* The file, its backups and the overlay in memory together are a store of    *)
(* versions that loses nothing and changes in one step.                       *)

Settings(g) == [names |-> g.names, ha |-> g.ha]

Versions == [i \in 1..Len(log) |-> Settings(log[i])]

\* From the rename on a save counts as installed: nobody can look before Apply.
Overlay == Settings(IF \E h \in Handlers : req[h].pc = "apply" THEN f ELSE mem)

Pending == {req[h].op : h \in {g \in Handlers : req[g].pc = "rotate"}}
Seen == IF watch.pc = "install" THEN {Settings(watch.buf)} ELSE {}

Store == INSTANCE OverlayStore WITH
  First    <- Settings(NoFile),
  Others   <- {Settings(c) : c \in Edits},
  versions <- Versions,
  overlay  <- Overlay,
  pending  <- Pending,
  seen     <- Seen

\* The overlay is such a store: with saves, reloads, edits, failures and crashes
\* in any order, a save that is answered with success has added one version, the
\* one in memory with nothing changed but the key it is about, or a backup's,
\* unchanged; one that fails has changed nothing; and after a crash the last
\* version is there (SaveOverlay, RestoreBackup, loadAndApply).
ImplementsStore == Store!StoreSpec

=============================================================================
