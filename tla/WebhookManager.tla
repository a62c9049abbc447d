--------------------------- MODULE WebhookManager ---------------------------
(***************************************************************************)
(* The webhooks (rflink/webhooks.go) and the handlers that change their    *)
(* list (rflink/http_server.go).  A poll webhook is a goroutine that       *)
(* fetches a command and executes it; a push webhook gets serial lines,    *)
(* with a limit on the requests in progress.  Every change of the list is  *)
(* saved and then makes the manager cancel, wait for and replace all poll  *)
(* goroutines; Stop cancels and waits as well, without Reload's mutex.     *)
(* The watcher of the runtime file (rflink/runtime_config.go) loads what   *)
(* somebody else wrote and also what the program has just saved itself.    *)
(*                                                                         *)
(* One generation is what one Reload starts: a context and its goroutines. *)
(***************************************************************************)
EXTENDS Integers, FiniteSets

CONSTANTS
  Polls, Pushes,  \* webhooks of either kind
  Requests,       \* HTTP requests that may be in progress at a time
  Watcher,        \* the goroutine that watches the runtime file
  EnvList,        \* the list of WEBHOOKS_JSON
  Edits,          \* what somebody else may write to the runtime file
  Backups,        \* what its backups may hold
  MaxWebhooks,    \* maxWebhooks
  MaxPush,        \* maxConcurrentPush
  MaxChanges      \* bound on the changes of the list

Hooks == Polls \cup Pushes
Callers == Requests \cup {Watcher}
States == {"absent", "off", "on"}
Lists == [Hooks -> States]
NoList == [h \in Hooks |-> "absent"]

\* The key "webhooks" of the runtime file, if it is there, and the file's author.
ListFile(l, a) == [state |-> "list", list |-> l, by |-> a]
KeyOmitted(a) == [state |-> "omitted", list |-> NoList, by |-> a]
Gone == [state |-> "gone", list |-> NoList, by |-> "nobody"]

\* Anybody may write a list of any length, also an empty one, or no list.
Foreign == {ListFile(l, "other") : l \in Lists} \cup {KeyOmitted("other")}

\* A change may be loaded twice, by who saves it and by the watcher.
Gens == 1..(2 * MaxChanges + 1)

ASSUME ConstantsAssumption ==
  /\ Polls \cap Pushes = {}
  /\ Watcher \notin Requests /\ 0 \notin Callers
  /\ EnvList \in Lists
  /\ Edits \subseteq Foreign /\ Backups \subseteq Foreign
  /\ MaxWebhooks \in Nat /\ MaxPush \in Nat /\ MaxChanges \in Nat

VARIABLES
  config,     \* Options.webhooks: each webhook is absent, off (not enabled) or on
  file,       \* the list in the runtime file, and who wrote it
  changed,    \* the watcher has yet to notice a write of the file
  read,       \* what it has read and not yet applied
  hooks,      \* webhookManager.hooks
  cancel,     \* the generation webhookManager.cancel ends, 0 for nil
  gen,        \* the last generation
  cancelled,  \* the generations whose context is cancelled
  pollers,    \* the poll goroutines
  callerPc,   \* where each request is
  newList,    \* the list it saves
  change,     \* the webhook it changes, and how
  reloadMu,   \* who holds the mutex, or 0
  notify,     \* the push webhooks a serial line still has to be offered to
  pushing,    \* push requests in progress (tokens in pushSem)
  stopPc,     \* where Stop is
  changes,    \* changes started so far
  answered,   \* history: the list as requests, restores and edits have made it
  atRisk,     \* history: webhooks changed while somebody held an older list
  givenBack,  \* history: webhooks in force otherwise than the file has them
  missed,     \* history: the watcher could not load a change, and no Reload since
  late        \* history: a Reload overlapped with Stop or came after it

callers == <<callerPc, newList, change>>
watch == <<file, changed, read, missed>>
history == <<answered, atRisk, givenBack>>
list == <<config, watch, history>>
manager == <<hooks, cancel, gen, cancelled, reloadMu>>
pushes == <<notify, pushing>>
vars == <<list, manager, pollers, callers, pushes, stopPc, changes, late>>

Alive(h, g) == pollers[<<h, g>>] # "none"

\* The counter of the wait group.
AnyAlive == \E h \in Polls, g \in Gens : Alive(h, g)

Listed(l) == {h \in Hooks : l[h] # "absent"}

\* persistLocked: an empty list is left out (omitempty).
OnDisk(l) == IF l = NoList THEN KeyOmitted("us") ELSE ListFile(l, "us")

\* applyLocked: the list of the file, or WEBHOOKS_JSON when the file has none.
\* When the file is gone loadAndApply does not call it.
InForce(f) ==
  CASE f.state = "list" -> f.list
    [] f.state = "omitted" -> EnvList
    [] f.state = "gone" -> config

\* The goroutines of generation g for the list l.
Started(l, g) ==
  [q \in Polls \X Gens |-> IF q[2] = g /\ l[q[1]] = "on" THEN "wait" ELSE pollers[q]]

\* After Start: WEBHOOKS_JSON or the runtime file gave a list.
Init ==
  /\ \/ config = EnvList /\ file = KeyOmitted("us")
     \/ /\ config \in {l \in [Hooks -> {"absent", "on"}] : Cardinality(Listed(l)) <= MaxWebhooks}
        /\ file = ListFile(config, "us")
  /\ hooks = config /\ answered = config
  /\ changed = FALSE /\ read = Gone /\ missed = FALSE
  /\ gen = 1 /\ cancel = 1 /\ cancelled = {}
  /\ pollers = [q \in Polls \X Gens |-> IF q[2] = 1 /\ config[q[1]] = "on" THEN "wait" ELSE "none"]
  /\ callerPc = [c \in Callers |-> "idle"] /\ newList = [c \in Requests |-> NoList]
  /\ change = [c \in Requests |-> <<>>]
  /\ reloadMu = 0
  /\ notify = {} /\ pushing = 0
  /\ stopPc = "running"
  /\ changes = 0
  /\ atRisk = {} /\ givenBack = {} /\ late = FALSE

-----------------------------------------------------------------------------
(* The requests that change the list. *)

\* Somebody other than c holds a list, older than what c makes of it.
OthersAtWork(c) == \E d \in Callers \ {c} : callerPc[d] \in {"save", "apply"}

\* The states of the webhooks hs are decided anew; busy: an older list is still held.
Decide(hs, busy) == atRisk' = IF busy THEN atRisk \cup hs ELSE atRisk \ hs

\* The list l is written; the file may not say so.
Write(l, f, hs) ==
  /\ config' = l
  /\ file' = f
  /\ changed' = TRUE
  /\ givenBack' = (givenBack \ hs) \cup {h \in Hooks : InForce(f)[h] # l[h]}

\* loadWebhookList, and the list the request makes of it.
Snapshot(c, h, s) ==
  /\ callerPc[c] = "idle"
  /\ stopPc = "running"             \* the server takes no request after it
  /\ changes < MaxChanges
  /\ changes' = changes + 1
  /\ callerPc' = [callerPc EXCEPT ![c] = "save"]
  /\ newList' = [newList EXCEPT ![c] = [config EXCEPT ![h] = s]]
  /\ change' = [change EXCEPT ![c] = <<h, s>>]
  /\ UNCHANGED <<list, manager, pollers, pushes, stopPc, late>>

Full == Cardinality(Listed(config)) >= MaxWebhooks

CreateWebhook(c, h, s) ==
  /\ ~Full
  /\ config[h] = "absent"
  /\ Snapshot(c, h, s)

\* An id that is not in the list is not found.
UpdateWebhook(c, h, s) ==
  /\ config[h] # "absent"
  /\ Snapshot(c, h, s)

DeleteWebhook(c, h) ==
  /\ config[h] # "absent"
  /\ Snapshot(c, h, "absent")

\* persistWebhooks: SaveOverlay writes the list, applies it, and then calls
\* onChange.  A list that is too long (the runtime file may give one) is not saved.
Save(c) ==
  /\ callerPc[c] = "save"
  /\ Cardinality(Listed(newList[c])) <= MaxWebhooks
  /\ Write(newList[c], OnDisk(newList[c]), {change[c][1]})
  /\ Decide({change[c][1]}, OthersAtWork(c))
  /\ answered' = [answered EXCEPT ![change[c][1]] = change[c][2]]
  /\ callerPc' = [callerPc EXCEPT ![c] = "reload"]
  /\ newList' = [newList EXCEPT ![c] = NoList]
  /\ change' = [change EXCEPT ![c] = <<>>]
  /\ UNCHANGED <<read, missed, manager, pollers, pushes, stopPc, changes, late>>

\* Mutant: the list is in force before it is known to be saved.
SaveFailsApplied(c) ==
  /\ callerPc[c] = "save"
  /\ config' = newList[c]
  /\ callerPc' = [callerPc EXCEPT ![c] = "idle"]
  /\ newList' = [newList EXCEPT ![c] = NoList]
  /\ change' = [change EXCEPT ![c] = <<>>]
  /\ UNCHANGED <<watch, history, manager, pollers, pushes, stopPc, changes, late>>

SaveFails(c) ==
  /\ callerPc[c] = "save"
  /\ callerPc' = [callerPc EXCEPT ![c] = "idle"]
  /\ newList' = [newList EXCEPT ![c] = NoList]
  /\ change' = [change EXCEPT ![c] = <<>>]
  /\ UNCHANGED <<list, manager, pollers, pushes, stopPc, changes, late>>

\* RestoreBackup writes and applies the list of a backup and does not call
\* onChange; it is left to the watcher, which finds the file changed.
RestoreBackup(c, f) ==
  /\ callerPc[c] = "idle"
  /\ stopPc = "running"
  /\ changes < MaxChanges
  /\ changes' = changes + 1
  /\ Write(InForce(f), IF f.state = "list" THEN OnDisk(f.list) ELSE KeyOmitted("us"), Hooks)
  /\ Decide(Hooks, OthersAtWork(c))
  /\ answered' = config'
  /\ UNCHANGED <<read, missed, manager, pollers, callers, pushes, stopPc, late>>

\* Somebody else replaces the file.
EditFile(f) ==
  /\ changes < MaxChanges
  /\ changes' = changes + 1
  /\ file' = f
  /\ changed' = TRUE
  /\ UNCHANGED <<config, read, missed, history, manager, pollers, callers, pushes, stopPc, late>>

\* Somebody removes the file: a change not yet noticed never will be.
RemoveFile ==
  /\ file # Gone
  /\ file' = Gone
  /\ changed' = FALSE
  /\ missed' = (missed \/ changed)
  /\ UNCHANGED <<config, read, history, manager, pollers, callers, pushes, stopPc, changes, late>>

-----------------------------------------------------------------------------
(* watchLoop.  It is stopped after the webhooks. *)

\* The file has another modification time, which is noted.
WatchTick ==
  /\ callerPc[Watcher] = "idle"
  /\ changed
  /\ changed' = FALSE
  /\ callerPc' = [callerPc EXCEPT ![Watcher] = "read"]
  /\ UNCHANGED <<config, file, read, missed, history, newList, change, manager, pollers, pushes,
                 stopPc, changes, late>>

\* The first half of loadAndApply.
WatchRead ==
  /\ callerPc[Watcher] = "read"
  /\ read' = file
  /\ callerPc' = [callerPc EXCEPT ![Watcher] = "apply"]
  /\ UNCHANGED <<config, file, changed, missed, history, newList, change, manager, pollers,
                 pushes, stopPc, changes, late>>

\* The file cannot be read or is not JSON: logged, and not tried again.
WatchFails ==
  /\ callerPc[Watcher] = "read"
  /\ missed' = TRUE
  /\ callerPc' = [callerPc EXCEPT ![Watcher] = "idle"]
  /\ UNCHANGED <<config, file, changed, read, history, newList, change, manager, pollers, pushes,
                 stopPc, changes, late>>

\* The second half, under the manager's lock, and onChange.  What somebody else has
\* written is a decision of its own; the program's own write is none.
WatchApply ==
  /\ callerPc[Watcher] = "apply"
  /\ config' = InForce(read)
  /\ read' = Gone
  /\ callerPc' = [callerPc EXCEPT ![Watcher] = "reload"]
  /\ IF read.by = "other"
     THEN /\ answered' = config'
          /\ Decide(Hooks, OthersAtWork(Watcher) \/ file.by = "us")
          /\ givenBack' = {}
     ELSE UNCHANGED history
  /\ UNCHANGED <<file, changed, missed, newList, change, manager, pollers, pushes, stopPc,
                 changes, late>>

Watch == WatchTick \/ WatchRead \/ WatchFails \/ WatchApply

-----------------------------------------------------------------------------
(* Reload, under reloadMu. *)

\* Both Reload and Stop: call the cancel function and forget it.
CallCancel ==
  /\ cancelled' = IF cancel = 0 THEN cancelled ELSE cancelled \cup {cancel}
  /\ cancel' = 0

\* Mutant: TryLock, a Reload in progress being taken to be enough.
ReloadCancelTry(c) ==
  /\ callerPc[c] = "reload"
  /\ IF reloadMu = 0
     THEN reloadMu' = c /\ CallCancel /\ callerPc' = [callerPc EXCEPT ![c] = "wait"]
     ELSE UNCHANGED <<reloadMu, cancel, cancelled>> /\ callerPc' = [callerPc EXCEPT ![c] = "idle"]
  /\ late' = (late \/ stopPc # "running")
  /\ UNCHANGED <<hooks, gen, list, pollers, newList, change, pushes, stopPc, changes>>

\* Lock and cancel.
ReloadCancel(c) ==
  /\ callerPc[c] = "reload"
  /\ reloadMu = 0
  /\ reloadMu' = c
  /\ CallCancel
  /\ callerPc' = [callerPc EXCEPT ![c] = "wait"]
  /\ late' = (late \/ stopPc # "running")
  /\ UNCHANGED <<hooks, gen, list, pollers, newList, change, pushes, stopPc, changes>>

\* Mutant: Reload does not wait.
WaitDoneAlways == TRUE

\* wg.Wait
WaitDone == ~AnyAlive

ReloadWaited(c) ==
  /\ callerPc[c] = "wait"
  /\ WaitDone
  /\ callerPc' = [callerPc EXCEPT ![c] = "install"]
  /\ UNCHANGED <<list, manager, pollers, newList, change, pushes, stopPc, changes, late>>

\* Under mu: the list, and a new context.
ReloadInstall(c) ==
  /\ callerPc[c] = "install"
  /\ hooks' = config
  /\ gen' = gen + 1
  /\ cancel' = gen + 1
  /\ missed' = FALSE
  /\ callerPc' = [callerPc EXCEPT ![c] = "launch"]
  /\ UNCHANGED <<cancelled, reloadMu, config, file, changed, read, history, pollers, newList,
                 change, pushes, stopPc, changes, late>>

\* Add and go for every enabled poll webhook; unlock.
ReloadLaunch(c) ==
  /\ callerPc[c] = "launch"
  /\ pollers' = Started(hooks, gen)
  /\ reloadMu' = 0
  /\ callerPc' = [callerPc EXCEPT ![c] = "idle"]
  /\ UNCHANGED <<hooks, cancel, gen, cancelled, list, newList, change, pushes, stopPc,
                 changes, late>>

Reload(c) == ReloadCancel(c) \/ ReloadWaited(c) \/ ReloadInstall(c) \/ ReloadLaunch(c)

Proceed(c) == Save(c) \/ SaveFails(c) \/ Reload(c)

Request(c) ==
  \/ \E h \in Hooks, s \in {"off", "on"} : CreateWebhook(c, h, s) \/ UpdateWebhook(c, h, s)
  \/ \E h \in Hooks : DeleteWebhook(c, h)
  \/ \E f \in Backups : RestoreBackup(c, f)

-----------------------------------------------------------------------------
(* runPoll and doPollOnce. *)

SetPoller(h, g, s) == pollers' = [pollers EXCEPT ![<<h, g>>] = s]

\* The timer.  (A tick that wins against a context already cancelled finds the
\* request refused at once: nothing happens.)
PollTick(h, g) ==
  /\ pollers[<<h, g>>] = "wait"
  /\ g \notin cancelled
  /\ SetPoller(h, g, "fetch")
  /\ UNCHANGED <<list, manager, callers, pushes, stopPc, changes, late>>

\* Blocked, failed, too large, not 2xx, empty, or cut off by the context.
PollNothing(h, g) ==
  /\ pollers[<<h, g>>] = "fetch"
  /\ SetPoller(h, g, "wait")
  /\ UNCHANGED <<list, manager, callers, pushes, stopPc, changes, late>>

\* The answer was read to its end, before the context was cancelled or before
\* the HTTP client noticed.
PollCommand(h, g) ==
  /\ pollers[<<h, g>>] = "fetch"
  /\ SetPoller(h, g, "execute")
  /\ UNCHANGED <<list, manager, callers, pushes, stopPc, changes, late>>

\* ExecuteCommand returns (module CommandPath).
PollExecuted(h, g) ==
  /\ pollers[<<h, g>>] = "execute"
  /\ SetPoller(h, g, "wait")
  /\ UNCHANGED <<list, manager, callers, pushes, stopPc, changes, late>>

\* Mutant: the loop does not look at the context.
CancelSeenNever(g) == FALSE

CancelSeen(g) == g \in cancelled

\* ctx.Done, wg.Done.  The last one wakes whoever waits.
PollExit(h, g) ==
  /\ pollers[<<h, g>>] = "wait"
  /\ CancelSeen(g)
  /\ SetPoller(h, g, "none")
  /\ stopPc' = IF stopPc = "blocked" /\ \A q \in (Polls \X Gens) \ {<<h, g>>} : pollers[q] = "none"
               THEN "woken" ELSE stopPc
  /\ UNCHANGED <<list, manager, callers, pushes, changes, late>>

Poller(h, g) ==
  PollNothing(h, g) \/ PollCommand(h, g) \/ PollExecuted(h, g) \/ PollExit(h, g)

-----------------------------------------------------------------------------
(* NotifyRaw and NotifySumJSON, on the way of a serial line. *)

Notify ==
  /\ notify = {}
  /\ notify' = {h \in Pushes : hooks[h] = "on"}
  /\ notify' # {}
  /\ UNCHANGED <<pushing, list, manager, pollers, callers, stopPc, changes, late>>

\* Mutant: one request too many.
PushSlotOneMore == pushing <= MaxPush

\* The channel pushSem has room.
PushSlot == pushing < MaxPush

\* enqueuePush: a slot of the semaphore, or the line is dropped.
EnqueuePush(h) ==
  /\ h \in notify
  /\ notify' = notify \ {h}
  /\ pushing' = IF PushSlot THEN pushing + 1 ELSE pushing
  /\ UNCHANGED <<list, manager, pollers, callers, stopPc, changes, late>>

\* doPush ends, delivered or not; nobody waits for it.
PushDone ==
  /\ pushing > 0
  /\ pushing' = pushing - 1
  /\ UNCHANGED <<notify, list, manager, pollers, callers, stopPc, changes, late>>

-----------------------------------------------------------------------------
(* Stop, without reloadMu. *)

ReloadRuns == reloadMu # 0

StopCancel ==
  /\ stopPc = "running"
  /\ CallCancel
  /\ stopPc' = "wait"
  /\ late' = (late \/ ReloadRuns)
  /\ UNCHANGED <<hooks, gen, reloadMu, list, pollers, callers, pushes, changes>>

\* wg.Wait returns at once, or blocks until the counter is zero.
StopWait ==
  /\ stopPc = "wait"
  /\ stopPc' = IF WaitDone THEN "stopped" ELSE "blocked"
  /\ UNCHANGED <<list, manager, pollers, callers, pushes, changes, late>>

\* A waiter that finds the counter above zero again when it runs panics
\* ("WaitGroup is reused before previous Wait has returned").
StopWoken ==
  /\ stopPc = "woken"
  /\ stopPc' = IF AnyAlive THEN "panicked" ELSE "stopped"
  /\ UNCHANGED <<list, manager, pollers, callers, pushes, changes, late>>

Stop == StopWait \/ StopWoken

Next ==
  \/ \E c \in Requests : Request(c) \/ Proceed(c)
  \/ Watch \/ Reload(Watcher)
  \/ RemoveFile \/ \E f \in Edits : EditFile(f)
  \/ \E h \in Polls, g \in Gens : PollTick(h, g) \/ Poller(h, g)
  \/ Notify \/ PushDone \/ \E h \in Pushes : EnqueuePush(h)
  \/ StopCancel \/ Stop

\* Every goroutine runs on: an HTTP request ends by its timeout or its context,
\* ExecuteCommand returns (CommandPath).
Fairness ==
  /\ \A c \in Requests : WF_vars(Proceed(c))
  /\ WF_vars(Watch \/ Reload(Watcher))
  /\ \A h \in Polls, g \in Gens : WF_vars(Poller(h, g))
  /\ WF_vars(Stop)

Spec == Init /\ [][Next]_vars /\ Fairness

-----------------------------------------------------------------------------
Files == [state : {"list", "omitted", "gone"}, list : Lists, by : {"us", "other", "nobody"}]

\* Every variable has its type: no more push requests than the semaphore admits,
\* at most two Reloads for every change.
TypeOK ==
  /\ config \in Lists /\ hooks \in Lists /\ answered \in Lists
  /\ gen \in Gens /\ cancel \in 0..gen /\ cancelled \subseteq 1..gen
  /\ pollers \in [Polls \X Gens -> {"none", "wait", "fetch", "execute"}]
  /\ callerPc \in [Callers -> {"idle", "save", "read", "apply", "reload", "wait", "install",
                               "launch"}]
  /\ newList \in [Requests -> Lists]
  /\ file \in Files /\ read \in Files
  /\ atRisk \subseteq Hooks /\ givenBack \subseteq Hooks
  /\ reloadMu \in Callers \cup {0}
  /\ notify \subseteq Pushes /\ pushing \in 0..MaxPush
  /\ stopPc \in {"running", "wait", "blocked", "woken", "stopped", "panicked"}
  /\ changes \in 0..MaxChanges 
  /\ changed \in BOOLEAN /\ missed \in BOOLEAN /\ late \in BOOLEAN

\* Every poll goroutine belongs to the last generation and to a webhook the list
\* in force has enabled: no webhook is polled twice, and a removed one executes
\* no command after the list without it was installed.
PollersMatchHooks ==
  \A h \in Polls, g \in Gens : Alive(h, g) => g = gen /\ hooks[h] = "on"

\* When no Reload is to come, the manager works with the list in force: the last
\* Reload has read the last change.  The exception is a change the watcher had to
\* load and could not.
LastChangeLoaded ==
  ~changed /\ ~missed /\ (\A c \in Callers : callerPc[c] \in {"idle", "save"}) => hooks = config

\* Every webhook is as the last answered request, restore or edit has made it, over
\* failed saves and the watcher's reload of the program's own writes.  There are two
\* exceptions: a change made while another request, or the watcher, held an older
\* list, which is then written or applied over it; and a list that is empty, which
\* the file leaves out, so that the watcher gives WEBHOOKS_JSON back.
AnsweredChangesStay ==
  \A h \in Hooks \ (atRisk \cup givenBack) : config[h] = answered[h]

\* Once Stop has returned no poll goroutine is left, and it does not panic,
\* unless a Reload overlapped with it or came after it.
StopsPollers ==
  stopPc \in {"stopped", "panicked"} /\ ~late => stopPc = "stopped" /\ ~AnyAlive

\* Every Reload ends, and every change is in force in the end, also a restored
\* backup, whose request asks for no Reload; unless the watcher could not load it.
ReloadsEnd ==
  /\ \A c \in Callers : callerPc[c] = "reload" ~> callerPc[c] = "idle"
  /\ hooks # config ~> hooks = config \/ missed

=============================================================================
