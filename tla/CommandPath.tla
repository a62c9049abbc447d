---------------------------- MODULE CommandPath ----------------------------
(***************************************************************************)
(* The command path of the gateway: App.ExecuteCommand (rflink/app.go),    *)
(* called concurrently by the MQTT command callback, by the HTTP handler   *)
(* and by the poll webhooks, with the token bucket that limits what        *)
(* reaches the serial port.                                                *)
(*                                                                         *)
(* Time advances in ticks of 1/K second.  The bucket is counted in units   *)
(* of 1/K token, so that one tick refills exactly Limit units and a        *)
(* command costs K units; the float arithmetic of the code is exact here.  *)
(***************************************************************************)
EXTENDS Integers, FiniteSets

CONSTANTS
  Callers,      \* goroutines that may be inside ExecuteCommand
  HTTPCallers,  \* those that come through handleAPICommand
  ReadOnly,     \* effectiveReadOnly(), fixed by the environment at start
  Payloads,     \* command texts as received
  Commands,     \* normalized command texts
  Bad,          \* NormalizeCommand's error
  Normal,       \* Payloads -> Commands \cup {Bad}: NormalizeCommand
  Whitelist,    \* commands with a whitelisted prefix (all, if none is set)
  Limit,        \* PUBLISH_COMMAND_RATE_LIMIT
  K,            \* ticks per second
  MaxTime       \* bound on the clock

ASSUME CallersAssumption == IsFiniteSet(Callers) /\ HTTPCallers \subseteq Callers
ASSUME PayloadAssumption ==
  /\ Bad \notin Commands
  /\ Normal \in [Payloads -> Commands \cup {Bad}]
  /\ Whitelist \subseteq Commands
ASSUME RateAssumption == Limit \in Int /\ K \in Nat \ {0} /\ MaxTime \in Nat

VARIABLES
  now,          \* monotonic clock, in ticks
  cmdTokens,    \* App.cmdTokens, in units of 1/K token
  cmdLastFill,  \* App.cmdLastFill
  port,         \* SerialReader.port # nil
  pc,           \* where each caller is in ExecuteCommand
  cmd,          \* the caller's normalized command
  outcome,      \* the Status of the caller's last CmdResult
  wrote,        \* history: how often its current (last) call wrote to the port
  wire,         \* history: the commands the port has been given
  mark,         \* history: the start of an arbitrary observed window, or -1
  admitted,     \* history: commands admitted by allowCommand since mark
  written,      \* history: commands written since mark
  early         \* history: commands admitted before mark, not written by then

bucket == <<cmdTokens, cmdLastFill>>
caller == <<pc, cmd, outcome, wrote>>
window == <<mark, admitted, written, early>>
vars == <<now, bucket, port, caller, wire, window>>

None == "none"
Statuses == {"rejected", "rate_limited", "serial_down", "error", "ok"}
Unlimited == Limit <= 0
Cap == Limit * K

\* Callers that passed allowCommand and have not reached the port yet.
AtPort == {c \in Callers : pc[c] = "admitted"}

\* Mutant: the cap of refillCmdTokensLocked forgotten.
RefilledAtUncapped(t) == cmdTokens + (t - cmdLastFill) * Limit

\* What the bucket holds once it is refilled at time t (refillCmdTokensLocked).
RefilledAt(t) ==
  LET sum == cmdTokens + (t - cmdLastFill) * Limit
  IN  IF sum > Cap THEN Cap ELSE sum

Init ==
  /\ now = 0
  /\ cmdTokens = Cap
  /\ cmdLastFill = 0
  /\ port \in BOOLEAN
  /\ pc = [c \in Callers |-> "idle"]
  /\ cmd = [c \in Callers |-> Bad]
  /\ outcome = [c \in Callers |-> None]
  /\ wrote = [c \in Callers |-> 0]
  /\ wire = {}
  /\ mark = -1
  /\ admitted = 0
  /\ written = 0
  /\ early = 0

-----------------------------------------------------------------------------
\* A payload arrives.  The HTTP handler answers 403 in read-only mode without
\* entering ExecuteCommand; the MQTT callback and the poll webhooks do not ask.
\* NormalizeCommand reads only the payload and the options.
Receive(c) ==
  /\ pc[c] = "idle"
  /\ c \in HTTPCallers => ~ReadOnly
  /\ \E p \in Payloads : cmd' = [cmd EXCEPT ![c] = Normal[p]]
  /\ outcome' = [outcome EXCEPT ![c] = None]
  /\ wrote' = [wrote EXCEPT ![c] = 0]
  /\ pc' = [pc EXCEPT ![c] = "normalized"]
  /\ UNCHANGED <<now, bucket, port, wire, window>>

\* The call ends with this status, returned and published to cmd/result.  The
\* health counters commandsRejected and commandsLimited count these results
\* and are not kept apart.
Return(c, status) ==
  /\ outcome' = [outcome EXCEPT ![c] = status]
  /\ pc' = [pc EXCEPT ![c] = "idle"]
  /\ UNCHANGED <<cmd, wrote>>

\* Mutant: the whitelist not consulted.
AcceptedUnlisted(c) == cmd[c] # Bad

\* No error from NormalizeCommand, and CommandAllowed.
Accepted(c) == cmd[c] # Bad /\ cmd[c] \in Whitelist

Reject(c) ==
  /\ pc[c] = "normalized"
  /\ ~Accepted(c)
  /\ Return(c, "rejected")
  /\ UNCHANGED <<now, bucket, port, wire, window>>

\* allowCommand, under cmdMu: refill, then take one token.
AllowCommand(c) ==
  /\ pc[c] = "normalized"
  /\ Accepted(c)
  /\ IF Unlimited
     THEN UNCHANGED bucket
     ELSE /\ RefilledAt(now) >= K
          /\ cmdTokens' = RefilledAt(now) - K
          /\ cmdLastFill' = now
  /\ pc' = [pc EXCEPT ![c] = "admitted"]
  /\ admitted' = IF mark >= 0 /\ ~Unlimited THEN admitted + 1 ELSE admitted
  /\ UNCHANGED <<now, port, cmd, outcome, wrote, wire, mark, written, early>>

DenyCommand(c) ==
  /\ pc[c] = "normalized"
  /\ Accepted(c)
  /\ ~Unlimited
  /\ RefilledAt(now) < K
  /\ cmdTokens' = RefilledAt(now)
  /\ cmdLastFill' = now
  /\ pc' = [pc EXCEPT ![c] = "denied"]
  /\ UNCHANGED <<now, port, cmd, outcome, wrote, wire, window>>

\* SerialReader.Write, under sr.mu.
WriteOK(c) ==
  /\ pc[c] = "admitted"
  /\ port
  /\ wire' = wire \cup {cmd[c]}
  /\ wrote' = [wrote EXCEPT ![c] = @ + 1]
  /\ written' = IF mark >= 0 /\ ~Unlimited THEN written + 1 ELSE written
  /\ pc' = [pc EXCEPT ![c] = "written"]
  /\ UNCHANGED <<now, bucket, port, cmd, outcome, mark, admitted, early>>

\* Mutant: wait for the port instead of failing.
WriteDownBlocks(c) == FALSE

\* errSerialNotConnected; the token stays spent.
WriteDown(c) ==
  /\ pc[c] = "admitted"
  /\ ~port
  /\ Return(c, "serial_down")
  /\ UNCHANGED <<now, bucket, port, wire, window>>

WriteError(c) ==
  /\ pc[c] = "admitted"
  /\ port
  /\ Return(c, "error")
  /\ UNCHANGED <<now, bucket, port, wire, window>>

\* Mutant: a rate query that refills without moving cmdLastFill.
CommandRateStatusNoStamp ==
  /\ cmdTokens' = RefilledAt(now)
  /\ UNCHANGED cmdLastFill

\* CommandRateStatus refills the bucket too, under cmdMu, for whoever asks.
CommandRateStatus ==
  IF Unlimited
  THEN UNCHANGED bucket
  ELSE /\ cmdTokens' = RefilledAt(now)
       /\ cmdLastFill' = now

Finish(c) ==
  /\ pc[c] \in {"denied", "written"}
  /\ CommandRateStatus
  /\ Return(c, IF pc[c] = "denied" THEN "rate_limited" ELSE "ok")
  /\ UNCHANGED <<now, port, wire, window>>

\* GET /api/v1/rate_limit
AskRate ==
  /\ HTTPCallers # {}
  /\ CommandRateStatus
  /\ UNCHANGED <<now, port, caller, wire, window>>

-----------------------------------------------------------------------------
\* The environment: time, and the serial loop opening and closing the port.
Tick ==
  /\ now < MaxTime
  /\ now' = now + 1
  /\ UNCHANGED <<bucket, port, caller, wire, window>>

PortChange ==
  /\ port' = ~port
  /\ UNCHANGED <<now, bucket, caller, wire, window>>

\* The observer starts counting, once, at any moment.
Observe ==
  /\ mark = -1
  /\ mark' = now
  /\ early' = Cardinality(AtPort)
  /\ UNCHANGED <<now, bucket, port, caller, wire, admitted, written>>

ExecuteCommand(c) ==
  \/ Reject(c) \/ AllowCommand(c) \/ DenyCommand(c)
  \/ WriteOK(c) \/ WriteDown(c) \/ WriteError(c) \/ Finish(c)

Next ==
  \/ \E c \in Callers : Receive(c) \/ ExecuteCommand(c)
  \/ AskRate \/ Tick \/ PortChange \/ Observe

\* A call, once received, runs on; nothing of the environment is forced.
Fairness == \A c \in Callers : WF_vars(ExecuteCommand(c))

Spec == Init /\ [][Next]_vars /\ Fairness

-----------------------------------------------------------------------------
\* Every variable stays in its range; in particular the bucket never goes
\* negative nor above its capacity, and was never filled in the future.
TypeOK ==
  /\ now \in Nat /\ cmdLastFill \in Nat /\ cmdTokens \in Int
  /\ cmdLastFill <= now
  /\ ~Unlimited => cmdTokens \in 0..Cap
  /\ port \in BOOLEAN
  /\ pc \in [Callers -> {"idle", "normalized", "admitted", "denied", "written"}]
  /\ cmd \in [Callers -> Commands \cup {Bad}]
  /\ outcome \in [Callers -> Statuses \cup {None}]
  /\ wrote \in [Callers -> Nat]
  /\ wire \subseteq Commands \cup {Bad}
  /\ mark \in Nat \cup {-1} /\ mark <= now
  /\ admitted \in Nat /\ written \in Nat /\ early \in Nat

\* In every window [mark, now] the limiter admits at most one full bucket plus
\* what has been refilled since, whatever interleaving of commands, denials
\* and rate queries (all of which refill) happened: the conserved quantity is
\* what was admitted plus what an immediate refill would leave.
WindowBound ==
  mark >= 0 /\ ~Unlimited =>
    admitted * K + RefilledAt(now) <= Cap + (now - mark) * Limit

\* The serial port is given at most the admitted commands of the window plus
\* those that were admitted, but not yet written, when the window began.
WrittenBound ==
  mark >= 0 /\ ~Unlimited => written * K <= Cap + (now - mark) * Limit + early * K

\* The answers tell the truth: a call that has ended reported "ok" exactly if
\* it wrote its command, once; a call that has not reached the port wrote
\* nothing; and the port is given only whitelisted commands.
ResultsTruthful ==
  /\ \A c \in Callers :
       CASE pc[c] = "idle"    -> wrote[c] = IF outcome[c] = "ok" THEN 1 ELSE 0
         [] pc[c] = "written" -> wrote[c] = 1
         [] OTHER             -> wrote[c] = 0
  /\ wire \subseteq Whitelist

\* ExecuteCommand never waits, neither for a token nor for the serial port.
CallsReturn == \A c \in Callers : (pc[c] # "idle") ~> (pc[c] = "idle")

-----------------------------------------------------------------------------
(* The limiter keeps two fields and refills them when somebody calls; what it *)
(* implements is a bucket that is refilled by the clock.                      *)

Credit == IF Unlimited THEN 0 ELSE RefilledAt(now)

Bucket == INSTANCE TokenBucket WITH
  Clients  <- Callers,
  Rate     <- IF Unlimited THEN 0 ELSE Limit,
  Capacity <- IF Unlimited THEN 0 ELSE Cap,
  Cost     <- IF Unlimited THEN 0 ELSE K,
  time     <- now,
  credit   <- Credit,
  granted  <- {c \in Callers : pc[c] \in {"admitted", "written"}},
  refused  <- {c \in Callers : pc[c] = "denied"}

\* allowCommand and CommandRateStatus, in every interleaving of callers, denials
\* and rate queries, behave as one token bucket on the clock: a command is let
\* through exactly if a whole token is there, each one costs a token, and only
\* the clock brings tokens back (a failed write does not, nor does a query).
ImplementsBucket == Bucket!BucketSpec

=============================================================================
