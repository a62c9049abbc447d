---------------------------- MODULE PingMonitor ----------------------------
(***************************************************************************)
(* The PING watchdog.  The ping loop (rflink/app.go, runPingLoop) writes   *)
(* 10;PING; and marks it as outstanding; the publish loop                  *)
(* (rflink/publisher.go, runPublishLoopInner) handles the PONG lines that  *)
(* come through the serial channel and, on its tickers, times out the      *)
(* outstanding PING.  The two loops share pingSentAt (under pingMu),       *)
(* pingFails and rflinkUnresp (atomics); the firmware is external.         *)
(*                                                                         *)
(* Time is not counted: that the timeout of the outstanding PING, or the   *)
(* dedup window of the last PONG, has passed is an event of the            *)
(* environment that may come at any moment.  A PING carries a number so    *)
(* that the properties can tell which PING a PONG answers; the program     *)
(* sees only that pingSentAt is zero or not.                               *)
(***************************************************************************)
EXTENDS Integers, Sequences

CONSTANTS
  Threshold,    \* serialPingFailThreshold()
  Dedup,        \* dedupWindow() > 0
  QueueCap,     \* capacity of serialCh
  InboxCap,     \* PINGs the firmware's input buffer holds
  PingIds       \* PINGs are numbered 1..PingIds, then over again

ASSUME PingAssumption ==
  /\ Threshold \in Nat \ {0} /\ Dedup \in BOOLEAN
  /\ QueueCap \in Nat \ {0} /\ InboxCap \in Nat \ {0} /\ PingIds \in Nat \ {0}

VARIABLES
  port,         \* SerialReader.port # nil
  alive,        \* the firmware answers
  inbox,        \* PINGs on their way to, or waiting in, the firmware
  serialCh,     \* PONG lines waiting for the publish loop, among other lines
  lastId,       \* number of the last PING written
  pingPc,       \* where the ping loop is
  pingSentAt,   \* the outstanding PING, 0 for the zero time
  aged,         \* the timeout of pingSentAt has passed
  loopPc,       \* where the publish loop is
  sent,         \* checkPingTimeout's copy of pingSentAt
  pingFails,    \* consecutive failures, counted up to Threshold + 1
  rflinkUnresp, \* reported as rflink_unresponsive
  dedupFresh,   \* a PONG was let through less than the dedup window ago
  answered      \* history: PINGs whose PONG the publish loop has handled

firmware == <<alive, inbox>>
pinger == <<lastId, pingPc>>
verdict == <<pingFails, rflinkUnresp>>
pingVars == <<port, firmware, serialCh, pinger, pingSentAt, aged, loopPc, sent,
          verdict, dedupFresh, answered>>

Id == 1..PingIds

PingInit ==
  /\ port \in BOOLEAN
  /\ alive \in BOOLEAN
  /\ inbox = << >> /\ serialCh = << >>
  /\ lastId = PingIds
  /\ pingPc = "wait"
  /\ pingSentAt = 0 /\ aged = FALSE
  /\ loopPc = "select"
  /\ sent = 0
  /\ pingFails = 0 /\ rflinkUnresp = FALSE
  /\ dedupFresh = FALSE
  /\ answered = {}

-----------------------------------------------------------------------------
(* The ping loop: sendPing, whenever the timer fires. *)

PingTimer ==
  /\ pingPc = "wait"
  /\ port
  /\ pingPc' = "connected"
  /\ UNCHANGED <<port, firmware, serialCh, lastId, pingSentAt, aged, loopPc,
                 sent, verdict, dedupFresh, answered>>

\* Mutant: the outstanding PING is not looked at.
PingOutstandingIgnored == FALSE

PingOutstanding == pingSentAt # 0

CheckOutstanding ==
  /\ pingPc = "connected"
  /\ pingPc' = IF PingOutstanding THEN "wait" ELSE "checked"
  /\ UNCHANGED <<port, firmware, serialCh, lastId, pingSentAt, aged, loopPc,
                 sent, verdict, dedupFresh, answered>>

WritePing ==
  /\ pingPc = "checked"
  /\ port
  /\ lastId' = IF lastId = PingIds THEN 1 ELSE lastId + 1
  /\ inbox' = IF Len(inbox) < InboxCap THEN Append(inbox, lastId') ELSE inbox
  /\ answered' = answered \ {lastId'}
  /\ pingPc' = "written"
  /\ UNCHANGED <<port, alive, serialCh, pingSentAt, aged, loopPc, sent,
                 verdict, dedupFresh>>

\* Not connected any more, or an I/O error: nothing is marked.
WriteFails ==
  /\ pingPc = "checked"
  /\ pingPc' = "wait"
  /\ UNCHANGED <<port, firmware, serialCh, lastId, pingSentAt, aged, loopPc,
                 sent, verdict, dedupFresh, answered>>

\* Mutant: a new PING starts the count over.
MarkPingSentResets ==
  /\ pingPc = "written"
  /\ pingSentAt' = lastId
  /\ aged' = FALSE
  /\ pingFails' = 0
  /\ pingPc' = "wait"
  /\ UNCHANGED <<port, firmware, serialCh, lastId, loopPc, sent, rflinkUnresp,
                 dedupFresh, answered>>

\* A step of its own: the PONG may be handled before the PING is marked.
MarkPingSent ==
  /\ pingPc = "written"
  /\ pingSentAt' = lastId
  /\ aged' = FALSE
  /\ pingPc' = "wait"
  /\ UNCHANGED <<port, firmware, serialCh, lastId, loopPc, sent, verdict,
                 dedupFresh, answered>>

PingStep == PingTimer \/ CheckOutstanding \/ WritePing \/ WriteFails \/ MarkPingSent

-----------------------------------------------------------------------------
(* The publish loop. *)

\* handleSerialMessage on a PONG line: isDuplicate comes first.
DropPong ==
  /\ loopPc = "select"
  /\ serialCh # << >>
  /\ dedupFresh
  /\ serialCh' = Tail(serialCh)
  /\ UNCHANGED <<port, firmware, pinger, pingSentAt, aged, loopPc, sent,
                 verdict, dedupFresh, answered>>

\* NotePong, first the fields under pingMu ...
NotePong ==
  /\ loopPc = "select"
  /\ serialCh # << >>
  /\ ~dedupFresh
  /\ serialCh' = Tail(serialCh)
  /\ dedupFresh' = Dedup
  /\ pingSentAt' = 0
  /\ aged' = FALSE
  /\ answered' = answered \cup {Head(serialCh)}
  /\ loopPc' = "pong_fails"
  /\ UNCHANGED <<port, firmware, pinger, sent, verdict>>

\* Mutant: a PONG leaves the failure count alone.
ResetFailsForgotten ==
  /\ loopPc = "pong_fails"
  /\ loopPc' = "pong_unresp"
  /\ UNCHANGED <<port, firmware, serialCh, pinger, pingSentAt, aged, sent,
                 verdict, dedupFresh, answered>>

\* ... then the two atomics, one after the other.
ResetFails ==
  /\ loopPc = "pong_fails"
  /\ pingFails' = 0
  /\ loopPc' = "pong_unresp"
  /\ UNCHANGED <<port, firmware, serialCh, pinger, pingSentAt, aged, sent,
                 rflinkUnresp, dedupFresh, answered>>

\* Mutant: the flag is never taken back.
ClearUnrespForgotten ==
  /\ loopPc = "pong_unresp"
  /\ loopPc' = "select"
  /\ UNCHANGED <<port, firmware, serialCh, pinger, pingSentAt, aged, sent,
                 verdict, dedupFresh, answered>>

ClearUnresp ==
  /\ loopPc = "pong_unresp"
  /\ rflinkUnresp' = FALSE
  /\ loopPc' = "select"
  /\ UNCHANGED <<port, firmware, serialCh, pinger, pingSentAt, aged, sent,
                 pingFails, dedupFresh, answered>>

\* checkPingTimeout on a ticker: read pingSentAt under pingMu, let go of it,
\* compare with the clock; an early return changes nothing.
ReadSentAt ==
  /\ loopPc = "select"
  /\ pingSentAt # 0
  /\ aged
  /\ sent' = pingSentAt
  /\ loopPc' = "clear"
  /\ UNCHANGED <<port, firmware, serialCh, pinger, pingSentAt, aged, verdict,
                 dedupFresh, answered>>

\* Lock again and zero whatever is there now.
ClearSentAt ==
  /\ loopPc = "clear"
  /\ pingSentAt' = 0
  /\ aged' = FALSE
  /\ loopPc' = "add"
  /\ UNCHANGED <<port, firmware, serialCh, pinger, sent, verdict, dedupFresh,
                 answered>>

AddFail ==
  /\ loopPc = "add"
  /\ pingFails' = IF pingFails > Threshold THEN pingFails ELSE pingFails + 1
  /\ loopPc' = IF pingFails' >= Threshold THEN "unresp" ELSE "select"
  /\ sent' = 0
  /\ UNCHANGED <<port, firmware, serialCh, pinger, pingSentAt, aged,
                 rflinkUnresp, dedupFresh, answered>>

SetUnresp ==
  /\ loopPc = "unresp"
  /\ rflinkUnresp' = TRUE
  /\ loopPc' = "select"
  /\ UNCHANGED <<port, firmware, serialCh, pinger, pingSentAt, aged, sent,
                 pingFails, dedupFresh, answered>>

HandleLine == DropPong \/ NotePong
VerdictStep == ResetFails \/ ClearUnresp \/ ClearSentAt \/ AddFail \/ SetUnresp

-----------------------------------------------------------------------------
(* The environment. *)

\* The firmware answers the oldest PING; the serial session queues the line ...
QueuePong ==
  /\ alive /\ port
  /\ inbox # << >>
  /\ Len(serialCh) < QueueCap
  /\ inbox' = Tail(inbox)
  /\ serialCh' = Append(serialCh, Head(inbox))
  /\ UNCHANGED <<port, alive, pinger, pingSentAt, aged, loopPc, sent, verdict,
                 dedupFresh, answered>>

\* ... or discards it.  The channel is shared with the lines of all sensors, so
\* it may be full whether it holds PONGs or not.
DiscardPong ==
  /\ alive /\ port
  /\ inbox # << >>
  /\ inbox' = Tail(inbox)
  /\ UNCHANGED <<port, alive, serialCh, pinger, pingSentAt, aged, loopPc, sent, verdict,
                 dedupFresh, answered>>

Answer == QueuePong \/ DiscardPong

FirmwareChange ==
  /\ alive' = ~alive
  /\ inbox' = << >>
  /\ UNCHANGED <<port, serialCh, pinger, pingSentAt, aged, loopPc, sent,
                 verdict, dedupFresh, answered>>

\* The serial session opens or closes the port; pingSentAt is left alone.
PortChange ==
  /\ port' = ~port
  /\ inbox' = << >>
  /\ UNCHANGED <<alive, serialCh, pinger, pingSentAt, aged, loopPc, sent,
                 verdict, dedupFresh, answered>>

TimeoutPasses ==
  /\ pingSentAt # 0 /\ ~aged
  /\ aged' = TRUE
  /\ UNCHANGED <<port, firmware, serialCh, pinger, pingSentAt, loopPc, sent,
                 verdict, dedupFresh, answered>>

WindowPasses ==
  /\ dedupFresh
  /\ dedupFresh' = FALSE
  /\ UNCHANGED <<port, firmware, serialCh, pinger, pingSentAt, aged, loopPc,
                 sent, verdict, answered>>

PingNext ==
  \/ PingStep \/ HandleLine \/ ReadSentAt \/ VerdictStep
  \/ Answer \/ FirmwareChange \/ PortChange \/ TimeoutPasses \/ WindowPasses

\* Both loops run on and time passes.  Go's select chooses at random among the
\* ready cases, so neither the channel nor the ticker is passed over for ever;
\* a working port does not fail every write; a live firmware answers, and of the
\* PONGs that could be queued again and again not every one is discarded.
Fairness ==
  /\ WF_pingVars(PingTimer) /\ WF_pingVars(CheckOutstanding) /\ WF_pingVars(MarkPingSent)
  /\ WF_pingVars(WritePing \/ WriteFails) /\ SF_pingVars(WritePing)
  /\ SF_pingVars(HandleLine) /\ SF_pingVars(ReadSentAt) /\ WF_pingVars(VerdictStep)
  /\ WF_pingVars(Answer) /\ SF_pingVars(QueuePong)
  /\ WF_pingVars(TimeoutPasses) /\ WF_pingVars(WindowPasses)

PingSpec == PingInit /\ [][PingNext]_pingVars /\ Fairness

-----------------------------------------------------------------------------
\* Every variable stays in its range.
TypeOK ==
  /\ port \in BOOLEAN /\ alive \in BOOLEAN
  /\ inbox \in Seq(Id) /\ Len(inbox) <= InboxCap
  /\ serialCh \in Seq(Id) /\ Len(serialCh) <= QueueCap
  /\ lastId \in Id
  /\ pingPc \in {"wait", "connected", "checked", "written"}
  /\ pingSentAt \in Id \cup {0} /\ aged \in BOOLEAN
  /\ loopPc \in {"select", "pong_fails", "pong_unresp", "clear", "add", "unresp"}
  /\ sent \in Id \cup {0}
  /\ pingFails \in 0..Threshold + 1 /\ rflinkUnresp \in BOOLEAN
  /\ dedupFresh \in BOOLEAN
  /\ answered \subseteq Id

\* Every PING that is written is answered or timed out, never forgotten, although
\* no critical section spans a test and the step it guards.  checkPingTimeout reads
\* pingSentAt in one section and zeroes it in another, yet zeroes the PING it found
\* timed out, not a younger one marked in between; and nobody marks between the
\* ping loop's test of PingOutstanding and its own mark.
PingsAccounted ==
  /\ loopPc = "clear" => pingSentAt = sent /\ sent # 0
  /\ pingPc \in {"checked", "written"} => pingSentAt = 0

\* The reported verdict agrees with the count, except while the publish loop is
\* between the two atomics: unresponsive means at least Threshold failures
\* without a PONG, and Threshold failures mean unresponsive.
VerdictJustified ==
  /\ rflinkUnresp => pingFails >= Threshold \/ loopPc = "pong_unresp"
  /\ pingFails >= Threshold => rflinkUnresp \/ loopPc = "unresp"

\* A firmware that stays silent on an open port is reported, for good.
DetectsSilence == <>[](~alive /\ port) => <>[]rflinkUnresp

\* A firmware that keeps answering is always reported responsive again, late and
\* duplicate PONGs notwithstanding, and although any PONG may be discarded, as long
\* as not all of them are.
RecoversFromSilence == <>[](alive /\ port) => []<>(~rflinkUnresp)

\* What the declaration of pingFails says: it counts missed PONGs.  A PING
\* whose PONG was handled before MarkPingSent is counted all the same.
CountsOnlyMissed == loopPc = "clear" => sent \notin answered

=============================================================================
