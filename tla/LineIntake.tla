----------------------------- MODULE LineIntake -----------------------------
(***************************************************************************)
(* A serial line in the publish loop (handleSerialMessage and what it      *)
(* calls, rflink/publisher.go): it goes into the buffer of recent lines,   *)
(* through the hook to every WebSocket client (rawHub, rflink/http_ws.go), *)
(* past the debounce, and to the gateway or the sensor parser.  The        *)
(* handlers of the clients run beside the loop, and so does time.          *)
(*                                                                         *)
(* The buffer and the feed know a line by its number, the debounce and the *)
(* parsers by what it says.  The debounce map keeps the age of its times.  *)
(***************************************************************************)
EXTENDS SensorMessage

CONSTANTS
  Lines,      \* what a line may say
  Frames,     \* lines the parsers are compared with their reference on
  Clients,    \* browsers that show the live feed
  RawCap,     \* rawCap
  ChanCap,    \* capacity of a subscriber's channel (32)
  ViewMax,    \* the page shortens its list when it is longer than this (500)
  ViewKeep,   \* and keeps so many (400)
  Window,     \* dedupWindow() in ticks, 0 for off
  PruneAbove, \* entries of dedupLast above which the old ones are deleted (500)
  MaxLines    \* bound on the number of lines

AgeCap == 2 * Window + 1

ASSUME IntakeAssumption ==
  /\ {RawCap, ChanCap, ViewMax, MaxLines} \subseteq Nat \ {0}
  /\ ViewKeep \in 1..ViewMax
  /\ {Window, PruneAbove} \subseteq Nat

\* Lines are sequences of pieces, and the second piece of a 20; line, which the
\* firmware counts up, is a plain word.
ASSUME LinesAssumption ==
  /\ Lines \cup Frames \subseteq Seq(Piece)
  /\ \A m \in Lines : Len(m) >= 3 /\ m[1] = Word("20") =>
       m[2].val = Bare /\ m[2].key # "PONG"

VARIABLES
  stage,      \* where the loop is with its line
  line,       \* what the line says, << >> between two lines
  total,      \* lines read so far: the number of the last one
  rawLines,   \* Publisher.rawLines
  dedupLast,  \* Publisher.dedupLast: key -> age
  subs,       \* rawHub.subs
  chan,       \* the channels, empty before the next subscription
  page,       \* what each browser has: "off", "open" (no hello yet), "live"
  list,       \* window.__rawLines
  passed,     \* history: the age of the last passage of what m says
  lost,       \* history: lines that found c's channel full
  since       \* history: the first line that c should have

feed == <<subs, chan, page, list, lost, since>>
vars == <<stage, line, total, rawLines, dedupLast, passed, feed>>

Init ==
  /\ stage = "idle" /\ line = << >> /\ total = 0
  /\ rawLines = << >>
  /\ dedupLast = [k \in {} |-> 0]
  /\ subs = {} /\ chan = [c \in Clients |-> << >>]
  /\ page = [c \in Clients |-> "off"] /\ list = [c \in Clients |-> << >>]
  /\ passed = [m \in Lines |-> AgeCap]
  /\ lost = [c \in Clients |-> {}] /\ since = [c \in Clients |-> 1]

-----------------------------------------------------------------------------
(* The publish loop. *)

\* Mutant: when the buffer is full the new line is not kept.
RingKeepsOld(r, n) == IF Len(r) >= RawCap THEN r ELSE Append(r, n)

\* The oldest line makes room.
Ring(r, n) == IF Len(r) >= RawCap THEN Append(Tail(r), n) ELSE Append(r, n)

\* appendRawLine, up to the hook.
AppendRawLine ==
  /\ stage = "idle" /\ total < MaxLines
  /\ line' \in Lines
  /\ total' = total + 1
  /\ rawLines' = Ring(rawLines, total')
  /\ stage' = "hook"
  /\ UNCHANGED <<dedupLast, passed, feed>>

Full(c) == Len(chan[c]) >= ChanCap

\* Mutant: the loop waits for a slow client.
BroadcastBlocks ==
  /\ stage = "hook"
  /\ \A c \in subs : ~Full(c)
  /\ chan' = [c \in Clients |-> IF c \in subs THEN Append(chan[c], total) ELSE chan[c]]
  /\ stage' = "dedup"
  /\ UNCHANGED <<line, total, rawLines, dedupLast, passed, subs, page, list, lost, since>>

\* broadcast holds the hub's lock; a client whose channel is full loses the line.
Broadcast ==
  /\ stage = "hook"
  /\ chan' = [c \in Clients |-> IF c \in subs /\ ~Full(c) THEN Append(chan[c], total) ELSE chan[c]]
  /\ lost' = [c \in Clients |-> IF c \in subs /\ Full(c) THEN lost[c] \cup {total} ELSE lost[c]]
  /\ stage' = "dedup"
  /\ UNCHANGED <<line, total, rawLines, dedupLast, passed, subs, page, list, since>>

Duplicate ==
  LET k == DedupKey(line) IN Window > 0 /\ k \in DOMAIN dedupLast /\ dedupLast[k] < Window

\* The entry of the line is new; when there are many, the old ones go.
Remember(k) ==
  LET stored == [x \in DOMAIN dedupLast \cup {k} |-> IF x = k THEN 0 ELSE dedupLast[x]]
      young == {x \in DOMAIN stored : stored[x] <= 2 * Window}
  IN  IF Cardinality(DOMAIN stored) > PruneAbove THEN [x \in young |-> stored[x]] ELSE stored

DropDuplicate ==
  /\ stage = "dedup" /\ Duplicate
  /\ stage' = "idle" /\ line' = << >>
  /\ UNCHANGED <<total, rawLines, dedupLast, passed, feed>>

LetThrough ==
  /\ stage = "dedup" /\ ~Duplicate
  /\ dedupLast' = IF Window > 0 THEN Remember(DedupKey(line)) ELSE dedupLast
  /\ passed' = [passed EXCEPT ![line] = 0]
  /\ stage' = "publish"
  /\ UNCHANGED <<line, total, rawLines, feed>>

\* PublishGatewayInfo, PublishSensor or nothing, according to Reading(line): see
\* PingMonitor and SensorPublish.  Each returns, if only by its timeout.
Publish ==
  /\ stage = "publish"
  /\ stage' = "idle" /\ line' = << >>
  /\ UNCHANGED <<total, rawLines, dedupLast, passed, feed>>

LoopStep == Broadcast \/ DropDuplicate \/ LetThrough \/ Publish

-----------------------------------------------------------------------------
(* handleRawWS and the page. *)

Subscribe(c) ==
  /\ page[c] = "off" /\ c \notin subs
  /\ subs' = subs \cup {c}
  /\ page' = [page EXCEPT ![c] = "open"]
  /\ UNCHANGED <<stage, line, total, rawLines, dedupLast, passed, chan, list, lost, since>>

\* The hello with RecentRawLines, taken after the subscription.
Hello(c) ==
  /\ page[c] = "open" /\ c \in subs
  /\ page' = [page EXCEPT ![c] = "live"]
  /\ list' = [list EXCEPT ![c] = rawLines]
  /\ since' = [since EXCEPT ![c] = IF total > RawCap THEN total - RawCap + 1 ELSE 1]
  /\ UNCHANGED <<stage, line, total, rawLines, dedupLast, passed, subs, chan, lost>>

Shorten(l) == IF Len(l) > ViewMax THEN SubSeq(l, Len(l) - ViewKeep + 1, Len(l)) ELSE l

\* A line of the channel is sent and pushed to the page's list.
SendLine(c) ==
  /\ page[c] = "live" /\ c \in subs
  /\ chan[c] # << >>
  /\ LET pushed == Append(list[c], Head(chan[c])) IN
       /\ list' = [list EXCEPT ![c] = Shorten(pushed)]
       /\ since' = [since EXCEPT ![c] = IF Len(pushed) > ViewMax THEN Shorten(pushed)[1] ELSE @]
  /\ chan' = [chan EXCEPT ![c] = Tail(@)]
  /\ UNCHANGED <<stage, line, total, rawLines, dedupLast, passed, subs, page, lost>>

\* The connection ends; the page keeps its list until the next hello.
Close(c) ==
  /\ page[c] # "off"
  /\ page' = [page EXCEPT ![c] = "off"]
  /\ UNCHANGED <<stage, line, total, rawLines, dedupLast, passed, subs, chan, list, lost, since>>

\* The handler notices, by its reader or a failed write, and unsubscribes: the
\* channel is closed, and nobody reads what is in it.
Unsubscribe(c) ==
  /\ page[c] = "off" /\ c \in subs
  /\ subs' = subs \ {c}
  /\ chan' = [chan EXCEPT ![c] = << >>]
  /\ lost' = [lost EXCEPT ![c] = {}]
  /\ UNCHANGED <<stage, line, total, rawLines, dedupLast, passed, page, list, since>>

Client(c) == Subscribe(c) \/ Hello(c) \/ SendLine(c) \/ Close(c) \/ Unsubscribe(c)

-----------------------------------------------------------------------------
Older(a) == IF a < AgeCap THEN a + 1 ELSE a

Tick ==
  /\ dedupLast' = [k \in DOMAIN dedupLast |-> Older(dedupLast[k])]
  /\ passed' = [m \in Lines |-> Older(passed[m])]
  /\ UNCHANGED <<stage, line, total, rawLines, feed>>

Next == AppendRawLine \/ LoopStep \/ Tick \/ \E c \in Clients : Client(c)

\* The loop runs on; nothing is assumed of the clients.
Spec == Init /\ [][Next]_vars /\ WF_vars(LoopStep)

-----------------------------------------------------------------------------
\* The last line the clients have been offered.
Offered == IF stage = "hook" THEN total - 1 ELSE total

\* A page that is live has, or has waiting in its channel, every line since its
\* hello and the RawCap lines before, or since where its list was last cut, but
\* for the ones that found the channel full; whatever the loop did between
\* subscription, hello and feed.  And it has them in order, but for one step
\* back: the lines between the subscription and the hello are in both.
NoGap ==
  \A c \in Clients : page[c] = "live" /\ c \in subs =>
    LET l == list[c] \o chan[c] IN
    /\ since[c]..Offered \subseteq ToSet(l) \cup lost[c]
    /\ Cardinality({i \in 1..Len(l) - 1 : l[i] >= l[i + 1]}) <= 1

\* No line is both a gateway reply and a sensor's, and the sensor parser takes a
\* line as a whole, with the last value of every field, or not at all.  This is
\* about the parsers and all of Frames, so the states before the first line do.
OneReading == total = 0 => OneReadingOf(Frames)

\* Two receptions of one transmission: they differ in the sequence counter only.
Retransmit(m, n) ==
  \/ m = n
  \/ /\ Len(m) = Len(n) /\ Len(m) >= 3
     /\ m[1] = Word("20")
     /\ \A i \in DOMAIN m : i = 2 \/ m[i] = n[i]

\* The debounce drops every retransmission of a line that it let through less
\* than Window ago, however many other lines came and however dedupLast was
\* pruned; and what it drops would have been read just as a line was that it
\* let through in that time.
DedupExact ==
  [][stage = "dedup" /\ stage' # "dedup" =>
       LET recent == {m \in Lines : passed[m] < Window} IN
       /\ stage' = "idle" => \E m \in recent : Reading(m) = Reading(line)
       /\ (\E m \in recent : Retransmit(m, line)) => stage' = "idle"]_vars

\* The loop gets done with every line, whatever the clients do: one that does
\* not read its feed, or disconnects in the middle, holds up nothing.
LinesHandled == stage # "idle" ~> stage = "idle"

=============================================================================
