------------------------- MODULE CommandPathProofs -------------------------
(***************************************************************************)
(* The safety properties of CommandPath, for every set of callers, every   *)
(* rate limit and every clock resolution.                                  *)
(***************************************************************************)
EXTENDS CommandPath, FiniteSetTheorems, TLAPS

-----------------------------------------------------------------------------
(* The bucket. *)

\* A refill at the current time keeps the bucket between 0 and its capacity,
\* and a refill of a refilled bucket at the same time changes nothing
\* (refillCmdTokensLocked, app.go).
LEMMA RefillBounds ==
  ASSUME TypeOK, ~Unlimited
  PROVE  /\ RefilledAt(now) \in 0..Cap
         /\ Cap \in Nat
         /\ cmdTokens <= RefilledAt(now)
<1>1. Limit \in Nat /\ K \in Nat /\ Cap \in Nat
  BY RateAssumption DEF Unlimited, Cap
<1>2. now - cmdLastFill \in Nat
  BY DEF TypeOK
<1>3. (now - cmdLastFill) * Limit \in Nat
  BY <1>1, <1>2
<1> QED
  BY <1>1, <1>3 DEF TypeOK, RefilledAt

\* An immediately repeated refill adds nothing.
LEMMA RefillIdempotent ==
  ASSUME TypeOK, ~Unlimited, now' = now,
         NEW u \in Nat, u <= Cap, cmdTokens' = u, cmdLastFill' = now
  PROVE  RefilledAt(now)' = u
<1>1. (now - now) * Limit = 0
  BY RateAssumption DEF TypeOK
<1>2. Cap \in Int /\ Cap' = Cap
  BY RateAssumption DEF Cap
<1> QED
  BY <1>1, <1>2 DEF RefilledAt, Cap

\* One tick refills at most Limit units (and fewer when the bucket is full).
LEMMA TickRefills ==
  ASSUME TypeOK, ~Unlimited, Tick
  PROVE  /\ RefilledAt(now)' \in Int
         /\ RefilledAt(now)' <= RefilledAt(now) + Limit
<1>1. Limit \in Nat /\ Cap \in Nat
  BY RateAssumption DEF Unlimited, Cap
<1> DEFINE d == now - cmdLastFill
<1>2. d \in Nat /\ cmdTokens \in Int
  BY DEF TypeOK
<1>3. (d + 1) * Limit = d * Limit + Limit
  BY <1>1, <1>2
<1>4. d * Limit \in Int
  BY <1>1, <1>2
<1>5. RefilledAt(now)' = IF cmdTokens + (d + 1) * Limit > Cap
                         THEN Cap ELSE cmdTokens + (d + 1) * Limit
  <2>1. now' - cmdLastFill = d + 1 /\ cmdTokens' = cmdTokens /\ cmdLastFill' = cmdLastFill
    BY <1>2 DEF Tick, bucket, TypeOK
  <2> QED
    BY <2>1 DEF RefilledAt, Cap
<1>6. RefilledAt(now) = IF cmdTokens + d * Limit > Cap
                        THEN Cap ELSE cmdTokens + d * Limit
  BY DEF RefilledAt
<1> HIDE DEF d
<1>7. \A x \in Int : x + Limit > Cap => (IF x > Cap THEN Cap ELSE x) + Limit >= Cap
  BY <1>1
<1> QED
  BY <1>1, <1>2, <1>3, <1>4, <1>5, <1>6

-----------------------------------------------------------------------------
(* Type correctness. *)

\* The initial bucket is full and not negative.
LEMMA TypeInit == Init => TypeOK
<1>1. Limit * K \in Int /\ (Limit >= 0 => Limit * K >= 0)
  BY RateAssumption
<1> QED
  BY <1>1, RateAssumption DEF Init, TypeOK, Unlimited, Cap, None, Statuses

\* TypeOK is inductive.
LEMMA TypeInductive ==
  ASSUME TypeOK, [Next]_vars
  PROVE  TypeOK'
<1> USE RateAssumption
<1>1. CASE UNCHANGED vars
  BY <1>1 DEF TypeOK, vars, bucket, caller, window, Unlimited, Cap
<1>2. ASSUME NEW c \in Callers, Receive(c)  PROVE TypeOK'
  BY <1>2, PayloadAssumption DEF TypeOK, Receive, bucket, window, Unlimited, Cap, None, Statuses
<1>3. ASSUME NEW c \in Callers, Reject(c)  PROVE TypeOK'
  BY <1>3 DEF TypeOK, Reject, Return, bucket, window, Unlimited, Cap, None, Statuses
<1>4. ASSUME NEW c \in Callers, AllowCommand(c)  PROVE TypeOK'
  <2>1. (~Unlimited => cmdTokens \in 0..Cap)' /\ cmdTokens' \in Int
        /\ cmdLastFill' \in Nat /\ cmdLastFill' <= now'
    <3>1. CASE Unlimited
      BY <3>1, <1>4 DEF AllowCommand, bucket, TypeOK, Unlimited, Cap
    <3>2. CASE ~Unlimited
      <4>1. RefilledAt(now) \in 0..Cap /\ Cap \in Nat /\ Cap' = Cap
        BY <3>2, RefillBounds DEF Cap
      <4> QED
        BY <4>1, <3>2, <1>4 DEF AllowCommand, TypeOK
    <3> QED BY <3>1, <3>2
  <2> QED
    BY <1>4, <2>1 DEF AllowCommand, TypeOK
<1>5. ASSUME NEW c \in Callers, DenyCommand(c)  PROVE TypeOK'
  <2>1. RefilledAt(now) \in 0..Cap /\ Cap \in Nat /\ Cap' = Cap
    BY <1>5, RefillBounds DEF DenyCommand, Cap
  <2> QED
    BY <1>5, <2>1 DEF DenyCommand, TypeOK, window
<1>6. ASSUME NEW c \in Callers, WriteOK(c)  PROVE TypeOK'
  BY <1>6 DEF WriteOK, TypeOK, bucket, Unlimited, Cap
<1>7. ASSUME NEW c \in Callers, WriteDown(c) \/ WriteError(c)  PROVE TypeOK'
  BY <1>7 DEF WriteDown, WriteError, Return, TypeOK, bucket, window, Unlimited, Cap,
              Statuses
<1>8. ASSUME CommandRateStatus, now' = now
      PROVE  /\ cmdLastFill' \in Nat /\ cmdTokens' \in Int /\ cmdLastFill' <= now'
             /\ ~Unlimited => cmdTokens' \in 0..Cap
  <2>1. CASE Unlimited
    BY <2>1, <1>8 DEF CommandRateStatus, bucket, TypeOK
  <2>2. CASE ~Unlimited
    <3>1. RefilledAt(now) \in 0..Cap /\ Cap \in Nat
      BY <2>2, RefillBounds
    <3> QED
      BY <3>1, <2>2, <1>8 DEF CommandRateStatus, TypeOK
  <2> QED BY <2>1, <2>2
<1>9. ASSUME NEW c \in Callers, Finish(c)  PROVE TypeOK'
  BY <1>9, <1>8 DEF Finish, Return, TypeOK, window, Unlimited, Cap, Statuses
<1>10. CASE AskRate
  BY <1>10, <1>8 DEF AskRate, TypeOK, caller, window, Unlimited, Cap
<1>11. CASE Tick
  BY <1>11 DEF Tick, TypeOK, bucket, caller, window, Unlimited, Cap
<1>13. CASE PortChange
  <2>1. port' \in BOOLEAN
    BY <1>13 DEF PortChange
  <2> QED
    BY <1>13, <2>1 DEF PortChange, TypeOK, bucket, caller, window, Unlimited, Cap
<1>12. CASE Observe
  <2>1. IsFiniteSet(AtPort)
    BY CallersAssumption, FS_Subset DEF AtPort
  <2>2. Cardinality(AtPort) \in Nat
    BY <2>1, FS_CardinalityType
  <2> QED
    BY <1>12, <2>2 DEF Observe, TypeOK, bucket, caller, Unlimited, Cap
<1> QED
  BY <1>1, <1>2, <1>3, <1>4, <1>5, <1>6, <1>7, <1>9, <1>10, <1>11, <1>12, <1>13
     DEF Next, ExecuteCommand

\* The bucket and every other variable keep their ranges, for every caller
\* set and every limit (TypeOK; app.go, allowCommand, CommandRateStatus).
THEOREM TypeCorrect == Spec => []TypeOK
<1>1. Init => TypeOK
  BY TypeInit
<1>2. TypeOK /\ [Next]_vars => TypeOK'
  BY TypeInductive
<1> QED
  BY <1>1, <1>2, PTL DEF Spec

-----------------------------------------------------------------------------
(* The rate. *)

\* Nothing is counted before the observer starts.
Fresh == mark = -1 => admitted = 0 /\ written = 0

\* Written plus about-to-be-written is covered by the admitted commands of the
\* window and the ones that were at the port when it began.
PortBound ==
  mark >= 0 /\ ~Unlimited => written + Cardinality(AtPort) <= admitted + early

RateInv == TypeOK /\ Fresh /\ WindowBound /\ PortBound

\* Counting starts with the window.
LEMMA FreshInductive ==
  ASSUME TypeOK, Fresh, [Next]_vars
  PROVE  Fresh'
BY DEF TypeOK, Fresh, Next, ExecuteCommand, Receive, Reject, AllowCommand, DenyCommand,
       WriteOK, WriteDown, WriteError, Finish, AskRate, Tick, PortChange, Observe,
       vars, window

\* Steps that leave the bucket, the clock and the count alone keep WindowBound.
LEMMA WindowKept ==
  ASSUME WindowBound, UNCHANGED <<now, bucket, mark, admitted>>
  PROVE  WindowBound'
BY DEF WindowBound, bucket, RefilledAt, Cap, Unlimited

\* A refill at the current time keeps WindowBound.
LEMMA WindowRefilled ==
  ASSUME TypeOK, WindowBound, CommandRateStatus, UNCHANGED <<now, mark, admitted>>
  PROVE  WindowBound'
<1>1. CASE Unlimited
  BY <1>1 DEF WindowBound, Unlimited
<1>2. CASE ~Unlimited
  <2>1. RefilledAt(now) \in 0..Cap /\ Cap \in Nat
    BY <1>2, RefillBounds
  <2>2. cmdTokens' = RefilledAt(now) /\ cmdLastFill' = now
    BY <1>2 DEF CommandRateStatus
  <2>3. RefilledAt(now)' = RefilledAt(now)
    BY <1>2, <2>1, <2>2, RefillIdempotent
  <2> QED
    BY <2>3 DEF WindowBound, Cap, Unlimited
<1> QED BY <1>1, <1>2

\* The limiter's window bound is inductive (allowCommand, app.go).
LEMMA WindowInductive ==
  ASSUME TypeOK, Fresh, WindowBound, [Next]_vars
  PROVE  WindowBound'
<1>1. CASE UNCHANGED vars
  BY <1>1, WindowKept DEF vars, window
<1>2. ASSUME NEW c \in Callers,
             Receive(c) \/ Reject(c) \/ WriteOK(c) \/ WriteDown(c) \/ WriteError(c)
      PROVE  WindowBound'
  BY <1>2, WindowKept DEF Receive, Reject, WriteOK, WriteDown, WriteError, window
<1>3. ASSUME NEW c \in Callers, AllowCommand(c)  PROVE WindowBound'
  <2>1. CASE Unlimited \/ mark = -1
    BY <1>3, <2>1 DEF AllowCommand, WindowBound, Unlimited
  <2>2. CASE ~Unlimited /\ mark # -1
    <3>1. RefilledAt(now) \in 0..Cap /\ Cap \in Nat
      BY <2>2, RefillBounds
    <3> DEFINE u == RefilledAt(now) - K
    <3>2. u \in Nat /\ u <= Cap /\ cmdTokens' = u /\ cmdLastFill' = now /\ now' = now
      BY <1>3, <2>2, <3>1, RateAssumption DEF AllowCommand
    <3>3. RefilledAt(now)' = u
      <4> HIDE DEF u
      <4> QED BY <2>2, <3>2, RefillIdempotent
    <3>4. admitted' = admitted + 1 /\ mark' = mark /\ mark >= 0
      BY <1>3, <2>2 DEF AllowCommand, TypeOK
    <3>5. (admitted + 1) * K = admitted * K + K /\ admitted * K \in Int
      BY RateAssumption DEF TypeOK
    <3>6. admitted * K + RefilledAt(now) <= Cap + (now - mark) * Limit
      BY <2>2, <3>4 DEF WindowBound
    <3>7. (now - mark) * Limit \in Int
      BY RateAssumption DEF TypeOK
    <3>8. admitted' * K + RefilledAt(now)' <= Cap + (now - mark) * Limit
      BY <3>1, <3>3, <3>4, <3>5, <3>6, <3>7, RateAssumption
    <3> QED
      BY <3>2, <3>4, <3>8 DEF WindowBound, Cap, Unlimited
  <2> QED BY <2>1, <2>2
<1>4. ASSUME NEW c \in Callers, DenyCommand(c) \/ Finish(c)  PROVE WindowBound'
  BY <1>4, WindowRefilled DEF DenyCommand, Finish, CommandRateStatus, window
<1>5. CASE AskRate
  BY <1>5, WindowRefilled DEF AskRate, window
<1>6. CASE Tick
  <2>1. CASE Unlimited \/ mark = -1
    BY <1>6, <2>1 DEF Tick, WindowBound, Unlimited, window
  <2>2. CASE ~Unlimited /\ mark # -1
    <3>1. RefilledAt(now)' \in Int /\ RefilledAt(now)' <= RefilledAt(now) + Limit
      BY <1>6, <2>2, TickRefills
    <3>2. RefilledAt(now) \in 0..Cap /\ Cap \in Nat
      BY <2>2, RefillBounds
    <3>3. /\ now' = now + 1 /\ mark' = mark /\ admitted' = admitted
          /\ mark >= 0 /\ now - mark \in Nat
      BY <1>6, <2>2 DEF Tick, window, TypeOK
    <3>4. (now' - mark) * Limit = (now - mark) * Limit + Limit
      <4> DEFINE e == now - mark
      <4>1. now' - mark = e + 1 /\ e \in Nat
        BY <3>3 DEF TypeOK
      <4> HIDE DEF e
      <4>2. (e + 1) * Limit = e * Limit + Limit
        BY <4>1, RateAssumption
      <4> QED BY <4>1, <4>2 DEF e
    <3>5. (now - mark) * Limit \in Int /\ admitted * K \in Int
      BY <3>3, RateAssumption DEF TypeOK
    <3>6. admitted * K + RefilledAt(now) <= Cap + (now - mark) * Limit
      BY <2>2, <3>3 DEF WindowBound
    <3>7. admitted * K + RefilledAt(now)' <= Cap + (now' - mark) * Limit
      BY <3>1, <3>2, <3>4, <3>5, <3>6, RateAssumption
    <3> QED
      BY <3>3, <3>7 DEF WindowBound, Cap, Unlimited
  <2> QED BY <2>1, <2>2
<1>7. CASE PortChange
  BY <1>7, WindowKept DEF PortChange, window
<1>8. CASE Observe
  <2>1. CASE Unlimited
    BY <2>1 DEF WindowBound, Unlimited
  <2>2. CASE ~Unlimited
    <3>1. RefilledAt(now) \in 0..Cap /\ Cap \in Nat
      BY <2>2, RefillBounds
    <3>2. RefilledAt(now)' = RefilledAt(now) /\ now' = now /\ mark' = now /\ admitted' = 0
      BY <1>8 DEF Observe, Fresh, RefilledAt, bucket, Cap
    <3>3. (now - now) * Limit = 0 /\ 0 * K = 0
      BY RateAssumption DEF TypeOK
    <3> QED
      BY <3>1, <3>2, <3>3 DEF WindowBound, Cap, Unlimited, TypeOK
  <2> QED BY <2>1, <2>2
<1> QED
  BY <1>1, <1>2, <1>3, <1>4, <1>5, <1>6, <1>7, <1>8 DEF Next, ExecuteCommand

\* The callers between allowCommand and Write can be counted.
LEMMA AtPortFinite == IsFiniteSet(AtPort) /\ Cardinality(AtPort) \in Nat
<1>1. IsFiniteSet(AtPort)
  BY CallersAssumption, FS_Subset DEF AtPort
<1> QED
  BY <1>1, FS_CardinalityType

\* Written commands are covered by admitted ones: inductive.
LEMMA PortInductive ==
  ASSUME TypeOK, Fresh, PortBound, [Next]_vars
  PROVE  PortBound'
<1> USE AtPortFinite
<1>0. Unlimited' <=> Unlimited
  BY DEF Unlimited
<1>1. ASSUME UNCHANGED <<mark, admitted, written, early>>, AtPort' = AtPort
      PROVE  PortBound'
  BY <1>1 DEF PortBound, Unlimited
<1>2. ASSUME NEW c \in Callers, AllowCommand(c)  PROVE PortBound'
  <2>1. AtPort' = AtPort \cup {c} /\ c \notin AtPort
    BY <1>2 DEF AllowCommand, AtPort, TypeOK
  <2>2. Cardinality(AtPort') = Cardinality(AtPort) + 1
    BY <2>1, FS_AddElement
  <2> QED
    BY <1>2, <2>2 DEF AllowCommand, PortBound, TypeOK, Unlimited
<1>3. ASSUME NEW c \in Callers, WriteOK(c) \/ WriteDown(c) \/ WriteError(c)
      PROVE  PortBound'
  <2>1. AtPort' = AtPort \ {c} /\ c \in AtPort
    BY <1>3 DEF WriteOK, WriteDown, WriteError, Return, AtPort, TypeOK
  <2>2. Cardinality(AtPort') = Cardinality(AtPort) - 1
    BY <2>1, FS_RemoveElement
  <2> QED
    BY <1>3, <2>2 DEF WriteOK, WriteDown, WriteError, window, PortBound, TypeOK, Unlimited
<1>4. CASE Observe
  <2>1. AtPort' = AtPort
    BY <1>4 DEF Observe, AtPort, caller
  <2> QED
    BY <1>4, <2>1 DEF Observe, PortBound, Fresh, TypeOK, Unlimited
<1>5. ASSUME NEW c \in Callers, Receive(c) \/ Reject(c) \/ DenyCommand(c) \/ Finish(c)
      PROVE  PortBound'
  <2>1. AtPort' = AtPort
    BY <1>5 DEF Receive, Reject, DenyCommand, Finish, Return, AtPort, TypeOK
  <2> QED
    BY <1>1, <1>5, <2>1 DEF Receive, Reject, DenyCommand, Finish, window
<1>6. CASE AskRate \/ Tick \/ PortChange \/ UNCHANGED vars
  <2>1. AtPort' = AtPort
    BY <1>6 DEF AskRate, Tick, PortChange, vars, caller, AtPort
  <2> QED
    BY <1>1, <1>6, <2>1 DEF AskRate, Tick, PortChange, vars, window
<1> QED
  BY <1>2, <1>3, <1>4, <1>5, <1>6 DEF Next, ExecuteCommand

\* The inductive invariant behind the two bounds.
LEMMA RateInvariant == Spec => []RateInv
<1>1. Init => RateInv
  BY TypeInit DEF Init, RateInv, Fresh, WindowBound, PortBound
<1>2. RateInv /\ [Next]_vars => RateInv'
  BY TypeInductive, FreshInductive, WindowInductive, PortInductive DEF RateInv
<1> QED
  BY <1>1, <1>2, PTL DEF Spec

\* Over any window the limiter admits at most a full bucket plus the refill of
\* the window, for every number of callers, limit and clock resolution.
THEOREM RateBounded == Spec => []WindowBound
<1>1. RateInv => WindowBound
  BY DEF RateInv
<1> QED
  BY RateInvariant, <1>1, PTL

\* And so is what the serial port is given, up to the commands that were on
\* their way to it when the window began.
THEOREM WritesBounded == Spec => []WrittenBound
<1>1. RateInv => WrittenBound
  <2> SUFFICES ASSUME RateInv, mark >= 0, ~Unlimited
               PROVE  written * K <= Cap + (now - mark) * Limit + early * K
    BY DEF WrittenBound
  <2>1. written <= admitted + early
    BY AtPortFinite DEF RateInv, PortBound, TypeOK
  <2>2. written * K <= (admitted + early) * K
    <3>1. \A x, y, k \in Nat : x <= y => x * k <= y * k
      OBVIOUS
    <3> QED
      BY <2>1, <3>1, RateAssumption DEF RateInv, TypeOK
  <2>3. (admitted + early) * K = admitted * K + early * K
    BY RateAssumption DEF RateInv, TypeOK
  <2>4. RefilledAt(now) \in 0..Cap /\ Cap \in Nat
    BY RefillBounds DEF RateInv
  <2>5. admitted * K + RefilledAt(now) <= Cap + (now - mark) * Limit
    BY DEF RateInv, WindowBound
  <2>6. /\ admitted * K \in Int /\ early * K \in Int /\ written * K \in Int
        /\ (now - mark) * Limit \in Int
    BY RateAssumption DEF RateInv, TypeOK
  <2> QED
    BY <2>2, <2>3, <2>4, <2>5, <2>6
<1> QED
  BY RateInvariant, <1>1, PTL

-----------------------------------------------------------------------------
(* The answers. *)

\* A command past allowCommand was accepted: NormalizeCommand and the whitelist
\* are consulted before, never after.
AcceptedPast == \A c \in Callers : pc[c] = "admitted" => Accepted(c)

ResultInv == TypeOK /\ AcceptedPast /\ ResultsTruthful

\* No call is answered "ok" without having written its command exactly once,
\* none that is refused reaches the port (ExecuteCommand, app.go).
THEOREM AnswersTruthful == Spec => []ResultsTruthful
<1>1. Init => ResultInv
  BY TypeInit DEF Init, ResultInv, AcceptedPast, ResultsTruthful, None
<1>2. ASSUME ResultInv, [Next]_vars  PROVE ResultInv'
  <2>0. TypeOK'
    BY <1>2, TypeInductive DEF ResultInv
  <2> SUFFICES AcceptedPast' /\ ResultsTruthful'
    BY <2>0 DEF ResultInv
  <2> USE <1>2 DEF ResultInv, AcceptedPast, ResultsTruthful, TypeOK, Accepted
  <2>1. ASSUME NEW c \in Callers, Receive(c)
        PROVE  AcceptedPast' /\ ResultsTruthful'
    BY <2>1 DEF Receive
  <2>2. ASSUME NEW c \in Callers, Reject(c)
        PROVE  AcceptedPast' /\ ResultsTruthful'
    BY <2>2 DEF Reject, Return
  <2>3. ASSUME NEW c \in Callers, AllowCommand(c) \/ DenyCommand(c)
        PROVE  AcceptedPast' /\ ResultsTruthful'
    BY <2>3 DEF AllowCommand, DenyCommand
  <2>4. ASSUME NEW c \in Callers, WriteOK(c)
        PROVE  AcceptedPast' /\ ResultsTruthful'
    BY <2>4 DEF WriteOK
  <2>5. ASSUME NEW c \in Callers, WriteDown(c) \/ WriteError(c)
        PROVE  AcceptedPast' /\ ResultsTruthful'
    BY <2>5 DEF WriteDown, WriteError, Return
  <2>6. ASSUME NEW c \in Callers, Finish(c)
        PROVE  AcceptedPast' /\ ResultsTruthful'
    BY <2>6 DEF Finish, Return
  <2>7. CASE AskRate \/ Tick \/ PortChange \/ Observe \/ UNCHANGED vars
    BY <2>7 DEF AskRate, Tick, PortChange, Observe, vars, caller
  <2> QED
    BY <2>1, <2>2, <2>3, <2>4, <2>5, <2>6, <2>7 DEF Next, ExecuteCommand
<1>3. ResultInv => ResultsTruthful
  BY DEF ResultInv
<1> QED
  BY <1>1, <1>2, <1>3, PTL DEF Spec

-----------------------------------------------------------------------------
(* The refinement: CommandPath implements TokenBucket. *)

\* A tick adds Limit units, up to the capacity: exactly the abstract refill.
LEMMA TickRefillsExactly ==
  ASSUME TypeOK, ~Unlimited, Tick
  PROVE  RefilledAt(now)' = IF RefilledAt(now) + Limit > Cap
                            THEN Cap ELSE RefilledAt(now) + Limit
<1>1. Limit \in Nat /\ Cap \in Nat
  BY RateAssumption DEF Unlimited, Cap
<1> DEFINE d == now - cmdLastFill
<1>2. d \in Nat /\ cmdTokens \in Int
  BY DEF TypeOK
<1>3. (d + 1) * Limit = d * Limit + Limit /\ d * Limit \in Int
  BY <1>1, <1>2
<1>4. RefilledAt(now)' = IF cmdTokens + (d + 1) * Limit > Cap
                         THEN Cap ELSE cmdTokens + (d + 1) * Limit
  <2>1. now' - cmdLastFill = d + 1 /\ cmdTokens' = cmdTokens /\ cmdLastFill' = cmdLastFill
    BY <1>2 DEF Tick, bucket, TypeOK
  <2> QED
    BY <2>1 DEF RefilledAt, Cap
<1>5. RefilledAt(now) = IF cmdTokens + d * Limit > Cap
                        THEN Cap ELSE cmdTokens + d * Limit
  BY DEF RefilledAt
<1> HIDE DEF d
<1> QED
  BY <1>1, <1>2, <1>3, <1>4, <1>5

\* The mapped credit of an unlimited gateway is 0 and stays so.
LEMMA CreditUnlimited ==
  ASSUME Unlimited
  PROVE  Credit = 0 /\ Credit' = 0
BY DEF Credit, Unlimited

\* Steps that leave the clock and the bucket alone leave the credit alone.
LEMMA CreditKept ==
  ASSUME UNCHANGED <<now, bucket>>
  PROVE  Credit' = Credit
BY DEF Credit, Unlimited, bucket, RefilledAt, Cap

\* A refill at the current time (by a denial, an answer or a query) leaves the
\* credit alone: it only writes down what the clock has brought already.
LEMMA CreditRefilled ==
  ASSUME TypeOK, CommandRateStatus, now' = now
  PROVE  Credit' = Credit
<1>1. CASE Unlimited
  BY <1>1, CreditUnlimited
<1>2. CASE ~Unlimited
  <2>1. RefilledAt(now) \in 0..Cap /\ Cap \in Nat
    BY <1>2, RefillBounds
  <2>2. cmdTokens' = RefilledAt(now) /\ cmdLastFill' = now
    BY <1>2 DEF CommandRateStatus
  <2>3. RefilledAt(now)' = RefilledAt(now)
    BY <1>2, <2>1, <2>2, RefillIdempotent
  <2> QED
    BY <1>2, <2>3 DEF Credit, Unlimited
<1> QED BY <1>1, <1>2

\* The callers the limiter has let through, and those it has refused.
Granted == {c \in Callers : pc[c] \in {"admitted", "written"}}
Refused == {c \in Callers : pc[c] = "denied"}

\* Every step of the command path is a step of the token bucket or none.
LEMMA BucketSimulation ==
  ASSUME TypeOK, [Next]_vars
  PROVE  [Bucket!BucketNext]_(Bucket!bucketVars)
<1> USE DEF Bucket!bucketVars, Bucket!requests, Granted, Refused
<1>1. ASSUME UNCHANGED <<now, bucket>>, Granted' = Granted, Refused' = Refused
      PROVE  UNCHANGED Bucket!bucketVars
  BY <1>1, CreditKept
<1>2. CASE UNCHANGED vars
  BY <1>1, <1>2 DEF vars, caller
<1>3. ASSUME NEW c \in Callers, Receive(c) \/ Reject(c) \/ WriteOK(c)
      PROVE  UNCHANGED Bucket!bucketVars
  <2>1. Granted' = Granted /\ Refused' = Refused
    BY <1>3 DEF Receive, Reject, WriteOK, Return, TypeOK
  <2> QED
    BY <1>1, <1>3, <2>1 DEF Receive, Reject, WriteOK
<1>4. ASSUME NEW c \in Callers, AllowCommand(c)  PROVE Bucket!Grant(c)
  <2>1. /\ c \notin Granted /\ c \notin Refused
        /\ Granted' = Granted \cup {c} /\ Refused' = Refused /\ now' = now
    BY <1>4 DEF AllowCommand, TypeOK
  <2>2. CASE Unlimited
    BY <2>1, <2>2, CreditUnlimited DEF Bucket!Grant, Bucket!Waiting
  <2>3. CASE ~Unlimited
    <3>1. RefilledAt(now) \in 0..Cap /\ Cap \in Nat
      BY <2>3, RefillBounds
    <3> DEFINE u == RefilledAt(now) - K
    <3>2. /\ u \in Nat /\ u <= Cap /\ cmdTokens' = u /\ cmdLastFill' = now
          /\ RefilledAt(now) >= K
      BY <1>4, <2>3, <3>1, RateAssumption DEF AllowCommand
    <3>3. RefilledAt(now)' = u
      <4> HIDE DEF u
      <4> QED BY <2>1, <2>3, <3>2, RefillIdempotent
    <3>4. Credit = RefilledAt(now) /\ Credit' = RefilledAt(now) - K
      BY <2>3, <3>3 DEF Credit, Unlimited
    <3> QED
      BY <2>1, <2>3, <3>2, <3>4 DEF Bucket!Grant, Bucket!Waiting
  <2> QED BY <2>2, <2>3
<1>5. ASSUME NEW c \in Callers, DenyCommand(c)  PROVE Bucket!Refuse(c)
  <2>1. /\ c \notin Granted /\ c \notin Refused
        /\ Granted' = Granted /\ Refused' = Refused \cup {c} /\ now' = now
    BY <1>5 DEF DenyCommand, TypeOK
  <2>2. Credit' = Credit
    BY <1>5, CreditRefilled DEF DenyCommand, CommandRateStatus
  <2>3. ~Unlimited /\ Credit < K
    BY <1>5 DEF DenyCommand, Credit
  <2> QED
    BY <2>1, <2>2, <2>3 DEF Bucket!Refuse, Bucket!Waiting
<1>6. ASSUME NEW c \in Callers, WriteDown(c) \/ WriteError(c) \/ Finish(c)
      PROVE  Bucket!Forget(c)
  <2>1. /\ c \in Granted \cup Refused /\ now' = now
        /\ Granted' = Granted \ {c} /\ Refused' = Refused \ {c}
    BY <1>6 DEF WriteDown, WriteError, Finish, Return, TypeOK
  <2>2. Credit' = Credit
    BY <1>6, CreditKept, CreditRefilled DEF WriteDown, WriteError, Finish
  <2> QED
    BY <2>1, <2>2 DEF Bucket!Forget, Bucket!Waiting
<1>7. CASE AskRate
  <2>1. Granted' = Granted /\ Refused' = Refused /\ now' = now
    BY <1>7 DEF AskRate, caller
  <2>2. Credit' = Credit
    BY <1>7, CreditRefilled DEF AskRate
  <2> QED
    BY <2>1, <2>2
<1>8. CASE Tick
  <2>1. Granted' = Granted /\ Refused' = Refused /\ now' = now + 1
    BY <1>8 DEF Tick, caller
  <2>2. CASE Unlimited
    BY <2>1, <2>2, CreditUnlimited DEF Bucket!BucketNext, Bucket!Pass
  <2>3. CASE ~Unlimited
    <3>1. Credit' = IF Credit + Limit > Cap THEN Cap ELSE Credit + Limit
      BY <1>8, <2>3, TickRefillsExactly DEF Credit, Unlimited
    <3> QED
      BY <2>1, <2>3, <3>1 DEF Bucket!BucketNext, Bucket!Pass
  <2> QED BY <2>2, <2>3
<1>9. CASE PortChange \/ Observe
  <2>1. Granted' = Granted /\ Refused' = Refused
    BY <1>9 DEF PortChange, Observe, caller
  <2> QED
    BY <1>1, <1>9, <2>1 DEF PortChange, Observe
<1> HIDE DEF Bucket!bucketVars, Bucket!requests, Granted, Refused
<1> QED
  BY <1>2, <1>3, <1>4, <1>5, <1>6, <1>7, <1>8, <1>9
     DEF Next, ExecuteCommand, Bucket!BucketNext

\* The lazily refilled limiter implements the token bucket on the clock, for
\* every set of callers, every limit (also "unlimited") and every resolution of
\* the clock (ImplementsBucket; app.go, allowCommand, refillCmdTokensLocked,
\* CommandRateStatus).
THEOREM LimiterIsBucket == Spec => ImplementsBucket
<1>1. Init => Bucket!BucketInit
  <2> SUFFICES ASSUME Init PROVE Bucket!BucketInit
    OBVIOUS
  <2>1. Granted = {} /\ Refused = {} /\ now = 0
    BY DEF Init, Granted, Refused
  <2>2. ~Unlimited => RefilledAt(now) = Cap
    <3>1. (0 - 0) * Limit = 0 /\ Cap \in Int
      BY RateAssumption DEF Cap
    <3> QED BY <3>1 DEF Init, RefilledAt
  <2> QED
    BY <2>1, <2>2 DEF Bucket!BucketInit, Credit, Granted, Refused
<1>2. TypeOK /\ [Next]_vars => [Bucket!BucketNext]_(Bucket!bucketVars)
  BY BucketSimulation
<1> QED
  BY <1>1, <1>2, TypeCorrect, PTL DEF Spec, ImplementsBucket, Bucket!BucketSpec
=============================================================================
