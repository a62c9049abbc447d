---------------------------- MODULE TokenBucket ----------------------------
(***************************************************************************)
(* What a rate limiter promises, without saying how it keeps the books: a  *)
(* credit that grows with the clock up to a capacity, and requests that    *)
(* are granted, at a cost, exactly when the credit suffices.  The limiter  *)
(* of CommandPath, which refills only when somebody asks, implements it.   *)
(***************************************************************************)
EXTENDS Integers

CONSTANTS
  Clients,    \* who may ask
  Rate,       \* credit per tick
  Capacity,   \* of the credit
  Cost        \* of a grant

VARIABLES time, credit, granted, refused

requests == <<granted, refused>>
bucketVars == <<time, credit, requests>>

Waiting(c) == c \notin granted \cup refused

BucketInit ==
  /\ time = 0
  /\ credit = Capacity
  /\ granted = {}
  /\ refused = {}

Pass ==
  /\ time' = time + 1
  /\ credit' = IF credit + Rate > Capacity THEN Capacity ELSE credit + Rate
  /\ UNCHANGED requests

Grant(c) ==
  /\ Waiting(c)
  /\ credit >= Cost
  /\ credit' = credit - Cost
  /\ granted' = granted \cup {c}
  /\ UNCHANGED <<time, refused>>

Refuse(c) ==
  /\ Waiting(c)
  /\ credit < Cost
  /\ refused' = refused \cup {c}
  /\ UNCHANGED <<time, credit, granted>>

\* The client is done with the answer and may ask again.
Forget(c) ==
  /\ ~Waiting(c)
  /\ granted' = granted \ {c}
  /\ refused' = refused \ {c}
  /\ UNCHANGED <<time, credit>>

BucketNext == Pass \/ \E c \in Clients : Grant(c) \/ Refuse(c) \/ Forget(c)

BucketSpec == BucketInit /\ [][BucketNext]_bucketVars

=============================================================================
