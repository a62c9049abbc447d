------------------------- MODULE GuiSessionsProofs -------------------------
(***************************************************************************)
(* Proofs about GuiSessions for any number of requests and addresses, any  *)
(* limits and any times: an address at its limit is locked out, a login    *)
(* evicts expired sessions before live ones, and neither the store nor the *)
(* record of failures outgrows its bound.                                  *)
(***************************************************************************)
EXTENDS GuiSessions, FiniteSetTheorems, SequenceTheorems, TLAPS

\* What the arguments need to know of the types.
Shape ==
  /\ now \in Nat \ {0}
  /\ addr \in [Requests -> IPs]
  /\ attempts = [a \in IPs |-> attempts[a]]
  /\ locked = [a \in IPs |-> locked[a]]
  /\ created = [r \in Requests |-> created[r]]
  /\ \A r \in Requests : created[r].createdAt \in Nat
  /\ \A s \in byID : s.createdAt \in Nat

Inv == Shape /\ FullIsLocked

\* The initial states satisfy the invariant.
LEMMA InvInit == Init => Inv
BY ConstantsAssumption DEF Init, Inv, Shape, FullIsLocked, Exhausted, NoSession

\* allow and success take the failures and the lockout together, fail sets
\* both.
LEMMA LimiterStep ==
  ASSUME Inv, NEW r \in Requests, Allow(r) \/ LoginFail(r) \/ LoginSuccess(r)
  PROVE  Inv'
<1> USE DEF Inv, store
<1>1. addr[r] \in IPs /\ now + Lockout # 0
  BY ConstantsAssumption DEF Shape
<1>2. CASE Allow(r)
  <2>1. Shape'
    BY <1>1, <1>2 DEF Allow, Shape
  <2>2. FullIsLocked'
    BY <1>1, <1>2 DEF Allow, Shape, FullIsLocked, Exhausted
  <2> QED
    BY <2>1, <2>2
<1>3. CASE LoginFail(r)
  <2>1. Shape'
    BY <1>1, <1>3 DEF LoginFail, Shape
  <2>2. FullIsLocked'
    BY <1>1, <1>3 DEF LoginFail, Shape, FullIsLocked, Exhausted
  <2> QED
    BY <2>1, <2>2
<1>4. CASE LoginSuccess(r)
  <2>1. Shape'
    BY <1>1, <1>4 DEF LoginSuccess, Shape
  <2>2. ~Exhausted(<< >>)
    BY ConstantsAssumption DEF Exhausted
  <2>3. FullIsLocked'
    BY <1>1, <1>4, <2>2 DEF LoginSuccess, Shape, FullIsLocked, Exhausted
  <2> QED
    BY <2>1, <2>3
<1> QED
  BY <1>2, <1>3, <1>4

\* Requests with a cookie, and the reaper, only take sessions out.
LEMMA CookieStep ==
  ASSUME NEW r \in Requests,
         HandleSessions(r) \/ \E i \in Ids : CheckAuth(r, i) \/ Logout(r, i)
  PROVE  byID' \subseteq byID /\ UNCHANGED <<now, limiter, addr, created>>
<1>1. CASE \E i \in Ids : CheckAuth(r, i) \/ Logout(r, i)
  BY <1>1 DEF CheckAuth, Logout, Get, GoOn
<1>2. CASE CheckCSRF(r) \/ RequireGUISession(r)
  BY <1>2 DEF CheckCSRF, RequireGUISession, Check, Get, GoOn
<1>3. CASE RevokeAllExcept(r) \/ RevokeOwn(r) \/ \E i \in Ids : Revoke(r, i)
  BY <1>3 DEF RevokeAllExcept, RevokeOwn, Revoke, Drop, GoOn
<1> QED
  BY <1>1, <1>2, <1>3 DEF HandleSessions

\* A step that leaves the limiter alone and stores nothing new.
LEMMA FewerStep ==
  ASSUME Inv, byID' \subseteq byID, UNCHANGED <<limiter, addr, created>>,
         now' = now \/ now' = now + 1
  PROVE  Inv'
BY DEF Inv, Shape, FullIsLocked, Exhausted, limiter

\* Create.
LEMMA CreateStep ==
  ASSUME Inv, NEW r \in Requests, NewSession(r) \/ Insert(r)
  PROVE  Inv'
<1> USE DEF Inv, Shape, FullIsLocked, Exhausted, limiter
<1>1. CASE NewSession(r)
  BY <1>1 DEF NewSession
<1>2. CASE Insert(r)
  <2>1. byID' \subseteq byID \cup {created[r]}
    BY <1>2 DEF Insert
  <2> QED
    BY <1>2, <2>1 DEF Insert, NoSession
<1> QED
  BY <1>1, <1>2

\* Every step of the specification preserves the invariant.
LEMMA InvStep == Inv /\ [Next]_vars => Inv'
<1> SUFFICES ASSUME Inv, [Next]_vars PROVE Inv'
  OBVIOUS
<1>1. ASSUME NEW r \in Requests, Allow(r) \/ Login(r) PROVE Inv'
  <2>1. CASE Allow(r) \/ LoginFail(r) \/ LoginSuccess(r)
    BY <2>1, LimiterStep
  <2>2. CASE NewSession(r) \/ Insert(r)
    BY <2>2, CreateStep
  <2>3. CASE NotConfigured(r) \/ NoRandomID(r)
    BY <2>3, FewerStep DEF NotConfigured, NoRandomID, store
  <2> QED
    BY <1>1, <2>1, <2>2, <2>3 DEF Login
<1>2. ASSUME NEW r \in Requests,
             HandleSessions(r) \/ \E i \in Ids : CheckAuth(r, i) \/ Logout(r, i)
      PROVE  Inv'
  BY <1>2, CookieStep, FewerStep
<1>3. CASE Reap \/ Tick \/ UNCHANGED vars
  BY <1>3, FewerStep DEF Reap, Tick, vars, store, request
<1> QED
  BY <1>1, <1>2, <1>3 DEF Next

\* The invariant holds in every reachable state.
THEOREM Invariance == Spec => []Inv
<1> QED
  BY InvInit, InvStep, PTL DEF Spec

\* An address with loginMaxAttempts failures on record is locked out
\* (login_limit.go, fail, allow and success).
THEOREM LockoutSet == Spec => []FullIsLocked
<1>1. Inv => FullIsLocked
  BY DEF Inv
<1> QED
  BY <1>1, Invariance, PTL

EvictsExpired ==
  byID' \subseteq byID \/
    \A s \in byID \ byID' : Live(s) => \A o \in byID \cap byID' : Live(o)

\* The oldest session is the one that expires first, because the time a session
\* lasts is the same for all.
LEMMA EvictionStep == Inv /\ [Next]_vars => EvictsExpired
<1> SUFFICES ASSUME Inv, [Next]_vars PROVE EvictsExpired
  OBVIOUS
<1>1. ASSUME NEW r \in Requests, Insert(r) PROVE EvictsExpired
  <2> SUFFICES ASSUME NEW s \in byID \ byID', Live(s), NEW o \in byID \cap byID'
               PROVE  Live(o)
    BY DEF EvictsExpired
  <2>1. PICK e \in byID : Oldest(e) /\ byID' = (byID \ {e}) \cup {created[r]}
    BY <1>1 DEF Insert
  <2>2. s = e
    BY <2>1
  <2>3. s.createdAt <= o.createdAt
    BY <2>1, <2>2 DEF Oldest
  <2>4. s.createdAt \in Nat /\ o.createdAt \in Nat /\ now \in Nat
    BY DEF Inv, Shape
  <2> QED
    BY <2>3, <2>4, ConstantsAssumption DEF Live
<1>2. ASSUME NEW r \in Requests, Allow(r) \/ (Login(r) /\ ~Insert(r)) PROVE EvictsExpired
  BY <1>2 DEF EvictsExpired, Allow, Login, NotConfigured, LoginFail, LoginSuccess,
              NewSession, NoRandomID, store
<1>3. ASSUME NEW r \in Requests,
             HandleSessions(r) \/ \E i \in Ids : CheckAuth(r, i) \/ Logout(r, i)
      PROVE  EvictsExpired
  BY <1>3, CookieStep DEF EvictsExpired
<1>4. CASE Reap \/ Tick \/ UNCHANGED vars
  BY <1>4 DEF EvictsExpired, Reap, Tick, vars, store
<1> QED
  BY <1>1, <1>2, <1>3, <1>4 DEF Next

\* A login evicts no live session while an expired one stays (session.go,
\* Create).
THEOREM EvictionFair == Spec => ExpiredEvictedFirst
<1>1. Inv /\ [Next]_vars => [EvictsExpired]_vars
  BY EvictionStep
<1> QED
  BY <1>1, Invariance, PTL DEF Spec, ExpiredEvictedFirst, EvictsExpired

-----------------------------------------------------------------------------
(* The pruning of the window. *)

\* The k-th of I exists, is different for every k, and k is bounded.
LEMMA NthProperties ==
  ASSUME NEW n \in Nat, NEW I \in SUBSET (1..n)
  PROVE  /\ Cardinality(I) \in Nat /\ Cardinality(I) <= n
         /\ \A k \in 1..Cardinality(I) : Nth(I, k) \in I
         /\ \A k, l \in 1..Cardinality(I) : Nth(I, k) = Nth(I, l) => k = l
<1> DEFINE Upto(i) == {j \in I : j <= i}
           rank == [i \in I |-> Cardinality(Upto(i))]
           N == Cardinality(I)
<1>1. IsFiniteSet(I) /\ N \in Nat /\ N <= n
  <2>1. IsFiniteSet(1..n) /\ Cardinality(1..n) = n
    BY FS_Interval
  <2>2. IsFiniteSet(I) /\ N <= n
    BY <2>1, FS_Subset
  <2> QED
    BY <2>2, FS_CardinalityType
<1>2. \A i \in I : IsFiniteSet(Upto(i)) /\ Cardinality(Upto(i)) \in 1..N
  <2> SUFFICES ASSUME NEW i \in I
               PROVE  IsFiniteSet(Upto(i)) /\ Cardinality(Upto(i)) \in 1..N
    OBVIOUS
  <2>1. Upto(i) \in SUBSET I /\ i \in Upto(i)
    OBVIOUS
  <2> HIDE DEF Upto
  <2>2. IsFiniteSet(Upto(i)) /\ Cardinality(Upto(i)) <= N
    BY <1>1, <2>1, FS_Subset
  <2>3. Cardinality(Upto(i)) \in Nat
    BY <2>2, FS_CardinalityType
  <2>4. Cardinality(Upto(i)) # 0
    <3>1. Upto(i) # {}
      BY <2>1
    <3> QED
      BY <2>2, <3>1, FS_EmptySet, Zenon
  <2> QED
    BY <1>1, <2>2, <2>3, <2>4
<1>3. ASSUME NEW i \in I, NEW j \in I, i < j PROVE Cardinality(Upto(i)) # Cardinality(Upto(j))
  <2>1. Upto(i) \in SUBSET Upto(j) /\ j \in Upto(j) /\ j \notin Upto(i)
    <3>1. \A k \in I : k \in Int
      OBVIOUS
    <3>2. i \in Int /\ j \in Int /\ ~(j <= i) /\ j <= j
      BY <1>3, <3>1
    <3>3. \A k \in I : k <= i => k <= j
      BY <1>3, <3>1, <3>2
    <3> QED
      BY <3>2, <3>3
  <2>2. IsFiniteSet(Upto(j))
    BY <1>2
  <2> HIDE DEF Upto
  <2> QED
    BY <2>1, <2>2, FS_Subset
<1>4. \A i, j \in I : Cardinality(Upto(i)) = Cardinality(Upto(j)) => i = j
  <2>1. \A i, j \in I : i # j => i < j \/ j < i
    OBVIOUS
  <2> HIDE DEF Upto
  <2> QED
    BY <1>3, <2>1
<1>5. rank \in Injection(I, 1..N)
  <2> HIDE DEF Upto, N
  <2>1. rank \in [I -> 1..N]
    BY <1>2
  <2>2. \A i, j \in I : rank[i] = rank[j] => i = j
    BY <1>4
  <2> HIDE DEF rank
  <2> QED
    BY <2>1, <2>2 DEF Injection, IsInjective
<1>6. rank \in Surjection(I, 1..N)
  <2>1. IsFiniteSet(1..N) /\ Cardinality(1..N) = N
    BY <1>1, FS_Interval
  <2> HIDE DEF rank
  <2> QED
    BY <1>5, <2>1, FS_Injection
<1>7. \A k \in 1..N : \E i \in I : Cardinality(Upto(i)) = k
  <2> SUFFICES ASSUME NEW k \in 1..N PROVE \E i \in I : rank[i] = k
    OBVIOUS
  <2> HIDE DEF rank, N
  <2> QED
    BY <1>6 DEF Surjection
<1>8. \A k \in 1..N : Nth(I, k) \in I /\ Cardinality(Upto(Nth(I, k))) = k
  BY <1>7 DEF Nth
<1> QED
  <2> HIDE DEF Upto
  <2> QED
    BY <1>1, <1>8

\* What is kept of a sequence is a sequence, no longer.
LEMMA KeptProperties ==
  ASSUME NEW S, NEW s \in Seq(S), NEW I \in SUBSET (1..Len(s))
  PROVE  /\ Kept(s, I) \in Seq(S)
         /\ Len(Kept(s, I)) = Cardinality(I)
         /\ Cardinality(I) <= Len(s)
<1>1. /\ Cardinality(I) \in Nat /\ Cardinality(I) <= Len(s)
      /\ \A k \in 1..Cardinality(I) : Nth(I, k) \in I
  BY NthProperties
<1>2. \A k \in 1..Cardinality(I) : s[Nth(I, k)] \in S
  <2>1. \A i \in I : s[i] \in S
    OBVIOUS
  <2> QED
    BY <1>1, <2>1
<1>3. Kept(s, I) \in [1..Cardinality(I) -> S]
  BY <1>2 DEF Kept
<1>4. Kept(s, I) \in Seq(S)
  BY <1>1, <1>3
<1>5. DOMAIN Kept(s, I) = 1..Cardinality(I)
  BY <1>3
<1>6. Len(Kept(s, I)) \in Nat /\ DOMAIN Kept(s, I) = 1..Len(Kept(s, I))
  BY <1>4, LenProperties
<1>7. Len(Kept(s, I)) = Cardinality(I)
  BY <1>1, <1>5, <1>6
<1> QED
  BY <1>1, <1>4, <1>7

\* allow prunes the failures of an address: times, and no more than before.
LEMMA RecentProperties ==
  ASSUME TypeOK, NEW a \in IPs
  PROVE  Recent(a) \in Seq(Times) /\ Len(Recent(a)) <= Len(attempts[a])
<1>1. attempts[a] \in Seq(Times) /\ Len(attempts[a]) \in Nat
  BY DEF TypeOK
<1> DEFINE I == {i \in 1..Len(attempts[a]) : attempts[a][i] > now - Window}
<1>2. /\ Kept(attempts[a], I) \in Seq(Times)
      /\ Len(Kept(attempts[a], I)) <= Len(attempts[a])
  <2>1. I \in SUBSET (1..Len(attempts[a]))
    OBVIOUS
  <2> HIDE DEF I
  <2> QED
    BY <1>1, <2>1, KeptProperties
<1> QED
  BY <1>1, <1>2 DEF Recent

-----------------------------------------------------------------------------
(* The store: its limit, and that no two sessions have one id. *)

\* The ids are drawn one after the other: a session that is stored, or made and
\* not stored yet, has one of its own.
StoreInv ==
  /\ IsFiniteSet(byID)
  /\ \A s \in byID : s.id <= lastId
  /\ \A r \in Requests : pc[r] = "insert" =>
       /\ created[r] \in Sessions /\ created[r].id <= lastId
       /\ \A s \in byID : s.id # created[r].id
  /\ \A r, q \in Requests :
       pc[r] = "insert" /\ pc[q] = "insert" /\ created[r].id = created[q].id => r = q

\* The requests of an address that have been admitted and not decided yet.
Admitted(a) == {r \in Requests : pc[r] = "admitted" /\ addr[r] = a}

\* Each of them may add one failure.
AttemptsInv ==
  \A a \in IPs :
    Len(attempts[a]) + Cardinality(Admitted(a)) < MaxAttempts + Cardinality(Requests)

TypeInv == TypeOK /\ StoreInv /\ AttemptsInv

\* Where a request may be.
Places == {"idle", "admitted", "create", "insert", "csrf", "gui", "delete", "logout"}

\* The requests admitted are finitely many; fewer count less.
LEMMA AdmittedProperties ==
  ASSUME NEW a
  PROVE  /\ IsFiniteSet(Admitted(a)) /\ Cardinality(Admitted(a)) \in Nat
         /\ Cardinality(Admitted(a)) <= Cardinality(Requests)
         /\ Cardinality(Requests) \in Nat
<1>1. Admitted(a) \in SUBSET Requests /\ IsFiniteSet(Requests)
  BY ConstantsAssumption DEF Admitted
<1>2. IsFiniteSet(Admitted(a)) /\ Cardinality(Admitted(a)) <= Cardinality(Requests)
  BY <1>1, FS_Subset
<1> QED
  BY <1>1, <1>2, FS_CardinalityType

\* A step that admits nobody and notes no failure.
LEMMA AttemptsFewer ==
  ASSUME TypeInv, UNCHANGED <<attempts, addr>>,
         \A r \in Requests : pc'[r] = "admitted" => pc[r] = "admitted"
  PROVE  AttemptsInv'
<1> SUFFICES ASSUME NEW a \in IPs
             PROVE  Len(attempts[a]) + Cardinality(Admitted(a)') < MaxAttempts + Cardinality(Requests)
  BY DEF AttemptsInv
<1>1. Admitted(a)' \in SUBSET Admitted(a)
  BY DEF Admitted
<1>2. IsFiniteSet(Admitted(a)) /\ Cardinality(Admitted(a)) \in Nat /\ Cardinality(Requests) \in Nat
  BY AdmittedProperties
<1>3. IsFiniteSet(Admitted(a)') /\ Cardinality(Admitted(a)') <= Cardinality(Admitted(a))
  BY <1>1, <1>2, FS_Subset
<1>4. Cardinality(Admitted(a)') \in Nat
  BY <1>3, FS_CardinalityType
<1>5. Len(attempts[a]) \in Nat
  BY DEF TypeInv, TypeOK
<1>6. Len(attempts[a]) + Cardinality(Admitted(a)) < MaxAttempts + Cardinality(Requests)
  BY DEF TypeInv, AttemptsInv
<1> QED
  BY <1>2, <1>3, <1>4, <1>5, <1>6, ConstantsAssumption

\* A step that stores no session and takes none out of a request's hands.
LEMMA StoreFewer ==
  ASSUME TypeInv, byID' \subseteq byID, UNCHANGED <<lastId, created>>,
         \A r \in Requests : pc'[r] = "insert" => pc[r] = "insert"
  PROVE  /\ StoreInv'
         /\ byID' \subseteq Sessions /\ \A s, o \in byID' : s.id = o.id => s = o
         /\ Cardinality(byID') <= MaxSessions
<1>1. IsFiniteSet(byID) /\ byID' \in SUBSET byID /\ Cardinality(byID) <= MaxSessions
  BY DEF TypeInv, TypeOK, StoreInv
<1>2. /\ IsFiniteSet(byID') /\ Cardinality(byID') <= Cardinality(byID)
      /\ Cardinality(byID') \in Nat /\ Cardinality(byID) \in Nat
  BY <1>1, FS_Subset, FS_CardinalityType
<1>3. Cardinality(byID') <= MaxSessions
  BY <1>1, <1>2, ConstantsAssumption
<1>4. StoreInv'
  BY <1>2 DEF TypeInv, StoreInv
<1> QED
  BY <1>3, <1>4 DEF TypeInv, TypeOK

\* Requests with a cookie, the reaper and the clock.
LEMMA TypeFewer ==
  ASSUME TypeInv, byID' \subseteq byID,
         UNCHANGED <<configured, limiter, lastId, addr, created>>,
         now' \in Times, pc' \in [Requests -> Places], sid' \in [Requests -> 0..MaxLogins],
         \A r \in Requests : pc'[r] \in {"admitted", "insert"} => pc[r] = pc'[r]
  PROVE  TypeInv'
<1>1. AttemptsInv'
  BY AttemptsFewer DEF limiter
<1>2. /\ StoreInv'
      /\ byID' \subseteq Sessions /\ \A s, o \in byID' : s.id = o.id => s = o
      /\ Cardinality(byID') <= MaxSessions
  BY StoreFewer
<1>3. TypeOK'
  BY <1>2 DEF TypeInv, TypeOK, limiter, Places
<1> QED
  BY <1>1, <1>2, <1>3 DEF TypeInv

\* allow admits a request only while the failures on record are below the limit.
LEMMA TypeAllow ==
  ASSUME TypeInv, NEW r \in Requests, Allow(r)
  PROVE  TypeInv'
<1> DEFINE a == addr[r]
<1>1. a \in IPs /\ now \in Times
  BY DEF TypeInv, TypeOK
<1>2. Recent(a) \in Seq(Times) /\ Len(Recent(a)) <= Len(attempts[a]) /\ Len(Recent(a)) \in Nat
  BY <1>1, RecentProperties DEF TypeInv
<1>3. /\ attempts' = [attempts EXCEPT ![a] = Recent(a)]
      /\ UNCHANGED <<now, configured, byID, lastId, addr, sid, created>>
      /\ pc[r] = "idle"
  BY DEF Allow, store
<1>4. \/ Exhausted(Recent(a)) /\ UNCHANGED pc /\ locked' = [locked EXCEPT ![a] = now + Lockout]
      \/ /\ ~Exhausted(Recent(a)) /\ pc' = [pc EXCEPT ![r] = "admitted"]
         /\ locked' = [locked EXCEPT ![a] = 0]
  BY DEF Allow
<1>5. attempts' \in [IPs -> Seq(Times)]
  BY <1>1, <1>2, <1>3 DEF TypeInv, TypeOK
<1>6. locked' \in [IPs -> 0..(MaxTime + Lockout)]
  <2>1. now + Lockout \in 0..(MaxTime + Lockout) /\ 0 \in 0..(MaxTime + Lockout)
    BY <1>1, ConstantsAssumption DEF Times
  <2> QED
    BY <1>1, <1>4, <2>1 DEF TypeInv, TypeOK
<1>7. /\ pc' \in [Requests -> Places]
      /\ \A q \in Requests : pc'[q] = "insert" => pc[q] = "insert"
  BY <1>4 DEF TypeInv, TypeOK, Places
<1>8. StoreInv'
  BY <1>3, <1>7, StoreFewer
<1>9. TypeOK'
  BY <1>3, <1>5, <1>6, <1>7 DEF TypeInv, TypeOK, Places
<1>10. AttemptsInv'
  <2> SUFFICES ASSUME NEW b \in IPs
               PROVE  Len(attempts'[b]) + Cardinality(Admitted(b)')
                        < MaxAttempts + Cardinality(Requests)
    BY DEF AttemptsInv
  <2>1. Cardinality(Admitted(b)') \in Nat /\ Cardinality(Admitted(b)') <= Cardinality(Requests)
        /\ Cardinality(Requests) \in Nat /\ Cardinality(Admitted(b)) \in Nat
    <3>1. Admitted(b)' \in SUBSET Requests /\ IsFiniteSet(Requests)
      BY ConstantsAssumption DEF Admitted
    <3> QED
      BY <3>1, FS_Subset, FS_CardinalityType, AdmittedProperties
  <2>2. /\ Len(attempts[b]) \in Nat /\ Len(attempts'[b]) \in Nat
        /\ Len(attempts[b]) + Cardinality(Admitted(b)) < MaxAttempts + Cardinality(Requests)
    BY <1>5 DEF TypeInv, TypeOK, AttemptsInv
  <2>3. Len(attempts'[b]) <= Len(attempts[b])
    BY <1>1, <1>2, <1>3, <2>2 DEF TypeInv, TypeOK
  <2>4. CASE b = a /\ ~Exhausted(Recent(a))
    <3>1. attempts'[b] = Recent(a)
      BY <1>1, <1>3, <2>4 DEF TypeInv, TypeOK
    <3>2. Len(attempts'[b]) < MaxAttempts
      BY <1>2, <2>4, <3>1, ConstantsAssumption DEF Exhausted
    <3> QED
      BY <2>1, <2>2, <3>2, ConstantsAssumption
  <2>5. CASE ~(b = a /\ ~Exhausted(Recent(a)))
    <3>1. Admitted(b)' = Admitted(b)
      BY <1>3, <1>4, <2>5 DEF Admitted, TypeInv, TypeOK
    <3> QED
      BY <2>1, <2>2, <2>3, <3>1, ConstantsAssumption
  <2> QED
    BY <2>4, <2>5
<1> QED
  BY <1>8, <1>9, <1>10 DEF TypeInv

\* A failure takes one request from the admitted and adds one to the record; a
\* success clears the record.
LEMMA TypeDecide ==
  ASSUME TypeInv, NEW r \in Requests, LoginFail(r) \/ LoginSuccess(r)
  PROVE  TypeInv'
<1> DEFINE a == addr[r]
<1>1. a \in IPs /\ now \in Times /\ attempts[a] \in Seq(Times) /\ pc[r] = "admitted"
  BY DEF TypeInv, TypeOK, LoginFail, LoginSuccess
<1>2. PICK list : /\ attempts' = [attempts EXCEPT ![a] = list]
                  /\ list = Append(attempts[a], now) \/ list = << >>
  BY <1>1 DEF LoginFail, LoginSuccess, TypeInv, TypeOK
<1>3. /\ list \in Seq(Times) /\ Len(list) \in Nat /\ Len(attempts[a]) \in Nat
      /\ Len(list) <= Len(attempts[a]) + 1
  <2> HIDE DEF a
  <2>1. CASE list = Append(attempts[a], now)
    BY <1>1, <2>1
  <2>2. CASE list = << >>
    BY <1>1, <2>2
  <2> QED
    BY <1>2, <2>1, <2>2
<1>4. UNCHANGED <<now, configured, byID, lastId, addr, sid, created>>
  BY DEF LoginFail, LoginSuccess, store
<1>5. attempts' \in [IPs -> Seq(Times)]
  BY <1>1, <1>2, <1>3 DEF TypeInv, TypeOK
<1>6. locked' \in [IPs -> 0..(MaxTime + Lockout)]
  <2>1. now + Lockout \in 0..(MaxTime + Lockout) /\ 0 \in 0..(MaxTime + Lockout)
    BY <1>1, ConstantsAssumption DEF Times
  <2>2. locked' = locked \/ \E t \in 0..(MaxTime + Lockout) : locked' = [locked EXCEPT ![a] = t]
    BY <2>1 DEF LoginFail, LoginSuccess
  <2> QED
    BY <1>1, <2>2 DEF TypeInv, TypeOK
<1>7. pc' = [pc EXCEPT ![r] = "idle"] \/ pc' = [pc EXCEPT ![r] = "create"]
  BY DEF LoginFail, LoginSuccess
<1>8. /\ pc' \in [Requests -> Places]
      /\ \A q \in Requests : pc'[q] = "insert" => pc[q] = "insert"
      /\ pc'[r] # "admitted" /\ \A q \in Requests : q # r => pc'[q] = pc[q]
  BY <1>7 DEF TypeInv, TypeOK, Places
<1>9. StoreInv'
  BY <1>4, <1>8, StoreFewer
<1>10. TypeOK'
  BY <1>4, <1>5, <1>6, <1>8 DEF TypeInv, TypeOK, Places
<1>11. AttemptsInv'
  <2> SUFFICES ASSUME NEW b \in IPs
               PROVE  Len(attempts'[b]) + Cardinality(Admitted(b)')
                        < MaxAttempts + Cardinality(Requests)
    BY DEF AttemptsInv
  <2>1. /\ IsFiniteSet(Admitted(b)) /\ Cardinality(Admitted(b)) \in Nat
        /\ Cardinality(Requests) \in Nat
    BY AdmittedProperties
  <2>2. /\ Len(attempts[b]) \in Nat
        /\ Len(attempts[b]) + Cardinality(Admitted(b)) < MaxAttempts + Cardinality(Requests)
    BY DEF TypeInv, TypeOK, AttemptsInv
  <2>3. CASE b = a
    <3>1. Admitted(b)' = Admitted(b) \ {r} /\ r \in Admitted(b)
      BY <1>1, <1>4, <1>8, <2>3 DEF Admitted
    <3>2. Cardinality(Admitted(b)') = Cardinality(Admitted(b)) - 1
      BY <2>1, <3>1, FS_RemoveElement
    <3>3. attempts'[b] = list
      BY <1>1, <1>2, <2>3 DEF TypeInv, TypeOK
    <3> QED
      BY <1>3, <2>1, <2>2, <2>3, <3>2, <3>3, ConstantsAssumption
  <2>4. CASE b # a
    <3>1. Admitted(b)' = Admitted(b)
      BY <1>4, <1>8, <2>4 DEF Admitted
    <3>2. attempts'[b] = attempts[b]
      BY <1>1, <1>2, <2>4 DEF TypeInv, TypeOK
    <3> QED
      BY <2>2, <3>1, <3>2
  <2> QED
    BY <2>3, <2>4
<1> QED
  BY <1>9, <1>10, <1>11 DEF TypeInv

\* A new session has an id nobody had before.
LEMMA TypeNew ==
  ASSUME TypeInv, NEW r \in Requests, NewSession(r)
  PROVE  TypeInv'
<1> DEFINE new == [id |-> lastId + 1, createdAt |-> now]
<1>1. /\ lastId' = lastId + 1 /\ lastId \in Nat /\ lastId' \in 1..MaxLogins /\ now \in Times
      /\ created' = [created EXCEPT ![r] = new] /\ pc' = [pc EXCEPT ![r] = "insert"]
      /\ UNCHANGED <<now, configured, limiter, byID, addr, sid>>
  BY ConstantsAssumption DEF NewSession, TypeInv, TypeOK
<1>2. new \in Sessions /\ new.id = lastId + 1
  BY <1>1 DEF Sessions, Ids
<1>3. /\ pc' \in [Requests -> Places] /\ pc'[r] = "insert" /\ pc[r] = "create"
      /\ \A q \in Requests : q # r => pc'[q] = pc[q] /\ created'[q] = created[q]
      /\ created' \in [Requests -> Sessions \cup {NoSession}] /\ created'[r] = new
  <2> HIDE DEF new
  <2>1. pc \in [Requests -> Places] /\ created \in [Requests -> Sessions \cup {NoSession}]
    BY DEF TypeInv, TypeOK, Places
  <2> QED
    BY <1>1, <1>2, <2>1 DEF Places, NewSession
<1> HIDE DEF new
<1>4. AttemptsInv'
  <2>1. \A q \in Requests : pc'[q] = "admitted" => pc[q] = "admitted"
    BY <1>3
  <2> QED
    BY <1>1, <2>1, AttemptsFewer DEF limiter
<1>5. TypeOK'
  <2>1. lastId' \in 0..MaxLogins
    BY <1>1
  <2> QED
    BY <1>1, <1>3, <2>1 DEF TypeInv, TypeOK, limiter, Places
<1>6. StoreInv'
  <2>1. \A s \in byID : s.id \in Nat /\ s.id <= lastId
    <3>1. \A s \in byID : s.id \in 1..MaxLogins
      BY DEF TypeInv, TypeOK, Sessions, Ids
    <3> QED
      BY <3>1 DEF TypeInv, StoreInv
  <2>2. \A q \in Requests : q # r /\ pc'[q] = "insert" =>
          /\ created'[q] \in Sessions /\ created'[q].id \in Nat /\ created'[q].id <= lastId
          /\ \A s \in byID : s.id # created'[q].id
    <3>1. \A s \in Sessions : s.id \in Nat
      BY DEF Sessions, Ids
    <3> QED
      BY <1>3, <3>1 DEF TypeInv, StoreInv
  <2>3. \A s \in byID : s.id <= lastId' /\ s.id # new.id
    BY <1>1, <1>2, <2>1
  <2>4. \A q \in Requests : pc'[q] = "insert" =>
          /\ created'[q] \in Sessions /\ created'[q].id <= lastId'
          /\ \A s \in byID : s.id # created'[q].id
    BY <1>1, <1>2, <1>3, <2>2, <2>3
  <2>5. \A p, q \in Requests :
          pc'[p] = "insert" /\ pc'[q] = "insert" /\ created'[p].id = created'[q].id => p = q
    <3>1. \A q \in Requests : q # r /\ pc'[q] = "insert" => created'[q].id # created'[r].id
      BY <1>1, <1>2, <1>3, <2>2
    <3>2. \A p, q \in Requests : p # r /\ q # r /\
            pc'[p] = "insert" /\ pc'[q] = "insert" /\ created'[p].id = created'[q].id => p = q
      BY <1>3 DEF TypeInv, StoreInv
    <3> QED
      BY <3>1, <3>2
  <2>6. IsFiniteSet(byID) /\ byID' = byID
    BY <1>1 DEF TypeInv, StoreInv
  <2> QED
    BY <2>3, <2>4, <2>5, <2>6 DEF StoreInv
<1> QED
  BY <1>4, <1>5, <1>6 DEF TypeInv

\* Storing it keeps the limit: a full store gives up one session first.
LEMMA TypeInsert ==
  ASSUME TypeInv, NEW r \in Requests, Insert(r)
  PROVE  TypeInv'
<1>1. /\ pc[r] = "insert" /\ pc' = [pc EXCEPT ![r] = "idle"]
      /\ created' = [created EXCEPT ![r] = NoSession]
      /\ UNCHANGED <<now, configured, limiter, lastId, addr, sid>>
  BY DEF Insert
<1>2. /\ pc' \in [Requests -> Places] /\ pc'[r] = "idle"
      /\ \A q \in Requests : q # r => pc'[q] = pc[q] /\ created'[q] = created[q]
      /\ created' \in [Requests -> Sessions \cup {NoSession}]
  <2>1. pc \in [Requests -> Places] /\ created \in [Requests -> Sessions \cup {NoSession}]
    BY DEF TypeInv, TypeOK, Places
  <2> QED
    BY <1>1, <2>1 DEF Places
<1>3. /\ created[r] \in Sessions /\ created[r].id <= lastId
      /\ \A s \in byID : s.id # created[r].id
  BY <1>1 DEF TypeInv, StoreInv
<1>4. PICK kept : /\ kept \in SUBSET byID /\ byID' = kept \cup {created[r]}
                  /\ IsFiniteSet(kept) /\ Cardinality(kept) < MaxSessions
                  /\ Cardinality(kept) \in Nat
  <2>1. IsFiniteSet(byID) /\ Cardinality(byID) <= MaxSessions /\ Cardinality(byID) \in Nat
    BY FS_CardinalityType DEF TypeInv, TypeOK, StoreInv
  <2>2. CASE StoreFull
    <3>1. PICK s \in byID : byID' = (byID \ {s}) \cup {created[r]}
      BY <2>2 DEF Insert
    <3>2. IsFiniteSet(byID \ {s}) /\ Cardinality(byID \ {s}) = Cardinality(byID) - 1
      BY <2>1, FS_RemoveElement
    <3>3. Cardinality(byID \ {s}) \in Nat
      BY <3>2, FS_CardinalityType
    <3>4. Cardinality(byID \ {s}) < MaxSessions
      BY <2>1, <3>2, ConstantsAssumption
    <3> QED
      BY <3>1, <3>2, <3>3, <3>4
  <2>3. CASE ~StoreFull
    <3>1. Cardinality(byID) < MaxSessions
      BY <2>1, <2>3, ConstantsAssumption DEF StoreFull
    <3> QED
      BY <2>1, <2>3, <3>1 DEF Insert
  <2> QED
    BY <2>2, <2>3
<1>5. IsFiniteSet(byID') /\ Cardinality(byID') <= MaxSessions
  <2>1. IsFiniteSet(byID') /\ Cardinality(byID') <= Cardinality(kept) + 1
    BY <1>4, FS_AddElement
  <2>2. Cardinality(byID') \in Nat
    BY <2>1, FS_CardinalityType
  <2> QED
    BY <1>4, <2>1, <2>2, ConstantsAssumption
<1>6. \A s, o \in byID' : s.id = o.id => s = o
  BY <1>3, <1>4 DEF TypeInv, TypeOK
<1>7. TypeOK'
  BY <1>1, <1>2, <1>3, <1>4, <1>5, <1>6 DEF TypeInv, TypeOK, limiter, Places
<1>8. AttemptsInv'
  <2>1. \A q \in Requests : pc'[q] = "admitted" => pc[q] = "admitted"
    BY <1>2
  <2> QED
    BY <1>1, <2>1, AttemptsFewer DEF limiter
<1>9. StoreInv'
  <2>1. \A s \in byID' : s.id <= lastId'
    BY <1>1, <1>3, <1>4 DEF TypeInv, StoreInv
  <2>2. \A q \in Requests : pc'[q] = "insert" => q # r /\ pc[q] = "insert" /\ created'[q] = created[q]
    BY <1>2
  <2>3. \A q \in Requests : pc'[q] = "insert" =>
          /\ created'[q] \in Sessions /\ created'[q].id <= lastId'
          /\ \A s \in byID' : s.id # created'[q].id
    BY <1>1, <1>4, <2>2 DEF TypeInv, StoreInv
  <2>4. \A p, q \in Requests :
          pc'[p] = "insert" /\ pc'[q] = "insert" /\ created'[p].id = created'[q].id => p = q
    BY <2>2 DEF TypeInv, StoreInv
  <2> QED
    BY <1>5, <2>1, <2>3, <2>4 DEF StoreInv
<1> QED
  BY <1>7, <1>8, <1>9 DEF TypeInv

\* The strengthened invariant holds in every state.
LEMMA TypeAlways == Spec => []TypeInv
<1>1. Init => TypeInv
  <2> SUFFICES ASSUME Init PROVE TypeInv
    OBVIOUS
  <2>1. IsFiniteSet(byID) /\ Cardinality(byID) = 0
    BY FS_EmptySet DEF Init
  <2>2. TypeOK
    BY <2>1, ConstantsAssumption DEF Init, TypeOK, Times, Sessions
  <2>3. StoreInv
    BY <2>1 DEF Init, StoreInv
  <2>4. \A a \in IPs : Admitted(a) = {} /\ Len(attempts[a]) = 0
    BY DEF Init, Admitted
  <2>5. Cardinality(Requests) \in Nat /\ Cardinality({}) = 0
    BY FS_EmptySet, FS_CardinalityType, ConstantsAssumption
  <2>6. AttemptsInv
    <3> SUFFICES ASSUME NEW a \in IPs
                 PROVE  Len(attempts[a]) + Cardinality(Admitted(a))
                          < MaxAttempts + Cardinality(Requests)
      BY DEF AttemptsInv
    <3>1. Len(attempts[a]) = 0 /\ Cardinality(Admitted(a)) = 0
      BY <2>4, <2>5
    <3> QED
      BY <2>5, <3>1, ConstantsAssumption
  <2> QED
    BY <2>2, <2>3, <2>6 DEF TypeInv
<1>2. TypeInv /\ [Next]_vars => TypeInv'
  <2> SUFFICES ASSUME TypeInv, [Next]_vars PROVE TypeInv'
    OBVIOUS
  <2>1. now \in Times /\ pc \in [Requests -> Places] /\ sid \in [Requests -> 0..MaxLogins]
    BY DEF TypeInv, TypeOK, Places
  <2>2. ASSUME NEW r \in Requests, NEW to \in Places \ {"admitted", "insert"},
               NEW i \in 0..MaxLogins, byID' \subseteq byID, GoOn(r, to, i)
        PROVE  TypeInv'
    <3>1. sid' \in [Requests -> 0..MaxLogins]
      BY <2>1, <2>2, ConstantsAssumption DEF GoOn
    <3>2. /\ pc' \in [Requests -> Places]
          /\ \A q \in Requests : pc'[q] \in {"admitted", "insert"} => pc[q] = pc'[q]
      BY <2>1, <2>2 DEF GoOn, Places
    <3> QED
      BY <2>1, <2>2, <3>1, <3>2, TypeFewer DEF GoOn
  <2>3. ASSUME NEW r \in Requests, NotConfigured(r) \/ NoRandomID(r) PROVE TypeInv'
    <3>1. /\ pc' = [pc EXCEPT ![r] = "idle"]
          /\ UNCHANGED <<now, configured, limiter, byID, lastId, addr, sid, created>>
      BY <2>3 DEF NotConfigured, NoRandomID, store
    <3>2. /\ pc' \in [Requests -> Places]
          /\ \A q \in Requests : pc'[q] \in {"admitted", "insert"} => pc[q] = pc'[q]
      BY <2>1, <3>1 DEF Places
    <3> QED
      BY <2>1, <3>1, <3>2, TypeFewer
  <2>4. ASSUME NEW r \in Requests, HandleSessions(r) PROVE TypeInv'
    <3>1. sid[r] \in 0..MaxLogins /\ 0 \in 0..MaxLogins
      BY <2>1, ConstantsAssumption
    <3>2. PICK to \in {"gui", "delete", "idle"}, i \in 0..MaxLogins :
            byID' \subseteq byID /\ GoOn(r, to, i)
      <4>1. CASE CheckCSRF(r) \/ RequireGUISession(r)
        BY <3>1, <4>1 DEF CheckCSRF, RequireGUISession, Check, Get
      <4>2. CASE RevokeAllExcept(r) \/ RevokeOwn(r) \/ \E i \in Ids : Revoke(r, i)
        BY <3>1, <4>2 DEF RevokeAllExcept, RevokeOwn, Revoke, Drop
      <4> QED
        BY <2>4, <4>1, <4>2 DEF HandleSessions
    <3> QED
      BY <2>2, <3>2 DEF Places
  <2>5. ASSUME NEW r \in Requests, NEW i \in Ids, CheckAuth(r, i) \/ Logout(r, i)
        PROVE  TypeInv'
    <3>1. i \in 0..MaxLogins
      BY ConstantsAssumption DEF Ids
    <3>2. PICK to \in {"csrf", "logout", "idle"} : byID' \subseteq byID /\ GoOn(r, to, i)
      BY <2>5 DEF CheckAuth, Logout, Get
    <3> QED
      BY <2>2, <3>1, <3>2 DEF Places
  <2>6. CASE Reap \/ Tick \/ UNCHANGED vars
    <3>1. now' \in Times
      BY <2>1, <2>6, ConstantsAssumption DEF Reap, Tick, vars, Times
    <3>2. byID' \subseteq byID /\ UNCHANGED <<configured, limiter, lastId, addr, created, pc, sid>>
      BY <2>6 DEF Reap, Tick, vars, store, request
    <3> QED
      BY <2>1, <3>1, <3>2, TypeFewer
  <2> QED
    BY <2>3, <2>4, <2>5, <2>6, TypeAllow, TypeDecide, TypeNew, TypeInsert DEF Next, Login
<1> QED
  BY <1>1, <1>2, PTL DEF Spec

\* The store never holds more than maxSessions, and no two sessions of one id,
\* however many logins overlap between Create's steps (session.go, Create).
THEOREM StoreCorrect == Spec => []TypeOK
<1>1. TypeInv => TypeOK
  BY DEF TypeInv
<1> QED
  BY <1>1, TypeAlways, PTL

\* Failures that are noted after the lockout are those of requests admitted
\* before it, so that the record of an address stays below loginMaxAttempts plus
\* the requests in progress (login_limit.go, allow and fail).
THEOREM RecordBounded == Spec => []AttemptsBounded
<1>1. TypeInv => AttemptsBounded
  <2> SUFFICES ASSUME TypeInv, NEW a \in IPs
               PROVE  Len(attempts[a]) < MaxAttempts + Cardinality(Requests)
    BY DEF AttemptsBounded
  <2>1. Cardinality(Admitted(a)) \in Nat /\ Cardinality(Requests) \in Nat
    BY AdmittedProperties
  <2>2. Len(attempts[a]) \in Nat
    BY DEF TypeInv, TypeOK
  <2>3. Len(attempts[a]) + Cardinality(Admitted(a)) < MaxAttempts + Cardinality(Requests)
    BY DEF TypeInv, AttemptsInv
  <2> QED
    BY <2>1, <2>2, <2>3, ConstantsAssumption
<1> QED
  BY <1>1, TypeAlways, PTL

=============================================================================
