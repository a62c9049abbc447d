---------------------------- MODULE GuiSessions ----------------------------
(***************************************************************************)
(* The sessions of the web GUI: the store with its limit and its expiry    *)
(* (rflink/session.go), the limit on failed logins per address             *)
(* (rflink/login_limit.go), and the handlers that use both                 *)
(* (rflink/http_server.go).  Store and limiter have a mutex each, which a  *)
(* handler takes for one call at a time: between two calls of one request  *)
(* other requests, the reaper and the clock go on.                         *)
(***************************************************************************)
EXTENDS Integers, Sequences, FiniteSets, Subsequences

CONSTANTS
  Requests,      \* HTTP requests in progress at a time
  IPs,           \* client addresses
  MaxSessions,   \* maxSessions
  TTL,           \* sessionTTL
  MaxAttempts,   \* loginMaxAttempts
  Window,        \* loginWindow
  Lockout,       \* loginLockout
  MaxLogins,     \* bound on the sessions created
  MaxTime        \* bound on the clock

ASSUME ConstantsAssumption ==
  /\ MaxSessions \in Nat \ {0} /\ TTL \in Nat
  /\ MaxAttempts \in Nat \ {0} /\ Window \in Nat /\ Lockout \in Nat
  /\ MaxLogins \in Nat /\ MaxTime \in Nat \ {0}
  /\ IsFiniteSet(Requests)

VARIABLES
  now,         \* the clock
  configured,  \* HTTP_AUTH_TOKEN is set
  byID,        \* sessionStore.byID: the sessions
  lastId,      \* the last session id that was drawn
  attempts,    \* loginLimiter.attempts: times of failed logins, per address
  locked,      \* loginLimiter.locked: the end of the lockout, 0 for none
  pc,          \* where each request is
  addr,        \* the address a login comes from
  sid,         \* the session id of a request's cookie, 0 for none
  created      \* the session a login has made and not stored yet

limiter == <<attempts, locked>>
store == <<byID, lastId>>
request == <<pc, addr, sid, created>>
vars == <<now, configured, limiter, store, request>>

Ids == 1..MaxLogins
Times == 0..MaxTime
Sessions == [id : Ids, createdAt : Times]
NoSession == [id |-> 0, createdAt |-> 0]

Init ==
  /\ now = 1
  /\ configured \in BOOLEAN
  /\ byID = {} /\ lastId = 0
  /\ attempts = [a \in IPs |-> << >>] /\ locked = [a \in IPs |-> 0]
  /\ pc = [r \in Requests |-> "idle"]
  /\ addr \in [Requests -> IPs]
  /\ sid = [r \in Requests |-> 0]
  /\ created = [r \in Requests |-> NoSession]

-----------------------------------------------------------------------------
(* The limiter.  Each operator is one call, under its mutex. *)

\* Mutant: one attempt more.
ExhaustedLate(list) == Len(list) > MaxAttempts

Exhausted(list) == Len(list) >= MaxAttempts

LockedOut(a) == locked[a] # 0 /\ now < locked[a]

\* The failures within the window; none once a lockout is over.
Recent(a) ==
  LET list == attempts[a]
  IN IF locked[a] # 0 THEN << >>
     ELSE Kept(list, {i \in 1..Len(list) : list[i] > now - Window})

\* allow: a lockout that is over is forgotten, the window is pruned.
Allow(r) ==
  /\ pc[r] = "idle"
  /\ ~LockedOut(addr[r])
  /\ attempts' = [attempts EXCEPT ![addr[r]] = Recent(addr[r])]
  /\ IF Exhausted(Recent(addr[r]))
     THEN /\ locked' = [locked EXCEPT ![addr[r]] = now + Lockout]
          /\ UNCHANGED pc
     ELSE /\ locked' = [locked EXCEPT ![addr[r]] = 0]
          /\ pc' = [pc EXCEPT ![r] = "admitted"]
  /\ UNCHANGED <<now, configured, store, addr, sid, created>>

\* Without HTTP_AUTH_TOKEN nobody logs in.
NotConfigured(r) ==
  /\ pc[r] = "admitted"
  /\ ~configured
  /\ pc' = [pc EXCEPT ![r] = "idle"]
  /\ UNCHANGED <<now, configured, limiter, store, addr, sid, created>>

\* Mutant: the failure is noted, the lockout left to the next allow.
LoginFailOnly(r) ==
  /\ pc[r] = "admitted"
  /\ configured
  /\ attempts' = [attempts EXCEPT ![addr[r]] = Append(@, now)]
  /\ pc' = [pc EXCEPT ![r] = "idle"]
  /\ UNCHANGED <<now, configured, locked, store, addr, sid, created>>

\* fail: whatever other requests have noted meanwhile counts, too.
LoginFail(r) ==
  /\ pc[r] = "admitted"
  /\ configured
  /\ attempts' = [attempts EXCEPT ![addr[r]] = Append(@, now)]
  /\ locked' = IF Exhausted(attempts'[addr[r]])
               THEN [locked EXCEPT ![addr[r]] = now + Lockout] ELSE locked
  /\ pc' = [pc EXCEPT ![r] = "idle"]
  /\ UNCHANGED <<now, configured, store, addr, sid, created>>

\* success
LoginSuccess(r) ==
  /\ pc[r] = "admitted"
  /\ configured
  /\ attempts' = [attempts EXCEPT ![addr[r]] = << >>]
  /\ locked' = [locked EXCEPT ![addr[r]] = 0]
  /\ pc' = [pc EXCEPT ![r] = "create"]
  /\ UNCHANGED <<now, configured, store, addr, sid, created>>

-----------------------------------------------------------------------------
(* Create. *)

\* The time is taken before the store is locked.
NewSession(r) ==
  /\ pc[r] = "create"
  /\ lastId < MaxLogins
  /\ lastId' = lastId + 1
  /\ created' = [created EXCEPT ![r] = [id |-> lastId', createdAt |-> now]]
  /\ pc' = [pc EXCEPT ![r] = "insert"]
  /\ UNCHANGED <<now, configured, limiter, byID, addr, sid>>

\* No random bytes: the login fails, its limit forgiven.
NoRandomID(r) ==
  /\ pc[r] = "create"
  /\ pc' = [pc EXCEPT ![r] = "idle"]
  /\ UNCHANGED <<now, configured, limiter, store, addr, sid, created>>

\* Mutant: the limit is exceeded by one.
StoreFullLate == Cardinality(byID) > MaxSessions

StoreFull == Cardinality(byID) >= MaxSessions

\* Mutant: the newest goes.
OldestNewest(s) == \A o \in byID : o.createdAt <= s.createdAt

\* Of equally old ones, the first in the map's order.
Oldest(s) == \A o \in byID : s.createdAt <= o.createdAt

\* Under the mutex: evict the oldest when the store is full (it is never more
\* than full, so once), and store.
Insert(r) ==
  /\ pc[r] = "insert"
  /\ IF StoreFull
     THEN \E s \in byID : Oldest(s) /\ byID' = (byID \ {s}) \cup {created[r]}
     ELSE byID' = byID \cup {created[r]}
  /\ pc' = [pc EXCEPT ![r] = "idle"]
  /\ created' = [created EXCEPT ![r] = NoSession]
  /\ UNCHANGED <<now, configured, limiter, lastId, addr, sid>>

-----------------------------------------------------------------------------
(* The requests of a browser that has a session, or had one. *)

Live(s) == now <= s.createdAt + TTL

\* Get finds a live session and deletes an expired one.
Found(i) == \E s \in byID : s.id = i /\ Live(s)
Get(i) == byID' = {s \in byID : s.id = i => Live(s)}

\* A request with cookie i goes on, or is answered.
GoOn(r, to, i) ==
  /\ pc' = [pc EXCEPT ![r] = to]
  /\ sid' = [sid EXCEPT ![r] = IF to = "idle" THEN 0 ELSE i]
  /\ UNCHANGED <<now, configured, limiter, lastId, addr, created>>

Check(r, from, to) ==
  /\ pc[r] = from
  /\ Get(sid[r])
  /\ GoOn(r, to, sid[r])

\* A request under protect: the session, or an API token.
CheckAuth(r, i) ==
  /\ pc[r] = "idle"
  /\ Get(i)
  /\ GoOn(r, "csrf", i) \/ (~Found(i) /\ GoOn(r, "idle", i))

\* The double-submit token of a session, the scope of an API token.
CheckCSRF(r) == Check(r, "csrf", "gui") \/ Check(r, "csrf", "idle")

\* Sessions are listed and revoked by a GUI session only.
RequireGUISession(r) ==
  IF configured /\ Found(sid[r]) THEN Check(r, "gui", "delete") ELSE Check(r, "gui", "idle")

Drop(r, from, gone) ==
  /\ pc[r] = from
  /\ byID' = byID \ gone
  /\ GoOn(r, "idle", 0)

WithId(i) == {s \in byID : s.id = i}

\* DELETE /api/v1/sessions: one of them, or all but the request's own.
Revoke(r, i) == Drop(r, "delete", WithId(i))
RevokeAllExcept(r) == Drop(r, "delete", byID \ WithId(sid[r]))

\* DELETE /api/v1/session: the CSRF check looks at the session first.
Logout(r, i) ==
  /\ pc[r] = "idle"
  /\ Get(i)
  /\ GoOn(r, "logout", i) \/ (Found(i) /\ GoOn(r, "idle", i))

RevokeOwn(r) == Drop(r, "logout", WithId(sid[r]))

\* Mutant: the reaper finds nothing to do.
ReapNothing == FALSE

\* The reaper's ticker: every expired session goes.
Reap ==
  /\ \E s \in byID : ~Live(s)
  /\ byID' = {s \in byID : Live(s)}
  /\ UNCHANGED <<now, configured, limiter, lastId, request>>

Tick ==
  /\ now < MaxTime
  /\ now' = now + 1
  /\ UNCHANGED <<configured, limiter, store, request>>

Login(r) ==
  \/ NotConfigured(r) \/ LoginFail(r) \/ LoginSuccess(r)
  \/ NewSession(r) \/ NoRandomID(r) \/ Insert(r)

HandleSessions(r) ==
  \/ CheckCSRF(r) \/ RequireGUISession(r) \/ RevokeAllExcept(r) \/ RevokeOwn(r)
  \/ \E i \in Ids : Revoke(r, i)

Next ==
  \/ \E r \in Requests : Allow(r) \/ Login(r) \/ HandleSessions(r)
  \/ \E r \in Requests, i \in Ids : CheckAuth(r, i) \/ Logout(r, i)
  \/ Reap \/ Tick

\* The reaper's ticker fires again and again.
Spec == Init /\ [][Next]_vars /\ WF_vars(Reap)

-----------------------------------------------------------------------------
\* Every variable has its type; the store holds no more than maxSessions, and
\* no two sessions of one id, whatever logins overlap.
TypeOK ==
  /\ now \in Times /\ configured \in BOOLEAN
  /\ byID \subseteq Sessions /\ lastId \in 0..MaxLogins
  /\ \A s, o \in byID : s.id = o.id => s = o
  /\ Cardinality(byID) <= MaxSessions
  /\ attempts \in [IPs -> Seq(Times)]
  /\ locked \in [IPs -> 0..(MaxTime + Lockout)]
  /\ pc \in [Requests -> {"idle", "admitted", "create", "insert", "csrf", "gui", "delete",
                          "logout"}]
  /\ addr \in [Requests -> IPs] /\ sid \in [Requests -> 0..MaxLogins]
  /\ created \in [Requests -> Sessions \cup {NoSession}]

\* An address with as many failures as are allowed is locked out: fail has set
\* the lockout together with the last one, and no other request has taken away
\* one without the other.  (So the same test in allow never locks.)
FullIsLocked == \A a \in IPs : Exhausted(attempts[a]) => locked[a] # 0

\* Requests that were admitted before the lockout may fail after it, but no more
\* of them than were in progress: the failures on record stay below the limit
\* plus the number of requests.
AttemptsBounded ==
  \A a \in IPs : Len(attempts[a]) < MaxAttempts + Cardinality(Requests)

\* A login never evicts a live session while one that has expired stays, although
\* logins may be stored in another order than they took their time.
ExpiredEvictedFirst ==
  [][byID' \subseteq byID \/
       \A s \in byID \ byID' : Live(s) => \A o \in byID \cap byID' : Live(o)]_vars

\* An expired session leaves the store, without anybody asking for it.
ExpiredGo ==
  \A i \in Ids : (\E s \in byID : s.id = i /\ ~Live(s)) ~> WithId(i) = {}

=============================================================================
