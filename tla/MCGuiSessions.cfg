CONSTANTS
  Requests = {r1, r2}
  IPs = {home}
  MaxSessions = 2
  TTL = 1
  MaxAttempts = 2
  Window = 2
  Lockout = 2
  MaxLogins = 3
  MaxTime = 4
SPECIFICATION Spec
INVARIANTS TypeOK FullIsLocked AttemptsBounded
PROPERTIES ExpiredEvictedFirst ExpiredGo
