\* One version, two requests next to the retention and legal-hold calls, and
\* deadlines before, at and after the last tick.
CONSTANTS
  VersionIDs = {1}
  Hashes = {h1}
  NoHash = NoHash
  Requests = {r1, r2}
  PeerTimes = {}
  LockStore = TRUE
  Deadlines = {2, 3, 4}
  LockHeaders <- SomeHeaders
  MaxClock = 3
  MaxRefCount = 1
SPECIFICATION Spec
INVARIANT ComplianceUntilBare
