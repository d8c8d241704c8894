\* A plain delete of an object with a locked version.
CONSTANTS
  VersionIDs = {1}
  Hashes = {h1}
  NoHash = NoHash
  Requests = {r1}
  PeerTimes = {}
  LockStore = TRUE
  Deadlines = {2}
  LockHeaders <- NoHeaders
  MaxClock = 2
  MaxRefCount = 1
SPECIFICATION Spec
INVARIANT LockedBytesKept
