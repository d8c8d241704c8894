\* Three versions, of this node and of peers whose clocks differ.
CONSTANTS
  VersionIDs = {1, 2, 3}
  Hashes = {h1}
  NoHash = NoHash
  Requests = {r1}
  PeerTimes = {0, 1, 2}
  LockStore = FALSE
  Deadlines = {}
  LockHeaders <- NoHeaders
  MaxClock = 2
  MaxRefCount = 2
SPECIFICATION Spec
INVARIANT OneLatest
INVARIANT LatestIsNewest
