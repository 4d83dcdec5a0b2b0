CONSTANTS
  plain = plain
  odd = odd
  nan = nan
  bad = bad
  Requests = {r1, r2}
  Lines = {plain, odd, nan, bad}
  Objects = {plain, odd, nan}
  Bodies <- SomeBodies
  NotNumbers = {nan}
  Odd = {odd}
  Limit = 1
  PageLimit = 2
  Pages = {p1}
  MaxConnections = 2
CHECK_DEADLOCK FALSE
SPECIFICATION Spec
INVARIANTS
  StoredIsABeginning
  SnapshotsCoverTheAnswered
  MessagesFollowThePosts
  NothingMissedAfterALoad
PROPERTIES
  AcceptedPostsReachThePages
  ClosedConnectionsLeave
