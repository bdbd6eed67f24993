SPECIFICATION FairSpec
CONSTANTS
  blk = blk
  nonblk = nonblk
  s1 = s1
  s2 = s2
  s3 = s3
  w1 = w1
  w2 = w2
  NoThread = NoThread
  Publishers = {blk, nonblk}
  Blocking = {blk}
  Subscribers = {s1, s2, s3}
  Words = {w1, w2}
  MaxSubs = 2
  MaxPublications = 3
INVARIANTS NoTornDelivery PendingIsUnread NothingLost
PROPERTIES ImplementsMailbox LockHeldBriefly LockReleased NonBlockingReturns
