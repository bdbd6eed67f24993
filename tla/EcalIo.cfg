SPECIFICATION FairSpec
CONSTANTS
  MaxEpoch = 2
  MaxTick = 3
INVARIANT StatsExact
PROPERTIES CommitsInOrder Reconnects NewTickTaken
