CONSTANTS
  Entry = 100
  EntryIv = 20
  Premiums <- AllPremiums
  PaMinGain = 2
  Spots <- SpotRange
  Snapshots <- Levels
  Greeks <- Readings
  Votes <- VoteSets
SPECIFICATION FairSpec
CHECK_DEADLOCK FALSE
INVARIANTS
  ThesisHolds
  PeakRemembered
  MilestonesEarned
PROPERTIES
  GainProtected
  ClosedAtSessionEnd
