CONSTANTS
  Entry = 100
  EntryIv = 20
  Premiums <- AllPremiums
  PaMinGain = 2
  Spots <- SpotRange
  Snapshots <- Levels
  Greeks <- Readings
  Votes <- VoteSets
SPECIFICATION Spec
CHECK_DEADLOCK FALSE
INVARIANT
  SoldAtPremium
