CONSTANTS
  Roster <- TwoWorkers
  Sequential = FALSE
  Fault = {"limit", "plan", "call"}
  MaxInterrupts = 3
SPECIFICATION Spec
INVARIANT TypeOK
INVARIANT PublishedMeansDone
INVARIANT ClaimsCoverUnknownEffects
INVARIANT EffectsForetold
INVARIANT SuccessMatchesWorld
INVARIANT CleanEndFreesClaims
INVARIANT OnlyRepeatedReleaseRefused
PROPERTY StoredGraphIsLegal
CHECK_DEADLOCK FALSE
