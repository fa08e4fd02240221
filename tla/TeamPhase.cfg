CONSTANTS
  Monitor = {m1, m2}
  MaxFix = 1
  PromptMode = TRUE
  MaxCrashes = 1
SPECIFICATION FairSpec
INVARIANT Sound
PROPERTIES
  CompleteIsEarned
  Converges
