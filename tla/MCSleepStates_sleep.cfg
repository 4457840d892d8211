\* Two rounds of sleep; types for both control registers.
CONSTANTS
  Gpes = {g1}
  AmlGpes = {g2}
  States = {3, 4}
  Types <- TwoTypes
  MaxPolls = 2
  HostMay = {}
  MaxSleeps = 2
  MaxArmed = 2
SPECIFICATION FairSpec
INVARIANTS AsleepAsAsked RuntimeRestored
PROPERTY ModeReturns
CHECK_DEADLOCK FALSE
