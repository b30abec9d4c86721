SPECIFICATION FairSpec
CONSTANTS
  MaxKbps = 50
  kAbrMinKbps = 40
  kAbrDownCooldown = 2
  kAbrGrowAfterClean = 3
  MaxGap = 2
INVARIANT RatesInRange
INVARIANT DecisionArrives
PROPERTY RaisesOnlyWhenClean
PROPERTY CreepsBackUp
