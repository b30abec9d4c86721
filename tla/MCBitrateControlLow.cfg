SPECIFICATION Spec
CONSTANTS
  MaxKbps = 8
  kAbrMinKbps = 40
  kAbrDownCooldown = 2
  kAbrGrowAfterClean = 3
  MaxGap = 2
INVARIANT NeverAboveCeiling
