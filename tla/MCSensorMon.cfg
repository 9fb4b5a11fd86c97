\* Two thresholds; readings from below the hysteresis of the lower to the upper.
SPECIFICATION FairSpec
CONSTANTS
  Top = 2
  Threshold <- MCThreshold
  Hyst = 1
  Flag = {1, 2}
  TempMax = 3
INVARIANTS Nested
PROPERTIES Debounced WipedOnRequest FollowsSensor HealthTold ClearHeeded
