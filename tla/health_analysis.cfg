SPECIFICATION Spec
CONSTANTS
  NaN = NaN
  BadValue = BadValue
  BadTime = BadTime
  NoValue = NoValue
  NotInt = NotInt
  IntOf <- MCIntOf
  Setups <- MCSetups
  Replies <- MCReplies
  Chunks <- MCChunks
INVARIANTS
  HealthyMeansMeasured
  GreenMeansAllMeasured
  EveryBreachIsServed
