SPECIFICATION BundleSpec
CONSTANTS
  Programs1 <- Bundles
  Value = 0
INVARIANTS CollectsTransitively
CHECK_DEADLOCK FALSE
