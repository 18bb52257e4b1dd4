SPECIFICATION MCSpec
CHECK_DEADLOCK FALSE
CONSTANTS
  Handles = {h1, h2, h3, h4}
  Loose = {h1, h2, h3}
  Objects = {o1, o2}
  NoObject = NoObject
  NoHandle = NoHandle
  MaxStrong = 5
  MaxWeak = 5
  DebugAssertions = TRUE
  Keys = {k1}
  NoKey = NoKey
INVARIANTS
  CountIsExact
  CanonicalIsTracked
PROPERTIES
  ImplementsSharedObject
  UnheldIsFreed
