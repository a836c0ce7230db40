SPECIFICATION Spec
CONSTANTS
  Formats = {jpg, webp, avif}
  None = None
INVARIANTS TypeOK NamedAfterAll DistinctRunsComplete
PROPERTY ReturnsUnlessFailed
CHECK_DEADLOCK FALSE
