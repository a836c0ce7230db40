SPECIFICATION Spec
CONSTANTS
  Formats = {jpg, webp, avif}
  None = None
PROPERTY Returns
CHECK_DEADLOCK FALSE
