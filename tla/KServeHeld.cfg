\* A credential plugin outlives the kubectl that is killed at the deadline.
SPECIFICATION FairSpec
CONSTANTS
  Pods = {0}
PROPERTIES
  EndsAfterTimeout
