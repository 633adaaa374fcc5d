SPECIFICATION Spec
CONSTANTS
  Names <- ThreeNames
  Operations <- Screenshots
INVARIANT WaitUntilReached
CHECK_DEADLOCK FALSE
