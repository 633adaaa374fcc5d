SPECIFICATION FairSpec
CONSTANTS
  Names <- ThreeNames
  Operations <- EachKind
INVARIANTS TypeOK TakenFromPage TakenWhenReached EventNotMissed
PROPERTY OperationEnds
CHECK_DEADLOCK FALSE
