\* Every way to link three texts of every kind.  The texts may end, or a text
\* may stay for good: its successor waits for a trigger that never occurs.
CONSTANTS
  Ids <- ThreeTexts
  None = None
SPECIFICATION TextsSpec
INVARIANTS TextsTypeOK LabelShowsCurrent ChainShownOnce
CHECK_DEADLOCK FALSE
