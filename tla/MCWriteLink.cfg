SPECIFICATION Spec
CONSTANTS
  MaxWrites = 6
  MaxInFlight = 4
INVARIANT ConsecutiveApplied
PROPERTY AppliedOnceInOrder
\* Everything may have been sent and handled or lost.
CHECK_DEADLOCK FALSE
