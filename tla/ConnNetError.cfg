SPECIFICATION Spec
CONSTANTS
  Calls = {k1, k2}
  StreamIDs = {0, 1}
  NoCall = NoCall
CHECK_DEADLOCK FALSE
INVARIANT NetErrorCloses
