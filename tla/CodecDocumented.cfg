INIT CodecInit
NEXT CodecNext
CONSTANT Cases <- MCCases
CHECK_DEADLOCK FALSE
INVARIANT AsDocumented
