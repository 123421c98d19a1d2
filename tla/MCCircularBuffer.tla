-------------------------- MODULE MCCircularBuffer --------------------------
EXTENDS CircularBuffer

CONSTANT MaxLog     \* how many items are inserted

Bounded == Len(log) <= MaxLog
=============================================================================
