SPECIFICATION Spec
CONSTANTS
  Callers = {"task1", "task2"}
  Size <- MCSize
  Timeout = 1
  Wrap = 3
  MaxPos = 3
INVARIANT AtMostSize
