SPECIFICATION Spec
CONSTANTS
  Letters = {"a"}
  LineMax = 1
  Delay = 1
  Rate = 1
  QueueMax = 2
  NoKey = NoKey
  NoLine = NoLine
  NoReport = NoReport
CONSTRAINTS
  OneShiftOverUsb
  OneWhenMisled
CHECK_DEADLOCK FALSE
PROPERTIES ImplementsTyping RepeatEnds
