SPECIFICATION MCSpec
CONSTANTS
  NumSectors = 3
  Values = {a, b}
  Counts = {1, 2}
  Faults = {}
  AtaSectors = 2
  Machines = {"ide"}
  NoCall = NoCall
  NoAnswer = NoAnswer
  Failed = Failed
PROPERTY ImplementsSectorStore
