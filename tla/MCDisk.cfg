SPECIFICATION MCSpec
CONSTANTS
  NumSectors = 3
  Values = {a, b}
  Counts = {1, 2}
  Faults = {"error", "hang"}
  AtaSectors = 3
  Machines = {"ahci", "ide", "none", "floating", "ahci_floating"}
  NoCall = NoCall
  NoAnswer = NoAnswer
  Failed = Failed
PROPERTIES ImplementsSectorStore NothingLandsAfterAFailure CallsReturn
