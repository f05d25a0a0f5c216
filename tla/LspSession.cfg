SPECIFICATION Spec
CONSTANTS
  Kinds = {"python", "rust", "csharp", "java"}
  Files = {"f"}
  Tasks = {"p", "q"}
  Disk <- MCDisk
  Inserts <- MCInserts
  Wide = {"w"}
  Operations = {"definition", "completions"}
  MaxSessions = 2
  MaxVersion = 2
  MaxLength = 3
  MaxLost = 1
INVARIANTS
    BuffersAreRight
PROPERTIES
    StartReturns
CHECK_DEADLOCK FALSE
