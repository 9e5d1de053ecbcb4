SPECIFICATION Spec
CONSTANTS
  RamSize = 9
  MemSize = 21
  Beyond <- MCBeyond
  FullMax = 3
  StdRange = 4
  StdLoads <- MCStdLoads
  FullLoads <- MCFullLoads
  ExtLoads <- MCExtLoads
  StdGroups <- MCStdGroups
  ExtGroups <- MCExtGroups
  MaxEntries = 4
  MaxRemoved = 1
INVARIANTS TypeOK FillerKept RegistersFollow TableFits OnAfterSuccess
PROPERTIES LoadInserts RemoveDeletes
