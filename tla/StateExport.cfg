SPECIFICATION Spec
CONSTANTS
  MapsFiles <- MCMapsFiles
  MaxEmulators = 2
  NAllies = 2
  NEnemies = 2
  NElements = 2
  Monsters <- MCMonsters
  UINT32 = 65536
  WEAKNESS_START = 9999
CHECK_DEADLOCK FALSE
INVARIANTS
  StateTypeOK
  FoundIsWram
  RecordFieldsFit
  EndRecordShowsAllDown
  TrapsOnImmunity
