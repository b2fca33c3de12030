SPECIFICATION BattleSpec
CONSTANTS
  Buttons = {a, b}
  ButtonA = a
  ButtonB = b
  PressA <- MCPressA
  AskBattle <- MCAskBattle
  Commands <- MCCommands
  Seconds <- MCSeconds
  AskPhases = {"intro", "premenu", "command"}
  PhaseLoops = 2
  MaxLag = 6
  MaxBattles = 2
  MaxMishaps = 1
  MaxRecords = 2
  APressGap = 6
  MaxOverrun = 1
  MaxClockBack = 2
INVARIANTS
  BattleTypeOK
  EndMeansEnemiesDown
  OneBattlePerLog
  NoUnaskedCommand
PROPERTIES
  VictoryEndsRecording
  AutomationReachesCommands
  PlayerIsAsked
