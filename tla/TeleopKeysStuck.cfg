SPECIFICATION KeysSpec
CONSTANTS
  Buttons = {a, b}
  ButtonA = a
  ButtonB = b
  InitKey = t
  OtherKeys = {x}
  PlayerKeys = {b, t, x}
  MaxClients = 1
  Commands <- MCCommands
  Seconds <- MCSeconds
  MaxRecords = 1
  APressGap = 0
  MaxOverrun = 1
  MaxClockBack = 0
INVARIANT
  NoKeyStuck
