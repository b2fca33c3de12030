------------------------- MODULE TeleopServerProofs -------------------------
(* Proofs about TeleopServer for every set of keys, commands and seconds and *)
(* every bound: its type invariant, the agreement of the state machine with  *)
(* the log files, the pairing of the records, and the implementation of      *)
(* BattleRecording.                                                          *)
EXTENDS TeleopServer, TLAPS

\* While an iteration has yet to pass the block that records commands, the
\* command it carries still fits under the bound on records.
RecordFits ==
    \/ pc \in {"units", "menu_active", "menu_l0"}
    \/ pc = "block" /\ state <= STATE_BATTLE_CMD
    => (teleop_command.anything # 0 => log.state < MaxRecords)

\* Where the state machine can be outside of the if-chain.
StateAtRest ==
    /\ state = STATE_BATTLE_END => pc = "block"
    /\ pc = "down" => state = STATE_PASSTHRU

IInv == TypeOK /\ RecordFits /\ StateAtRest /\ LogsFollowState /\ PairsWhole

USE DEF STATE_PASSTHRU, STATE_BATTLE_INIT, STATE_BATTLE_CMD, STATE_BATTLE_WATCH,
        STATE_BATTLE_END

----------------------------------------------------------------------------
\* The two constant structs of the server have their types.
LEMMA ConstantsTyped ==
    /\ NoCommand \in TeleopCommand
    /\ NoCommand.anything = 0
    /\ Unread \in Obs
BY DEF NoCommand, TeleopCommand, Unread, Obs, L0_ACTIVE

\* The initial state satisfies the invariant.
LEMMA InitInv == Init => IInv
<1> SUFFICES ASSUME Init PROVE IInv
  OBVIOUS
<1> USE DEF Init, ServerStart
<1>1. LogTypeOK /\ LogsFollowState /\ PairsWhole
  BY SecondsAssumption, MaxRecordsAssumption
     DEF LogInit, NoLog, Empty, Fates, LogTypeOK, LogsFollowState, PairsWhole
<1>2. KeyTypeOK
  BY DEF KeyInit, KeyTypeOK
<1>3. TypeOK
  BY <1>1, <1>2, ServerAssumption, ConstantsTyped DEF TypeOK
<1>4. RecordFits /\ StateAtRest
  BY DEF RecordFits, StateAtRest
<1> QED
  BY <1>1, <1>3, <1>4 DEF IInv

\* Leaving a block for state s keeps the types of what it assigns, falls
\* through only to a later block and otherwise drops the command.
LEMMA LeaveEffect ==
    ASSUME TypeOK, NEW s \in STATE_PASSTHRU..STATE_BATTLE_END, Leave(s)
    PROVE  /\ state' = s
           /\ pc' \in {"block", "joystick"}
           /\ pc' = "block" => s > state /\ teleop_command' = teleop_command
           /\ pc' = "joystick" => s <= state
           /\ teleop_command' \in TeleopCommand
           /\ obs' \in Obs
BY ConstantsTyped DEF Leave, TypeOK

\* The keyboard operations keep its type.
LEMMA KeysTyped ==
    ASSUME KeyTypeOK,
           \/ UNCHANGED keyVars
           \/ \E b \in Buttons : KeyTap(b)
           \/ \E f : Passthru(f)
           \/ EmulatorFrame
    PROVE  KeyTypeOK'
BY DEF KeyTypeOK, keyVars, KeyTap, Passthru, EmulatorFrame

\* Each operation on the log files, where the server performs it, keeps the
\* types of the files, their agreement with the state the server moves to, and
\* the pairing of the records.
LEMMA LogStep ==
    ASSUME TypeOK, state' \in Nat, LogsFollowState, PairsWhole,
           \/ /\ UNCHANGED logVars
              /\ state' = STATE_PASSTHRU <=> state = STATE_PASSTHRU
           \/ /\ state = STATE_PASSTHRU
              /\ state' # STATE_PASSTHRU
              /\ LogfileInit(second)
           \/ /\ state # STATE_PASSTHRU
              /\ state' # STATE_PASSTHRU
              /\ log.state < MaxRecords
              /\ WritePair
           \/ /\ state # STATE_PASSTHRU
              /\ state' = STATE_PASSTHRU
              /\ WriteAndClose
           \/ /\ state # STATE_PASSTHRU
              /\ state' = STATE_PASSTHRU
              /\ WriteAndCloseState
           \/ state' = STATE_PASSTHRU /\ LogLost(0)
           \/ /\ state # STATE_PASSTHRU
              /\ state' = STATE_PASSTHRU
              /\ LogLost(1)
    PROVE  LogTypeOK' /\ LogsFollowState' /\ PairsWhole'
<1> USE MaxRecordsAssumption, SecondsAssumption, ServerAssumption
<1> USE DEF TypeOK, LogTypeOK, LogsFollowState, PairsWhole, Fates
<1>1. CASE UNCHANGED logVars /\ (state' = STATE_PASSTHRU <=> state = STATE_PASSTHRU)
  BY <1>1 DEF logVars
<1>2. CASE state = STATE_PASSTHRU /\ state' # STATE_PASSTHRU /\ LogfileInit(second)
  BY <1>2 DEF LogfileInit, Empty
<1>3. CASE /\ state # STATE_PASSTHRU
           /\ state' # STATE_PASSTHRU
           /\ log.state < MaxRecords
           /\ WritePair
  BY <1>3 DEF WritePair
<1>4. CASE state # STATE_PASSTHRU /\ state' = STATE_PASSTHRU /\ WriteAndClose
  BY <1>4 DEF WriteAndClose, NoLog
<1>5. CASE state # STATE_PASSTHRU /\ state' = STATE_PASSTHRU /\ WriteAndCloseState
  BY <1>5 DEF WriteAndCloseState, Torn, NoLog
<1>6. CASE state' = STATE_PASSTHRU /\ (LogLost(0) \/ LogLost(1))
  <2>1. CASE log.open
    <3>1. PICK s \in 0..(log.state + 1), a \in 0..(log.action + 1) : disk' = Torn(s, a)
      BY <1>6, <2>1 DEF LogLost
    <3>2. log' = NoLog
      BY <1>6 DEF LogLost
    <3> QED
      BY <1>6, <2>1, <3>1, <3>2 DEF Torn, NoLog
  <2>2. CASE ~log.open
    <3>1. log' = NoLog /\ UNCHANGED disk
      BY <1>6, <2>2 DEF LogLost
    <3> QED
      BY <1>6, <2>2, <3>1 DEF NoLog
  <2> QED
    BY <2>1, <2>2
<1> QED
  BY <1>1, <1>2, <1>3, <1>4, <1>5, <1>6

----------------------------------------------------------------------------
\* A command of any kind, received after any delay, preserves the invariant.
LEMMA JoystickInv ==
    ASSUME IInv, NEW m \in TeleopCommand, NEW d \in (1 - MaxClockBack)..MaxOverrun,
           Joystick(m, d)
    PROVE  IInv'
<1> USE ServerAssumption DEF IInv, Joystick
<1>1. UNCHANGED <<state, second, logVars, keyVars>>
  BY DEF logVars, keyVars
<1>2. LogTypeOK' /\ LogsFollowState' /\ PairsWhole'
  BY <1>1, LogStep DEF TypeOK
<1>3. KeyTypeOK'
  BY <1>1, KeysTyped DEF TypeOK
<1>4. since' \in (-MaxClockBack)..(APressGap + 1)
  BY DEF TypeOK
<1>5. TypeOK'
  BY <1>1, <1>2, <1>3, <1>4 DEF TypeOK
<1>6. RecordFits' /\ StateAtRest'
  BY DEF RecordFits, StateAtRest, logVars
<1> QED
  BY <1>2, <1>5, <1>6

\* A read of the game preserves the invariant, whatever it returns.
LEMMA ReadInv ==
    ASSUME IInv,
           NEW health \in 0..1, NEW active \in 0..2,
           NEW l0 \in {L0_ACTIVE, L0_PRE_MENU, L0_WATCHING, L0_OTHER},
           ReadUnits(health) \/ ReadMenuActive(active) \/ ReadMenuL0(l0)
    PROVE  IInv'
<1> USE ServerAssumption DEF IInv
<1>1. /\ pc \in {"units", "menu_active", "menu_l0"}
      /\ pc' \in {"menu_active", "menu_l0", "block"}
      /\ UNCHANGED <<state, teleop_command, since, second, logVars, keyVars>>
  BY DEF ReadUnits, ReadMenuActive, ReadMenuL0, logVars, keyVars
<1>2. LogTypeOK' /\ LogsFollowState' /\ PairsWhole'
  BY <1>1, LogStep DEF TypeOK
<1>3. KeyTypeOK'
  BY <1>1, KeysTyped DEF TypeOK
<1>4. obs' \in Obs
  BY DEF ReadUnits, ReadMenuActive, ReadMenuL0, TypeOK, Obs
<1>5. TypeOK'
  BY <1>1, <1>2, <1>3, <1>4 DEF TypeOK
<1>6. RecordFits'
  BY <1>1 DEF RecordFits, logVars
<1>7. StateAtRest'
  BY <1>1 DEF StateAtRest
<1> QED
  BY <1>2, <1>5, <1>6, <1>7

\* What the top of the loop does preserves the invariant.
LEMMA SampleInv == IInv /\ Sample => IInv'
<1> SUFFICES ASSUME IInv, Sample PROVE IInv'
  OBVIOUS
<1>1. ASSUME NEW m \in Commands \cup {NoCommand},
             NEW d \in (1 - MaxClockBack)..MaxOverrun, Joystick(m, d)
      PROVE  IInv'
  <2>1. m \in TeleopCommand
    BY ServerAssumption, ConstantsTyped
  <2> QED
    BY <1>1, <2>1, JoystickInv
<1>2. 0 \in 0..1 /\ 0 \in 0..2 /\ L0_ACTIVE \in {L0_ACTIVE, L0_PRE_MENU, L0_WATCHING, L0_OTHER}
  OBVIOUS
<1>3. ASSUME NEW health \in 0..1, ReadUnits(health) PROVE IInv'
  BY <1>2, <1>3, ReadInv
<1>4. ASSUME NEW byte \in 0..2, ReadMenuActive(byte) PROVE IInv'
  BY <1>2, <1>4, ReadInv
<1>5. ASSUME NEW byte \in {L0_ACTIVE, L0_PRE_MENU, L0_WATCHING, L0_OTHER}, ReadMenuL0(byte)
      PROVE  IInv'
  BY <1>2, <1>5, ReadInv
<1> QED
  BY <1>1, <1>3, <1>4, <1>5 DEF Sample

\* Each block of the if-chain preserves the invariant.
LEMMA BlocksInv == IInv /\ Blocks => IInv'
<1> SUFFICES ASSUME IInv, Blocks PROVE IInv'
  OBVIOUS
<1> USE ServerAssumption DEF IInv, AtBlock
<1>1. CASE StatePassthru
  <2> USE DEF StatePassthru
  <2>1. KeyTypeOK'
    BY <1>1, KeysTyped DEF TypeOK
  <2>2. CASE teleop_command.battle_init = 1
    <3>1. LogfileInit(second) /\ Leave(STATE_BATTLE_INIT)
      BY <1>1, <2>2
    <3>2. /\ state' = STATE_BATTLE_INIT
          /\ pc' = "block"
          /\ teleop_command' \in TeleopCommand
          /\ teleop_command' = teleop_command
          /\ obs' \in Obs
      BY <1>1, <3>1, LeaveEffect DEF Leave
    <3>3. LogTypeOK' /\ LogsFollowState' /\ PairsWhole'
      BY <1>1, <3>1, <3>2, LogStep
    <3>4. TypeOK'
      BY <1>1, <2>1, <3>2, <3>3 DEF TypeOK
    <3>5. RecordFits'
      <4>1. log'.state = 0
        BY <3>1 DEF LogfileInit
      <4>2. log.state \in Nat
        BY MaxRecordsAssumption DEF TypeOK, LogTypeOK
      <4> QED
        BY <1>1, <3>2, <4>1, <4>2, MaxRecordsAssumption DEF RecordFits
    <3>6. StateAtRest'
      BY <3>2 DEF StateAtRest
    <3> QED
      BY <3>3, <3>4, <3>5, <3>6
  <2>3. CASE teleop_command.battle_init # 1
    <3>1. UNCHANGED logVars /\ Leave(STATE_PASSTHRU)
      BY <1>1, <2>3
    <3>2. /\ state' = STATE_PASSTHRU
          /\ pc' = "joystick"
          /\ teleop_command' \in TeleopCommand
          /\ obs' \in Obs
      BY <1>1, <3>1, LeaveEffect DEF Leave
    <3>3. LogTypeOK' /\ LogsFollowState' /\ PairsWhole'
      BY <1>1, <3>1, <3>2, LogStep
    <3>4. TypeOK'
      BY <1>1, <2>1, <3>2, <3>3 DEF TypeOK
    <3>5. RecordFits' /\ StateAtRest'
      BY <3>2 DEF RecordFits, StateAtRest
    <3> QED
      BY <3>3, <3>4, <3>5
  <2> QED
    BY <2>2, <2>3
<1>2. CASE StateBattleInit
  <2> USE DEF StateBattleInit
  <2>1. PICK s \in {STATE_BATTLE_INIT, STATE_BATTLE_CMD} : Leave(s)
    BY <1>2
  <2>2. /\ state' = s
        /\ pc' \in {"block", "joystick"}
        /\ teleop_command' \in TeleopCommand
        /\ pc' = "block" => teleop_command' = teleop_command
        /\ obs' \in Obs
    BY <2>1, LeaveEffect
  <2>3. KeyTypeOK' /\ since' \in (-MaxClockBack)..(APressGap + 1)
    BY <1>2, KeysTyped DEF InitTap, TypeOK
  <2>4. LogTypeOK' /\ LogsFollowState' /\ PairsWhole'
    BY <1>2, <2>2, LogStep
  <2>5. TypeOK'
    BY <1>2, <2>2, <2>3, <2>4 DEF TypeOK
  <2>6. RecordFits' /\ StateAtRest'
    BY <1>2, <2>2 DEF RecordFits, StateAtRest, logVars
  <2> QED
    BY <2>4, <2>5, <2>6
<1>3. CASE StateBattleCmd
  <2> USE DEF StateBattleCmd
  <2>1. PICK s \in {STATE_BATTLE_CMD, STATE_BATTLE_WATCH} : Leave(s)
    BY <1>3
  <2>2. /\ state' = s
        /\ pc' \in {"block", "joystick"}
        /\ pc' = "block" => s > STATE_BATTLE_CMD
        /\ teleop_command' \in TeleopCommand
        /\ obs' \in Obs
    BY <1>3, <2>1, LeaveEffect
  <2>3. KeyTypeOK'
    BY <1>3, KeysTyped DEF TypeOK
  <2>4. LogTypeOK' /\ LogsFollowState' /\ PairsWhole'
    <3>1. CASE teleop_command.anything # 0
      <4>1. WritePair /\ log.state < MaxRecords
        BY <1>3, <3>1 DEF RecordFits
      <4> QED
        BY <1>3, <2>2, <4>1, LogStep
    <3>2. CASE teleop_command.anything = 0
      BY <1>3, <2>2, <3>2, LogStep
    <3> QED
      BY <3>1, <3>2
  <2>5. TypeOK'
    BY <1>3, <2>2, <2>3, <2>4 DEF TypeOK
  <2>6. RecordFits' /\ StateAtRest'
    BY <1>3, <2>2 DEF RecordFits, StateAtRest
  <2> QED
    BY <2>4, <2>5, <2>6
<1>4. CASE StateBattleWatch
  <2> USE DEF StateBattleWatch
  <2>1. PICK s \in {STATE_BATTLE_INIT, STATE_BATTLE_WATCH, STATE_BATTLE_END} : Leave(s)
    BY <1>4
  <2>2. /\ state' = s
        /\ pc' \in {"block", "joystick"}
        /\ pc' = "block" => s > STATE_BATTLE_WATCH
        /\ pc' = "joystick" => s <= STATE_BATTLE_WATCH
        /\ teleop_command' \in TeleopCommand
        /\ obs' \in Obs
    BY <1>4, <2>1, LeaveEffect
  <2>3. KeyTypeOK'
    BY <1>4, KeysTyped DEF TypeOK
  <2>4. LogTypeOK' /\ LogsFollowState' /\ PairsWhole'
    BY <1>4, <2>2, LogStep
  <2>5. TypeOK'
    BY <1>4, <2>2, <2>3, <2>4 DEF TypeOK
  <2>6. RecordFits' /\ StateAtRest'
    BY <1>4, <2>2 DEF RecordFits, StateAtRest
  <2> QED
    BY <2>4, <2>5, <2>6
<1>5. CASE StateBattleEnd
  <2> USE DEF StateBattleEnd
  <2>1. /\ state' = STATE_PASSTHRU
        /\ pc' = "joystick"
        /\ teleop_command' \in TeleopCommand
        /\ obs' \in Obs
    BY <1>5, LeaveEffect DEF Leave
  <2>2. KeyTypeOK'
    BY <1>5, KeysTyped DEF TypeOK
  <2>3. LogTypeOK' /\ LogsFollowState' /\ PairsWhole'
    BY <1>5, <2>1, LogStep
  <2>4. TypeOK'
    BY <1>5, <2>1, <2>2, <2>3 DEF TypeOK
  <2>5. RecordFits' /\ StateAtRest'
    BY <2>1 DEF RecordFits, StateAtRest
  <2> QED
    BY <2>3, <2>4, <2>5
<1> QED
  BY <1>1, <1>2, <1>3, <1>4, <1>5 DEF Blocks

\* Failures, the restart, the clock, the emulator and stuttering preserve the
\* invariant.
LEMMA WorldInv ==
    IInv /\ (Failures \/ Restart \/ Tick \/ Frame \/ UNCHANGED vars) => IInv'
<1> SUFFICES ASSUME IInv, Failures \/ Restart \/ Tick \/ Frame \/ UNCHANGED vars
             PROVE  IInv'
  OBVIOUS
<1> USE ServerAssumption, ConstantsTyped DEF IInv
<1>1. CASE Failures
  <2>1. Down /\ UNCHANGED <<second, keyVars>>
    BY <1>1 DEF Failures, Crash, CloseStateFails, CloseActionFails
  <2>2. LogTypeOK' /\ LogsFollowState' /\ PairsWhole'
    <3>1. CASE Crash
      BY <2>1, <3>1, LogStep DEF Crash, Writing, Down, AtBlock
    <3>2. CASE CloseStateFails
      BY <2>1, <3>2, LogStep DEF CloseStateFails, Down, AtBlock
    <3>3. CASE CloseActionFails
      BY <2>1, <3>3, LogStep DEF CloseActionFails, Down, AtBlock
    <3> QED
      BY <1>1, <3>1, <3>2, <3>3 DEF Failures
  <2>3. TypeOK'
    BY <2>1, <2>2, KeysTyped DEF TypeOK, Down
  <2>4. RecordFits' /\ StateAtRest'
    BY <2>1 DEF RecordFits, StateAtRest, Down
  <2> QED
    BY <2>2, <2>3, <2>4
<1>2. CASE Restart \/ Tick \/ Frame \/ UNCHANGED vars
  <2>1. /\ UNCHANGED <<state, teleop_command, obs, since, logVars>>
        /\ second' \in Seconds
        /\ UNCHANGED keyVars \/ EmulatorFrame
        /\ UNCHANGED pc \/ (pc = "down" /\ pc' = "joystick")
    BY <1>2 DEF Restart, Tick, Frame, vars, serverVars, TypeOK
  <2>2. LogTypeOK' /\ LogsFollowState' /\ PairsWhole'
    BY <2>1, LogStep DEF TypeOK
  <2>3. TypeOK'
    BY <2>1, <2>2, KeysTyped DEF TypeOK
  <2>4. RecordFits' /\ StateAtRest'
    BY <2>1 DEF RecordFits, StateAtRest, logVars
  <2> QED
    BY <2>2, <2>3, <2>4
<1> QED
  BY <1>1, <1>2

----------------------------------------------------------------------------
\* IInv is an invariant of the server.
THEOREM Invariance == Spec => []IInv
<1>1. IInv /\ [Next]_vars => IInv'
  BY SampleInv, BlocksInv, WorldInv DEF Next
<1> QED
  BY InitInv, <1>1, PTL DEF Spec

\* Every variable of the server, its log files and its keyboard keeps its type.
THEOREM TypeCorrect == Spec => []TypeOK
<1>1. IInv => TypeOK
  BY DEF IInv
<1> QED
  BY Invariance, <1>1, PTL

\* The pair of log files of the current battle, and no other, is open in every
\* state of the machine but passthrough.
THEOREM LogsFollowStateCorrect == Spec => []LogsFollowState
<1>1. IInv => LogsFollowState
  BY DEF IInv
<1> QED
  BY Invariance, <1>1, PTL

\* The two files of a recording hold equally many records unless it is torn, also
\* after failures of other recordings.
THEOREM PairsWholeCorrect == Spec => []PairsWhole
<1>1. IInv => PairsWhole
  BY DEF IInv
<1> QED
  BY Invariance, <1>1, PTL

\* The automation never presses a key that it does not release itself.
THEOREM AutomationHoldsNoKeyCorrect == Spec => AutomationHoldsNoKey
<1> DEFINE Quiet == keysDown' \subseteq keysDown
                      \/ AtBlock(STATE_PASSTHRU) \/ AtBlock(STATE_BATTLE_CMD)
<1>1. [Next]_vars => [Quiet]_vars
  <2> SUFFICES ASSUME Next PROVE Quiet
    OBVIOUS
  <2>1. CASE Sample
    BY <2>1 DEF Sample, Joystick, ReadUnits, ReadMenuActive, ReadMenuL0, keyVars
  <2>2. CASE Blocks
    BY <2>2 DEF Blocks, StatePassthru, StateBattleInit, StateBattleCmd,
                StateBattleWatch, StateBattleEnd, InitTap, KeyTap, keyVars
  <2>3. CASE Failures \/ Restart \/ Tick \/ Frame
    BY <2>3 DEF Failures, Crash, CloseStateFails, CloseActionFails, Restart, Tick, Frame,
                EmulatorFrame, keyVars
  <2> QED
    BY <2>1, <2>2, <2>3 DEF Next
<1> QED
  BY <1>1, PTL DEF Spec, AutomationHoldsNoKey

----------------------------------------------------------------------------
(* BattleRecording is implemented: what a step does to the files is nothing, *)
(* or one of its four operations on the recording of one second.             *)

\* Under the invariant a recording is the disk's entry, but for the number of
\* pairs in the one that is being made and in torn ones.
LEMMA RecordedEntries ==
    ASSUME IInv
    PROVE  Recorded = [s \in Seconds |->
                        [fate |-> disk[s].fate,
                         pairs |-> IF disk[s].fate = "open" THEN log.state
                                   ELSE IF disk[s].fate = "torn" THEN Matched(disk[s])
                                   ELSE disk[s].state]]
BY DEF IInv, LogsFollowState, PairsWhole, Recorded, Pairs

\* The operations on the files that a step of the server can perform.
LEMMA LogOperation ==
    ASSUME IInv, [Next]_vars
    PROVE  \/ UNCHANGED disk /\ (UNCHANGED log \/ (~log.open /\ ~log'.open))
           \/ ~log.open /\ second \in Seconds /\ LogfileInit(second)
           \/ log.open /\ (WritePair \/ WriteAndClose)
           \/ /\ log.open
              /\ log' = NoLog
              /\ \E s \in 0..(log.state + 1), a \in 0..(log.action + 1) : disk' = Torn(s, a)
<1> USE DEF IInv
<1>1. CASE Sample
  BY <1>1 DEF Sample, Joystick, ReadUnits, ReadMenuActive, ReadMenuL0, logVars
<1>2. CASE Blocks
  BY <1>2 DEF Blocks, StatePassthru, StateBattleInit, StateBattleCmd,
              StateBattleWatch, StateBattleEnd, AtBlock, LogsFollowState, TypeOK, logVars
<1>3. log.state \in Nat /\ log.action \in Nat
  BY MaxRecordsAssumption DEF TypeOK, LogTypeOK
<1>4. CASE Failures
  <2>1. CASE Crash
    <3>1. LogLost(0) \/ LogLost(1)
      BY <2>1 DEF Crash
    <3>2. 0..(log.state + 0) \subseteq 0..(log.state + 1)
          /\ 0..(log.action + 0) \subseteq 0..(log.action + 1)
      BY <1>3
    <3> QED
      BY <3>1, <3>2 DEF LogLost, NoLog
  <2>2. CASE CloseStateFails
    <3>1. log.open /\ log.state + 1 \in 0..(log.state + 1)
      BY <1>3, <2>2 DEF CloseStateFails, AtBlock, LogsFollowState
    <3> QED
      BY <2>2, <3>1 DEF CloseStateFails, WriteAndCloseState
  <2>3. CASE CloseActionFails
    BY <2>3 DEF CloseActionFails, AtBlock, LogsFollowState
  <2> QED
    BY <1>4, <2>1, <2>2, <2>3 DEF Failures
<1>5. CASE Restart \/ Tick \/ Frame \/ UNCHANGED vars
  BY <1>5 DEF Restart, Tick, Frame, vars, logVars
<1> QED
  BY <1>1, <1>2, <1>4, <1>5 DEF Next

\* Every step of the server is a step of BattleRecording or leaves the
\* recordings as they are.
LEMMA RecordingStep ==
    ASSUME IInv, IInv', [Next]_vars
    PROVE  [Recording!Next]_Recorded
<1> DEFINE Entry(s) == [fate |-> disk[s].fate,
                        pairs |-> IF disk[s].fate = "open" THEN log.state
                                  ELSE IF disk[s].fate = "torn" THEN Matched(disk[s])
                                  ELSE disk[s].state]
<1>1. Recorded = [s \in Seconds |-> Entry(s)]
  BY RecordedEntries
<1>2. Recorded' = [s \in Seconds |-> Entry(s)']
  <2>1. ASSUME IInv' PROVE Recorded' = [s \in Seconds |-> Entry(s)']
    BY <2>1 DEF IInv, LogsFollowState, PairsWhole, Recorded, Pairs
  <2> QED
    BY <2>1
<1>3. \A s \in Seconds : disk[s].fate = "open" <=> log.open /\ log.name = s
  BY DEF IInv, LogsFollowState
<1>4. /\ disk \in [Seconds -> [fate : Fates, state : Int, action : Int]]
      /\ log.state \in Int /\ log.action = log.state
  BY MaxRecordsAssumption DEF IInv, TypeOK, LogTypeOK, PairsWhole
<1>5. log.open => log.name \in Seconds
  BY ServerAssumption DEF IInv, TypeOK, LogTypeOK
<1>6. CASE UNCHANGED disk /\ (UNCHANGED log \/ (~log.open /\ ~log'.open))
  <2>1. \A s \in Seconds : Entry(s)' = Entry(s)
    BY <1>3, <1>6
  <2> QED
    BY <1>1, <1>2, <2>1
<1>7. CASE ~log.open /\ second \in Seconds /\ LogfileInit(second)
  <2>1. \A r \in Seconds : Recorded[r].fate # "open"
    BY <1>1, <1>3, <1>7
  <2>2. \A s \in Seconds : Entry(s)' =
          IF s = second THEN [fate |-> "open", pairs |-> 0] ELSE Entry(s)
    BY <1>3, <1>4, <1>7 DEF LogfileInit, Empty
  <2>3. Recorded' = [Recorded EXCEPT ![second] = [fate |-> "open", pairs |-> 0]]
    BY <1>1, <1>2, <2>2
  <2> QED
    BY <1>7, <2>1, <2>3 DEF Recording!Next, Recording!Begin, Recording!Made
<1>8. CASE /\ log.open
           /\ \/ WritePair
              \/ WriteAndClose
              \/ /\ log' = NoLog
                 /\ \E s \in 0..(log.state + 1), a \in 0..(log.action + 1) :
                      disk' = Torn(s, a)
  <2> DEFINE n == log.name
  <2>1. n \in Seconds /\ Recorded[n] = [fate |-> "open", pairs |-> log.state]
    BY <1>1, <1>3, <1>5, <1>8
  <2>2. CASE WritePair
    <3>1. \A s \in Seconds : Entry(s)' =
            IF s = n THEN [fate |-> "open", pairs |-> log.state + 1] ELSE Entry(s)
      BY <1>3, <1>4, <1>8, <2>2 DEF WritePair
    <3>2. Recorded' = [Recorded EXCEPT
                        ![n] = [fate |-> "open", pairs |-> Recorded[n].pairs + 1]]
      BY <1>1, <1>2, <2>1, <3>1
    <3>3. Recording!Record(n)
      BY <2>1, <3>2 DEF Recording!Record, Recording!Made
    <3> QED
      BY <2>1, <3>3 DEF Recording!Next
  <2>3. CASE WriteAndClose
    <3>1. \A s \in Seconds : Entry(s)' =
            IF s = n THEN [fate |-> "complete", pairs |-> log.state + 1] ELSE Entry(s)
      BY <1>3, <1>4, <1>8, <2>3 DEF WriteAndClose
    <3>2. Recorded' = [Recorded EXCEPT
                        ![n] = [fate |-> "complete", pairs |-> Recorded[n].pairs + 1]]
      BY <1>1, <1>2, <2>1, <3>1
    <3>3. Recording!Finish(n)
      BY <2>1, <3>2 DEF Recording!Finish, Recording!Made
    <3> QED
      BY <2>1, <3>3 DEF Recording!Next
  <2>4. ASSUME log' = NoLog,
               NEW t \in 0..(log.state + 1), NEW a \in 0..(log.action + 1), disk' = Torn(t, a)
        PROVE  Recording!Next
    <3>1. PICK k \in 0..(log.state + 1) : k = IF t <= a THEN t ELSE a
      BY <1>4, <2>4
    <3>2. \A s \in Seconds : Entry(s)' =
            IF s = n THEN [fate |-> "torn", pairs |-> k] ELSE Entry(s)
      BY <1>3, <1>4, <1>8, <2>4, <3>1 DEF Torn, Matched
    <3>3. Recorded' = [Recorded EXCEPT ![n] = [fate |-> "torn", pairs |-> k]]
      BY <1>1, <1>2, <2>1, <3>2
    <3>4. k \in 0..(Recorded[n].pairs + 1)
      BY <2>1, <3>1
    <3>5. Recording!Made(n)
      BY <2>1 DEF Recording!Made
    <3>6. Recording!Lose(n)
      BY <3>3, <3>4, <3>5, Zenon DEF Recording!Lose
    <3> QED
      BY <2>1, <3>6 DEF Recording!Next
  <2> QED
    BY <1>8, <2>2, <2>3, <2>4
<1> QED
  BY <1>6, <1>7, <1>8, LogOperation

\* The server implements BattleRecording.
THEOREM ImplementsRecordingCorrect == Spec => ImplementsRecording
<1>1. Init => Recording!Init
  BY DEF Init, LogInit, Recording!Init, Recording!NoRecording, Recorded, Pairs,
         NoLog, Empty
<1>2. IInv /\ IInv' /\ [Next]_vars => [Recording!Next]_Recorded
  BY RecordingStep
<1> QED
  BY Invariance, <1>1, <1>2, PTL DEF Spec, ImplementsRecording, Recording!Spec

=============================================================================
