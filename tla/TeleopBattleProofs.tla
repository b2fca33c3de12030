------------------------- MODULE TeleopBattleProofs -------------------------
(* The battle automation for any number of battles, crashes and clock steps, *)
(* any length of a phase from two loop periods on, and any lag of the        *)
(* emulator within the 200 ms between two taps of A.                         *)
EXTENDS TeleopBattle, TeleopServerProofs

\* The enemies the game's memory holds in each phase of a battle.
EnemiesFollowPhase ==
    /\ phase \in {"intro", "premenu", "command", "resolve"} => enemies = 1
    /\ phase = "victory" => enemies = 0

\* A phase that has lasted a period began before this iteration did, so what
\* the iteration has read of the game so far still holds.
Fresh ==
    age > 0 =>
        /\ pc \in {"menu_active", "menu_l0", "block"} => obs.enemy_health = enemies
        /\ pc \in {"menu_l0", "block"} => obs.menu_active = MenuActive
        /\ pc = "block" => obs.menu_l0 = MenuL0

\* An A tapped by the server waits in the pre-menu it is meant for, and no
\* other can follow before the emulator has seen it.
TapAnswersPreMenu ==
    ButtonA \in tapped =>
        phase = "premenu" /\ since <= lag /\ state \in {STATE_PASSTHRU, STATE_BATTLE_INIT}

\* The server is on its way to the commands, or about to set out.
Automating ==
    \/ state = STATE_BATTLE_INIT
    \/ /\ state = STATE_PASSTHRU
       /\ pc \notin {"joystick", "down"}
       /\ teleop_command.battle_init = 1

AutomationInStep ==
    Automating =>
        /\ ~answered
        /\ phase \in {"intro", "premenu", "command"}
        /\ phase = "intro" => age > 0
        /\ phase = "command" /\ age = 0 => since <= APressGap
        /\ phase = "command" /\ pc \in {"menu_l0", "block"} => obs.menu_active = 1
        /\ pc = "block" =>
             /\ phase = "intro" => obs.menu_l0 = L0_WATCHING
             /\ phase = "premenu" => obs.menu_l0 \in {L0_WATCHING, L0_PRE_MENU}
             /\ phase = "command" => obs.menu_l0 \in {L0_PRE_MENU, L0_ACTIVE}

\* The player's commands outlast the menu by less than two iterations.
CommandInStep ==
    state = STATE_BATTLE_CMD =>
        /\ phase \in {"premenu", "command", "resolve"}
        /\ phase # "resolve" /\ pc \in {"menu_l0", "block"} => obs.menu_active = 1
        /\ phase = "resolve" => age = 0 \/ (age = 1 /\ pc # "joystick")

EnemiesSeen ==
    (Automating \/ state = STATE_BATTLE_CMD) /\ pc \in {"menu_active", "menu_l0", "block"}
        => obs.enemy_health = 1

\* The end of a won battle is noticed within two iterations; that of a fled one
\* is not, and is remembered as such.
WatchInStep ==
    state = STATE_BATTLE_WATCH =>
        /\ phase # "command"
        /\ answered => phase = "resolve"
        /\ phase = "field" =>
             IF enemies = 1 THEN fled ELSE age = 0 \/ (age = 1 /\ pc # "joystick")
        /\ pc \in {"menu_active", "menu_l0", "block"} /\ obs.enemy_health = 0
             => phase = "victory" \/ (phase = "field" /\ enemies = 0)
        /\ pc = "block" /\ obs.enemy_health = 0 /\ obs.menu_l0 = L0_ACTIVE
             => phase = "field"
        /\ pc \in {"menu_l0", "block"} /\ obs.menu_active = 1 => phase = "premenu"

EndInStep ==
    state = STATE_BATTLE_END => phase = "field" /\ enemies = 0 /\ age <= 1

BattleInv ==
    /\ IInv
    /\ BattleTypeOK
    /\ EnemiesFollowPhase
    /\ Fresh
    /\ TapAnswersPreMenu
    /\ NoUnaskedCommand
    /\ AutomationInStep
    /\ EnemiesSeen
    /\ CommandInStep
    /\ WatchInStep
    /\ EndInStep
    /\ log.open <=> logged # -1
    /\ OneBattlePerLog

USE DEF STATE_PASSTHRU, STATE_BATTLE_INIT, STATE_BATTLE_CMD, STATE_BATTLE_WATCH,
        STATE_BATTLE_END, L0_ACTIVE, L0_PRE_MENU, L0_WATCHING, L0_OTHER

----------------------------------------------------------------------------
\* What each conjunct of the invariant says of the values a step reads.
LEMMA TypesAtHand ==
    ASSUME BattleInv
    PROVE  /\ state \in STATE_PASSTHRU..STATE_BATTLE_END
           /\ pc \in {"joystick", "units", "menu_active", "menu_l0", "block", "down"}
           /\ pc = "down" => state = STATE_PASSTHRU
           /\ state = STATE_BATTLE_END => pc = "block"
           /\ log.open <=> state # STATE_PASSTHRU
           /\ obs \in Obs
           /\ since \in Int
           /\ age \in Nat /\ age <= PhaseLoops
           /\ lag \in Nat /\ lag <= MaxLag
           /\ phase \in Phases
           /\ enemies \in 0..1
           /\ battle \in Nat
           /\ logged \in Int
           /\ answered \in BOOLEAN
BY BattleAssumption, ServerAssumption
   DEF BattleInv, BattleTypeOK, IInv, TypeOK, StateAtRest, LogsFollowState

\* The game starts in the field, the server in PASSTHRU.
LEMMA BattleInitInv == BattleInit => BattleInv
<1> SUFFICES ASSUME BattleInit PROVE BattleInv
  OBVIOUS
<1> USE DEF BattleInit, Init, ServerStart, LogInit, NoLog, KeyInit
<1>1. IInv
  BY InitInv
<1>2. BattleTypeOK
  <2>1. TypeOK /\ answered \in BOOLEAN /\ fled \in BOOLEAN
    BY <1>1 DEF IInv
  <2>2. /\ phase \in Phases /\ enemies \in 0..1 /\ age \in 0..PhaseLoops
        /\ lag \in 0..MaxLag /\ battle \in 0..MaxBattles /\ logged \in -1..MaxBattles
        /\ mishaps \in 0..MaxMishaps
    BY BattleAssumption DEF Phases
  <2> QED
    BY <2>1, <2>2, Zenon DEF BattleTypeOK
<1>3. TapAnswersPreMenu /\ NoUnaskedCommand /\ Fresh /\ EnemiesFollowPhase
  BY DEF TapAnswersPreMenu, NoUnaskedCommand, Fresh, EnemiesFollowPhase
<1>4. ~Automating
  BY DEF Automating
<1> QED
  BY <1>1, <1>2, <1>3, <1>4
     DEF BattleInv, AutomationInStep, EnemiesSeen, CommandInStep, WatchInStep, EndInStep,
         OneBattlePerLog

\* The composition preserves the invariant of the server.
LEMMA ServerKeepsInv ==
    ASSUME BattleInv, [BattleNext]_battleVars
    PROVE  IInv'
<1> USE ServerAssumption, BattleAssumption DEF BattleInv
<1>1. CASE Period
  <2>1. PICK m \in Commands \cup {NoCommand}, b \in 0..MaxClockBack : Joystick(m, 1 - b)
    BY <1>1 DEF Period
  <2>2. m \in TeleopCommand /\ 1 - b \in (1 - MaxClockBack)..MaxOverrun
    BY ConstantsTyped
  <2> QED
    BY <2>1, <2>2, JoystickInv
<1>2. CASE SampleGame
  <2>1. enemies \in 0..1 /\ MenuActive \in 0..2
        /\ MenuL0 \in {L0_ACTIVE, L0_PRE_MENU, L0_WATCHING, L0_OTHER}
    BY DEF BattleTypeOK, MenuActive, MenuL0
  <2> QED
    BY <1>2, <2>1, ReadInv DEF SampleGame
<1>3. CASE RunBlock
  BY <1>3, BlocksInv DEF RunBlock
<1>4. CASE GameFrame
  BY <1>4, WorldInv DEF GameFrame
<1>5. CASE ServerDies \/ ServerRestarts \/ UNCHANGED battleVars
  BY <1>5, WorldInv DEF ServerDies, ServerRestarts, battleVars
<1> QED
  BY <1>1, <1>2, <1>3, <1>4, <1>5 DEF BattleNext, ServerStep

\* The variables of the game and of the histories keep their types.
LEMMA BattleTypes ==
    ASSUME BattleInv, [BattleNext]_battleVars
    PROVE  BattleTypeOK'
<1>1. TypeOK'
  BY ServerKeepsInv DEF IInv
<1>2. answered' \in BOOLEAN /\ fled' \in BOOLEAN
  <2>1. answered \in BOOLEAN /\ fled \in BOOLEAN
    BY DEF BattleInv, BattleTypeOK
  <2> QED
    BY <2>1, Zenon DEF BattleNext, ServerStep, Period, SampleGame, RunBlock, GameFrame,
                ServerDies, ServerRestarts, battleVars, gameVars, historyVars
<1>3. /\ phase' \in Phases /\ enemies' \in 0..1 /\ age' \in 0..PhaseLoops
      /\ lag' \in 0..MaxLag /\ battle' \in 0..MaxBattles /\ logged' \in -1..MaxBattles
      /\ mishaps' \in 0..MaxMishaps
  <2> USE BattleAssumption DEF Phases
  <2>1. /\ phase \in Phases /\ enemies \in 0..1 /\ age \in 0..PhaseLoops
        /\ lag \in 0..MaxLag /\ battle \in 0..MaxBattles /\ logged \in -1..MaxBattles
        /\ mishaps \in 0..MaxMishaps
    BY DEF BattleInv, BattleTypeOK
  <2>2. CASE Period
    BY <2>1, <2>2 DEF Period, Mishap
  <2>3. CASE SampleGame \/ ServerRestarts \/ UNCHANGED battleVars
    BY <2>1, <2>3 DEF SampleGame, ServerRestarts, battleVars, gameVars, historyVars
  <2>4. CASE RunBlock
    BY <2>1, <2>4 DEF RunBlock
  <2>5. CASE GameFrame
    BY <2>1, <2>5 DEF GameFrame, Advance, Becomes
  <2>6. CASE ServerDies
    BY <2>1, <2>6 DEF ServerDies, Mishap, gameVars
  <2> QED
    BY <2>2, <2>3, <2>4, <2>5, <2>6 DEF BattleNext, ServerStep
<1> QED
  BY <1>1, <1>2, <1>3, Zenon DEF BattleTypeOK

----------------------------------------------------------------------------
\* A loop period: the reads of the last iteration are out of the way, and a
\* request for the battle mode comes in a phase the automation knows.
LEMMA PeriodKeeps ==
    ASSUME BattleInv, Period
    PROVE  BattleInv'
<1>1. IInv' /\ BattleTypeOK'
  BY ServerKeepsInv, BattleTypes DEF BattleNext, ServerStep
<1>2. PICK m \in Commands \cup {NoCommand}, b \in 0..MaxClockBack :
        (m = AskBattle => phase \in AskPhases /\ ~answered) /\ Joystick(m, 1 - b)
  BY DEF Period
<1>3. /\ pc = "joystick" /\ pc' = "units" /\ teleop_command' = m
      /\ UNCHANGED <<state, obs, log, tapped, phase, enemies, answered, battle, logged, fled>>
      /\ age' = IF age < PhaseLoops THEN age + 1 ELSE age
      /\ lag < MaxLag /\ lag' = lag + 1
      /\ since' <= since + 1
  BY <1>2, TypesAtHand, ServerAssumption
     DEF Joystick, Period, logVars, keyVars
<1> USE <1>3, TypesAtHand, BattleAssumption
<1>4. age' > 0
  OBVIOUS
<1>5. Fresh' /\ EnemiesFollowPhase' /\ OneBattlePerLog' /\ (log.open <=> logged # -1)'
  BY DEF BattleInv, Fresh, EnemiesFollowPhase, OneBattlePerLog
<1>6. TapAnswersPreMenu' /\ NoUnaskedCommand'
  BY <1>1 DEF BattleInv, TapAnswersPreMenu, NoUnaskedCommand, BattleTypeOK, TypeOK
<1>7. AutomationInStep'
  <2>1. CASE state = STATE_BATTLE_INIT
    BY <1>4, <2>1 DEF BattleInv, AutomationInStep, Automating
  <2>2. CASE state # STATE_BATTLE_INIT
    <3>1. Automating' => m.battle_init = 1
      BY <2>2 DEF Automating
    <3>2. m.battle_init = 1 => m = AskBattle
      BY DEF NoCommand
    <3> QED
      <4>1. Automating' => phase \in AskPhases /\ ~answered
        BY <1>2, <3>1, <3>2
      <4>2. Automating' => phase' \in {"intro", "premenu", "command"} /\ ~answered'
        BY <4>1
      <4> QED
        BY <1>3, <1>4, <4>2 DEF AutomationInStep
  <2> QED
    BY <2>1, <2>2
<1>8. EnemiesSeen' /\ CommandInStep' /\ WatchInStep' /\ EndInStep'
  BY DEF BattleInv, EnemiesSeen, CommandInStep, WatchInStep, EndInStep
<1> QED
  BY <1>1, <1>5, <1>6, <1>7, <1>8 DEF BattleInv

\* A read of the game: it is of this phase, or of the one before.
LEMMA SampleKeeps ==
    ASSUME BattleInv, SampleGame
    PROVE  BattleInv'
<1>1. IInv' /\ BattleTypeOK'
  BY ServerKeepsInv, BattleTypes DEF BattleNext, ServerStep
<1>2. /\ UNCHANGED <<state, teleop_command, since, log, tapped>>
      /\ UNCHANGED <<phase, enemies, age, lag, answered, battle, logged, fled>>
  BY DEF SampleGame, ReadUnits, ReadMenuActive, ReadMenuL0, logVars, keyVars,
         gameVars, historyVars
<1>3. \/ /\ pc = "units" /\ pc' = "menu_active"
         /\ obs'.enemy_health = enemies
      \/ /\ pc = "menu_active" /\ pc' = "menu_l0"
         /\ obs'.enemy_health = obs.enemy_health
         /\ obs'.menu_active = MenuActive
      \/ /\ pc = "menu_l0" /\ pc' = "block"
         /\ obs'.enemy_health = obs.enemy_health /\ obs'.menu_active = obs.menu_active
         /\ obs'.menu_l0 = MenuL0
  BY TypesAtHand DEF SampleGame, ReadUnits, ReadMenuActive, ReadMenuL0, Obs
<1>4. MenuActive' = MenuActive /\ MenuL0' = MenuL0
  BY <1>2 DEF MenuActive, MenuL0
<1>5. Automating' = Automating
  BY <1>2, <1>3 DEF Automating
<1> USE <1>2, <1>3, TypesAtHand
<1>6. Fresh' /\ EnemiesFollowPhase' /\ OneBattlePerLog' /\ (log.open <=> logged # -1)'
  BY <1>4 DEF BattleInv, Fresh, EnemiesFollowPhase, OneBattlePerLog
<1>7. TapAnswersPreMenu' /\ NoUnaskedCommand'
  BY DEF BattleInv, TapAnswersPreMenu, NoUnaskedCommand
<1>8. AutomationInStep'
  BY <1>5 DEF BattleInv, AutomationInStep, MenuActive, MenuL0
<1>9. EnemiesSeen' /\ CommandInStep'
  BY <1>5 DEF BattleInv, EnemiesSeen, AutomationInStep, CommandInStep, EnemiesFollowPhase,
              MenuActive
<1>10. WatchInStep' /\ EndInStep'
  BY DEF BattleInv, WatchInStep, EndInStep, EnemiesFollowPhase, Phases, MenuActive, MenuL0
<1> QED
  BY <1>1, <1>6, <1>7, <1>8, <1>9, <1>10 DEF BattleInv

----------------------------------------------------------------------------
(* The blocks of the if-chain.                                               *)

\* What every block has in common: the game stands still, the iteration ends or
\* falls through with all it has read, and the histories follow the log.
LEMMA BlockEffect ==
    ASSUME BattleInv, RunBlock, NEW s \in STATE_PASSTHRU..STATE_BATTLE_END, Leave(s)
    PROVE  /\ IInv' /\ BattleTypeOK'
           /\ EnemiesFollowPhase' /\ Fresh'
           /\ (log.open <=> logged # -1)' /\ OneBattlePerLog'
           /\ UNCHANGED <<phase, enemies, age, lag, battle>>
           /\ pc = "block" /\ state' = s
           /\ \/ s > state /\ pc' = "block" /\ UNCHANGED <<obs, teleop_command>>
              \/ s <= state /\ pc' = "joystick" /\ teleop_command'.battle_init = 0
<1>1. IInv' /\ BattleTypeOK'
  BY ServerKeepsInv, BattleTypes DEF BattleNext, ServerStep
<1>2. UNCHANGED <<phase, enemies, age, lag, battle>>
  BY DEF RunBlock
<1>3. pc = "block"
  BY DEF RunBlock, Blocks, StatePassthru, StateBattleInit, StateBattleCmd,
         StateBattleWatch, StateBattleEnd, AtBlock
<1>4. /\ state' = s
      /\ \/ s > state /\ pc' = "block" /\ UNCHANGED <<obs, teleop_command>>
         \/ s <= state /\ pc' = "joystick" /\ teleop_command'.battle_init = 0
  BY TypesAtHand DEF Leave, NoCommand
<1>5. MenuActive' = MenuActive /\ MenuL0' = MenuL0
  BY <1>2 DEF MenuActive, MenuL0
<1>6. EnemiesFollowPhase' /\ Fresh'
  BY <1>2, <1>3, <1>4, <1>5 DEF BattleInv, EnemiesFollowPhase, Fresh
<1>7. /\ logged' = IF log.open = log'.open THEN logged
                   ELSE IF log'.open THEN battle ELSE -1
      /\ fled' = (fled /\ log.open /\ log'.open)
  BY DEF RunBlock
<1>8. (log.open <=> logged # -1)' /\ OneBattlePerLog'
  <2>1. log.open \in BOOLEAN /\ log'.open \in BOOLEAN /\ fled \in BOOLEAN
    BY <1>1 DEF BattleInv, BattleTypeOK, TypeOK, LogTypeOK
  <2> QED
    BY <1>2, <1>7, <2>1, TypesAtHand DEF BattleInv, OneBattlePerLog
<1> QED
  BY <1>1, <1>2, <1>3, <1>4, <1>6, <1>8

\* PASSTHRU: a request that was heard finds the game as the automation wants it.
LEMMA PassthruKeeps ==
    ASSUME BattleInv, RunBlock, StatePassthru
    PROVE  BattleInv'
<1>1. PICK s \in {STATE_PASSTHRU, STATE_BATTLE_INIT} :
        Leave(s) /\ (s = STATE_BATTLE_INIT <=> teleop_command.battle_init = 1)
  BY DEF StatePassthru
<1>2. state = STATE_PASSTHRU /\ UNCHANGED <<since, tapped>>
  BY DEF StatePassthru, AtBlock, Passthru
<1>3. Automating' <=> s = STATE_BATTLE_INIT
  BY <1>1, BlockEffect DEF Automating
<1>4. s = STATE_BATTLE_INIT => Automating /\ ~answered'
  <2> SUFFICES ASSUME s = STATE_BATTLE_INIT PROVE Automating /\ ~answered'
    OBVIOUS
  <2>1. Automating
    BY <1>1, <1>2, BlockEffect DEF Automating
  <2>2. ~answered /\ teleop_command # PressA
    BY <1>1, <2>1, BattleAssumption DEF BattleInv, AutomationInStep
  <2> QED
    BY <2>1, <2>2 DEF RunBlock
<1>5. TapAnswersPreMenu' /\ NoUnaskedCommand'
  BY <1>1, <1>2, BlockEffect DEF BattleInv, TapAnswersPreMenu, NoUnaskedCommand
<1>6. AutomationInStep' /\ EnemiesSeen'
  BY <1>1, <1>2, <1>3, <1>4, BlockEffect DEF BattleInv, AutomationInStep, EnemiesSeen
<1>7. CommandInStep' /\ WatchInStep' /\ EndInStep'
  BY <1>1, BlockEffect DEF CommandInStep, WatchInStep, EndInStep
<1> QED
  BY <1>1, <1>5, <1>6, <1>7, BlockEffect DEF BattleInv

\* INIT: A is tapped in the pre-menu only, and not again before it is seen; the
\* first character's menu hands over to CMD.
LEMMA InitKeeps ==
    ASSUME BattleInv, RunBlock, StateBattleInit
    PROVE  BattleInv'
<1>1. PICK s \in {STATE_BATTLE_INIT, STATE_BATTLE_CMD} :
        Leave(s) /\ (s = STATE_BATTLE_CMD <=> obs.menu_l0 = L0_ACTIVE)
  BY DEF StateBattleInit, AtBlock
<1>2. state = STATE_BATTLE_INIT /\ Automating
  BY DEF StateBattleInit, AtBlock, Automating
<1>3. ~answered /\ ~answered'
  BY <1>2 DEF BattleInv, AutomationInStep, RunBlock
<1>4. pc = "block"
  BY <1>1, BlockEffect
<1>5. \/ UNCHANGED <<since, tapped>>
      \/ obs.menu_l0 = L0_WATCHING /\ tapped' = tapped \cup {ButtonB} /\ UNCHANGED since
      \/ /\ obs.menu_l0 = L0_PRE_MENU /\ since > APressGap
         /\ tapped' = tapped \cup {ButtonA} /\ since' = 0
  BY DEF StateBattleInit, InitTap, KeyTap, keyVars
<1>6. TapAnswersPreMenu'
  <2>1. obs.menu_l0 = L0_PRE_MENU /\ since > APressGap => phase = "premenu"
    BY <1>2, <1>4, TypesAtHand, ServerAssumption
       DEF BattleInv, AutomationInStep, Fresh, MenuL0
  <2> QED
    BY <1>1, <1>2, <1>4, <1>5, <2>1, BlockEffect, TypesAtHand, BattleAssumption
       DEF BattleInv, TapAnswersPreMenu, AutomationInStep
<1>7. NoUnaskedCommand'
  <2>1. phase = "command" => UNCHANGED tapped
    BY <1>2, <1>4, <1>5, TypesAtHand, ServerAssumption
       DEF BattleInv, AutomationInStep, Fresh, MenuL0
  <2> QED
    BY <1>1, <2>1, BlockEffect DEF BattleInv, NoUnaskedCommand
<1>8. AutomationInStep'
  <2>1. phase = "command" /\ age = 0 => since' <= APressGap
    BY <1>2, <1>5, ServerAssumption DEF BattleInv, AutomationInStep
  <2> QED
    BY <1>1, <1>2, <1>3, <2>1, BlockEffect DEF BattleInv, AutomationInStep, Automating
<1>9. EnemiesSeen' /\ CommandInStep'
  BY <1>1, <1>2, <1>4, BlockEffect
     DEF BattleInv, EnemiesSeen, AutomationInStep, CommandInStep
<1>10. WatchInStep' /\ EndInStep'
  BY <1>1, BlockEffect DEF WatchInStep, EndInStep
<1> QED
  BY <1>1, <1>6, <1>7, <1>8, <1>9, <1>10, BlockEffect DEF BattleInv

\* CMD: the turn is over when the menu has gone, and WATCH takes over with
\* enemies that are still up.
LEMMA CommandKeeps ==
    ASSUME BattleInv, RunBlock, StateBattleCmd
    PROVE  BattleInv'
<1>1. PICK s \in {STATE_BATTLE_CMD, STATE_BATTLE_WATCH} :
        Leave(s) /\ (s = STATE_BATTLE_WATCH <=> obs.menu_active = 0)
  BY DEF StateBattleCmd, AtBlock
<1>2. state = STATE_BATTLE_CMD /\ UNCHANGED <<since, tapped>>
  BY DEF StateBattleCmd, AtBlock, Passthru
<1>3. pc = "block" /\ ~Automating'
  BY <1>1, BlockEffect DEF Automating
<1>4. TapAnswersPreMenu' /\ NoUnaskedCommand'
  BY <1>1, <1>2, BlockEffect DEF BattleInv, TapAnswersPreMenu, NoUnaskedCommand
<1>5. AutomationInStep' /\ EnemiesSeen'
  BY <1>1, <1>2, <1>3, BlockEffect DEF BattleInv, AutomationInStep, EnemiesSeen
<1>6. s = STATE_BATTLE_WATCH => phase = "resolve"
  BY <1>1, <1>2, <1>3 DEF BattleInv, CommandInStep
<1>7. CommandInStep'
  BY <1>1, <1>2, <1>3, BlockEffect, TypesAtHand
     DEF BattleInv, CommandInStep, Fresh, MenuActive
<1>8. WatchInStep' /\ EndInStep'
  BY <1>1, <1>2, <1>3, <1>6, BlockEffect DEF BattleInv, WatchInStep, EndInStep, EnemiesSeen
<1> QED
  BY <1>1, <1>4, <1>5, <1>7, <1>8, BlockEffect DEF BattleInv

\* WATCH: it goes back to INIT in the pre-menu, or on to END after the victory.
LEMMA WatchKeeps ==
    ASSUME BattleInv, RunBlock, StateBattleWatch
    PROVE  BattleInv'
<1>1. PICK s \in {STATE_BATTLE_INIT, STATE_BATTLE_WATCH, STATE_BATTLE_END} :
        /\ Leave(s)
        /\ s = STATE_BATTLE_END <=> EnemiesDown
        /\ s = STATE_BATTLE_INIT <=> ~EnemiesDown /\ obs.menu_active = 1
  BY DEF StateBattleWatch, AtBlock
<1>2. /\ state = STATE_BATTLE_WATCH /\ UNCHANGED since
      /\ tapped' = tapped \cup {ButtonB}
      /\ answered' <=> answered
  BY DEF StateBattleWatch, AtBlock, KeyTap, RunBlock
<1>3. pc = "block"
  BY <1>1, BlockEffect
<1>4. TapAnswersPreMenu' /\ NoUnaskedCommand'
  BY <1>1, <1>2, BlockEffect, BattleAssumption
     DEF BattleInv, TapAnswersPreMenu, NoUnaskedCommand, WatchInStep
<1>5. s = STATE_BATTLE_INIT => phase = "premenu" /\ ~answered
  BY <1>1, <1>2, <1>3 DEF BattleInv, WatchInStep
<1>6. AutomationInStep' /\ EnemiesSeen' /\ CommandInStep'
  BY <1>1, <1>2, <1>5, BlockEffect
     DEF AutomationInStep, EnemiesSeen, CommandInStep, Automating
<1>7. WatchInStep'
  <2>1. s = STATE_BATTLE_WATCH => fled' = fled
    BY <1>1, <1>2, BlockEffect, TypesAtHand
       DEF StateBattleWatch, RunBlock, logVars, BattleInv, BattleTypeOK
  <2>2. s = STATE_BATTLE_WATCH /\ phase = "field" /\ enemies # 1 => age = 0
    <3> SUFFICES ASSUME s = STATE_BATTLE_WATCH, phase = "field", enemies # 1, age # 0
                 PROVE  FALSE
      OBVIOUS
    <3>1. obs.enemy_health = 0 /\ obs.menu_l0 = L0_ACTIVE
      BY <1>3, TypesAtHand DEF BattleInv, Fresh, MenuL0
    <3> QED
      BY <1>1, <3>1 DEF EnemiesDown
  <2> QED
    BY <1>1, <1>2, <2>1, <2>2, BlockEffect DEF BattleInv, WatchInStep
<1>8. EndInStep'
  <2>1. EnemiesDown => phase = "field" /\ enemies = 0 /\ (age = 0 \/ age = 1)
    BY <1>2, <1>3, TypesAtHand DEF BattleInv, WatchInStep, EnemiesDown
  <2> QED
    BY <1>1, <2>1, BlockEffect DEF EndInStep
<1> QED
  BY <1>1, <1>4, <1>6, <1>7, <1>8, BlockEffect DEF BattleInv

\* END: back to PASSTHRU, with no request at hand.
LEMMA EndKeeps ==
    ASSUME BattleInv, RunBlock, StateBattleEnd
    PROVE  BattleInv'
<1>1. Leave(STATE_PASSTHRU) /\ UNCHANGED <<since, tapped>> /\ state = STATE_BATTLE_END
  BY DEF StateBattleEnd, AtBlock, keyVars
<1>2. state' = STATE_PASSTHRU /\ ~Automating'
  BY <1>1, BlockEffect DEF Automating
<1>3. TapAnswersPreMenu' /\ NoUnaskedCommand'
  BY <1>1, BlockEffect DEF BattleInv, TapAnswersPreMenu, NoUnaskedCommand
<1>4. AutomationInStep' /\ EnemiesSeen' /\ CommandInStep' /\ WatchInStep' /\ EndInStep'
  BY <1>2 DEF AutomationInStep, EnemiesSeen, CommandInStep, WatchInStep, EndInStep
<1> QED
  BY <1>1, <1>3, <1>4, BlockEffect DEF BattleInv

\* Each block keeps the battle and its recording in step.
LEMMA RunBlockKeeps ==
    ASSUME BattleInv, RunBlock
    PROVE  BattleInv'
BY PassthruKeeps, InitKeeps, CommandKeeps, WatchKeeps, EndKeeps DEF RunBlock, Blocks

----------------------------------------------------------------------------
(* The game, and failures.                                                   *)

\* What a frame does to the phase: at most one step, from a phase that began in
\* an earlier iteration.
LEMMA FrameEffect ==
    ASSUME BattleInv, GameFrame
    PROVE  /\ UNCHANGED <<pc, state, teleop_command, obs, since, log, logged>>
           /\ tapped' = {} /\ ~answered'
           /\ \/ UNCHANGED <<phase, enemies, age, battle>> /\ (fled' <=> fled)
              \/ /\ age >= 2 /\ age' = 0
                 /\ \/ phase = "field" /\ phase' = "intro" /\ enemies' = 1 /\ (fled' <=> fled)
                    \/ /\ battle' = battle
                       /\ \/ phase = "intro" /\ phase' = "premenu" /\ enemies' = 1
                          \/ /\ phase = "premenu" /\ phase' = "command" /\ enemies' = 1
                             /\ ButtonA \in tapped \/ answered
                          \/ /\ phase = "command" /\ answered /\ enemies' = 1
                             /\ phase' \in {"resolve", "premenu"}
                          \/ phase = "resolve" /\ phase' = "premenu" /\ enemies' = 1
                          \/ phase = "resolve" /\ phase' = "victory" /\ enemies' = 0
                          \/ phase = "victory" /\ phase' = "field" /\ enemies' = 0
                       /\ fled' <=> fled
                    \/ /\ battle' = battle
                       /\ phase = "resolve" /\ phase' = "field" /\ enemies' = 1 /\ fled'
<1>1. /\ UNCHANGED <<pc, state, teleop_command, obs, since, log, logged>>
      /\ tapped' = {} /\ ~answered'
  BY DEF GameFrame, Frame, EmulatorFrame, serverVars, logVars
<1>2. fled' <=> (fled \/ (phase = "resolve" /\ phase' = "field"))
  BY DEF GameFrame
<1>3. CASE Advance
  <2>1. age >= 2 /\ age' = 0
    BY <1>3, BattleAssumption DEF Advance, Becomes
  <2> QED
    BY <1>1, <1>2, <1>3, <2>1 DEF Advance, Becomes
<1>4. CASE UNCHANGED <<phase, enemies, age, battle>>
  BY <1>1, <1>2, <1>4
<1> QED
  BY <1>3, <1>4 DEF GameFrame

\* A frame of the game.
LEMMA FrameKeeps ==
    ASSUME BattleInv, GameFrame
    PROVE  BattleInv'
<1>1. IInv' /\ BattleTypeOK'
  BY ServerKeepsInv, BattleTypes DEF BattleNext
<1>2. TapAnswersPreMenu' /\ NoUnaskedCommand'
  BY FrameEffect DEF TapAnswersPreMenu, NoUnaskedCommand
<1>3. Automating' = Automating
  BY FrameEffect DEF Automating
<1>4. \/ MenuActive' = MenuActive /\ MenuL0' = MenuL0
     \/ age' = 0
  BY FrameEffect DEF MenuActive, MenuL0
<1>5. EnemiesFollowPhase' /\ Fresh'
  BY <1>4, FrameEffect, TypesAtHand DEF BattleInv, EnemiesFollowPhase, Fresh
<1>6. AutomationInStep'
  <2> SUFFICES ASSUME Automating PROVE AutomationInStep'
    BY <1>3 DEF AutomationInStep
  <2>1. CASE UNCHANGED <<phase, enemies, age, battle>>
    BY <2>1, FrameEffect DEF BattleInv, AutomationInStep
  <2>2. CASE phase = "intro" /\ phase' = "premenu" /\ age' = 0
    BY <2>2, FrameEffect DEF BattleInv, AutomationInStep
  <2>3. CASE phase = "premenu" /\ phase' = "command" /\ age >= 2 /\ age' = 0 /\ ButtonA \in tapped
    <3>1. since <= APressGap
      BY <2>3, TypesAtHand, BattleAssumption, ServerAssumption DEF BattleInv, TapAnswersPreMenu
    <3> QED
      BY <2>3, <3>1, FrameEffect, TypesAtHand
         DEF BattleInv, AutomationInStep, Fresh, MenuActive, MenuL0
  <2> QED
    BY <2>1, <2>2, <2>3, FrameEffect DEF BattleInv, AutomationInStep
<1>7. EnemiesSeen'
  BY <1>3, FrameEffect DEF BattleInv, EnemiesSeen
<1>8. CommandInStep'
  BY FrameEffect, TypesAtHand DEF BattleInv, CommandInStep, Fresh, MenuActive
<1>9. WatchInStep'
  <2> SUFFICES ASSUME state = STATE_BATTLE_WATCH PROVE WatchInStep'
    BY FrameEffect DEF WatchInStep
  <2>1. ButtonA \notin tapped /\ (answered => phase = "resolve")
    BY DEF BattleInv, TapAnswersPreMenu, WatchInStep
  <2>2. phase = "field" => enemies = 1 \/ age <= 1
    BY TypesAtHand DEF BattleInv, WatchInStep
  <2> QED
    BY <2>1, <2>2, FrameEffect, TypesAtHand
       DEF BattleInv, WatchInStep, Fresh, MenuActive, MenuL0, EnemiesFollowPhase, Phases
<1>10. EndInStep'
  BY FrameEffect, TypesAtHand DEF BattleInv, EndInStep
<1>11. (log.open <=> logged # -1)' /\ OneBattlePerLog'
  <2>1. phase = "field" /\ phase' = "intro" => state = STATE_PASSTHRU \/ fled
    <3> SUFFICES ASSUME phase = "field", phase' = "intro" PROVE state = STATE_PASSTHRU \/ fled
      OBVIOUS
    <3>1. age >= 2
      BY FrameEffect
    <3>2. /\ state # STATE_BATTLE_INIT /\ state # STATE_BATTLE_CMD
          /\ state # STATE_BATTLE_END
          /\ state = STATE_BATTLE_WATCH => fled
      BY <3>1, TypesAtHand
         DEF BattleInv, AutomationInStep, Automating, CommandInStep, EndInStep, WatchInStep
    <3> QED
      BY <3>2, TypesAtHand
  <2> QED
    BY <2>1, FrameEffect, TypesAtHand DEF BattleInv, OneBattlePerLog
<1> QED
  BY <1>1, <1>2, <1>5, <1>6, <1>7, <1>8, <1>9, <1>10, <1>11 DEF BattleInv

\* The death of the server, its restart, and stuttering.
LEMMA FailuresKeep ==
    ASSUME BattleInv, ServerDies \/ ServerRestarts \/ UNCHANGED battleVars
    PROVE  BattleInv'
<1>1. IInv' /\ BattleTypeOK'
  BY ServerKeepsInv, BattleTypes DEF BattleNext
<1>2. CASE ServerDies \/ ServerRestarts
  <2>1. /\ UNCHANGED <<phase, enemies, age, lag, answered, battle, tapped>>
        /\ state' = STATE_PASSTHRU /\ pc' \in {"down", "joystick"}
        /\ since' = 0 \/ (since' = since /\ state = STATE_PASSTHRU)
        /\ \/ ~log'.open /\ logged' = -1
           \/ UNCHANGED <<log, logged, fled>>
    BY <1>2, TypesAtHand
       DEF ServerDies, ServerRestarts, Failures, Crash, CloseStateFails, CloseActionFails,
           Down, Restart, LogLost, WriteAndCloseState, WriteAndClose, NoLog, gameVars, historyVars, logVars, keyVars
  <2>2. ~Automating'
    BY <2>1 DEF Automating
  <2>3. MenuActive' = MenuActive /\ MenuL0' = MenuL0
    BY <2>1 DEF MenuActive, MenuL0
  <2>4. Fresh' /\ EnemiesFollowPhase'
    BY <2>1 DEF BattleInv, Fresh, EnemiesFollowPhase
  <2>5. TapAnswersPreMenu' /\ NoUnaskedCommand'
    BY <2>1, TypesAtHand DEF BattleInv, TapAnswersPreMenu, NoUnaskedCommand
  <2>6. AutomationInStep' /\ EnemiesSeen' /\ CommandInStep' /\ WatchInStep' /\ EndInStep'
    BY <2>1, <2>2 DEF AutomationInStep, EnemiesSeen, CommandInStep, WatchInStep, EndInStep
  <2>7. (log.open <=> logged # -1)' /\ OneBattlePerLog'
    BY <2>1 DEF BattleInv, OneBattlePerLog
  <2> QED
    BY <1>1, <2>4, <2>5, <2>6, <2>7 DEF BattleInv
<1>3. CASE UNCHANGED battleVars
  <2> USE <1>3 DEF battleVars, vars, serverVars, logVars, keyVars, gameVars, historyVars
  <2>1. MenuActive' = MenuActive /\ MenuL0' = MenuL0 /\ Automating' = Automating
    BY DEF MenuActive, MenuL0, Automating
  <2> QED
    BY <1>1, <2>1
       DEF BattleInv, EnemiesFollowPhase, Fresh, TapAnswersPreMenu, NoUnaskedCommand,
           AutomationInStep, EnemiesSeen, CommandInStep, WatchInStep, EndInStep, OneBattlePerLog
<1> QED
  BY <1>2, <1>3

----------------------------------------------------------------------------
\* BattleInv is an invariant of the server in its battles.
THEOREM BattleInvariance == BattleSpec => []BattleInv
<1>1. BattleInv /\ [BattleNext]_battleVars => BattleInv'
  BY PeriodKeeps, SampleKeeps, RunBlockKeeps, FrameKeeps, FailuresKeep
     DEF BattleNext, ServerStep
<1> QED
  BY BattleInitInv, <1>1, PTL DEF BattleSpec

\* Every variable of the server, the game and the histories keeps its type.
THEOREM BattleTypeCorrect == BattleSpec => []BattleTypeOK
<1>1. BattleInv => BattleTypeOK
  BY DEF BattleInv
<1> QED
  BY BattleInvariance, <1>1, PTL

\* The server ends a battle only when every enemy in the game is down, although
\* the reads it decides by are of different moments.
THEOREM EndMeansEnemiesDownCorrect == BattleSpec => []EndMeansEnemiesDown
<1>1. BattleInv => EndMeansEnemiesDown
  BY DEF BattleInv, EndInStep, EndMeansEnemiesDown
<1> QED
  BY BattleInvariance, <1>1, PTL

\* A recording never runs from one battle into the next, unless the player fled
\* or lost.
THEOREM OneBattlePerLogCorrect == BattleSpec => []OneBattlePerLog
<1>1. BattleInv => OneBattlePerLog
  BY DEF BattleInv
<1> QED
  BY BattleInvariance, <1>1, PTL

\* A key tapped by the server never arrives in the menu of a character.
THEOREM NoUnaskedCommandCorrect == BattleSpec => []NoUnaskedCommand
<1>1. BattleInv => NoUnaskedCommand
  BY DEF BattleInv
<1> QED
  BY BattleInvariance, <1>1, PTL

----------------------------------------------------------------------------
\* The server that plays battles is the server of TeleopServer, whose player and
\* game do anything: what is proved of that one holds of this one.
THEOREM BattleImplementsServer == BattleSpec => Spec
<1>1. BattleInit => Init
  BY DEF BattleInit
<1>2. ASSUME BattleInv, [BattleNext]_battleVars PROVE [Next]_vars
  <2> USE <1>2, BattleAssumption, ServerAssumption
  <2>1. CASE Period
    <3>1. PICK m \in Commands \cup {NoCommand}, b \in 0..MaxClockBack : Joystick(m, 1 - b)
      BY <2>1 DEF Period
    <3>2. 1 - b \in (1 - MaxClockBack)..MaxOverrun
      OBVIOUS
    <3> QED
      BY <3>1, <3>2 DEF Next, Sample
  <2>2. CASE SampleGame
    <3>1. enemies \in 0..1 /\ MenuActive \in 0..2
          /\ MenuL0 \in {L0_ACTIVE, L0_PRE_MENU, L0_WATCHING, L0_OTHER}
      BY TypesAtHand DEF MenuActive, MenuL0
    <3> QED
      BY <2>2, <3>1 DEF SampleGame, Next, Sample
  <2>3. CASE RunBlock \/ GameFrame \/ ServerDies \/ ServerRestarts \/ UNCHANGED battleVars
    BY <2>3 DEF RunBlock, GameFrame, ServerDies, ServerRestarts, battleVars, Next
  <2> QED
    BY <1>2, <2>1, <2>2, <2>3 DEF BattleNext, ServerStep
<1> QED
  BY BattleInvariance, <1>1, <1>2, PTL DEF BattleSpec, Spec

\* In its battles, too, the server keeps recordings the way BattleRecording says.
THEOREM BattleImplementsRecording == BattleSpec => ImplementsRecording
BY BattleImplementsServer, ImplementsRecordingCorrect, PTL

=============================================================================
