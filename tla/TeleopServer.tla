---------------------------- MODULE TeleopServer ----------------------------
(* The control loop of src/server_teleop.c: once per loop period it takes    *)
(* the latest command of the player, samples the memory of the game in       *)
(* several separate reads, and runs the block of the current state.  Here    *)
(* the player and the game are arbitrary: any command of Commands may have   *)
(* arrived and any value may be read, at every iteration.                    *)
EXTENDS BattleLog, XKeyboard

CONSTANTS
    ButtonA, ButtonB, \* XK_k and XK_j, the keys the server taps by itself
    Commands,         \* the Teleop_Command values a client may send
    APressGap,        \* 200 ms, in loop periods
    MaxOverrun,       \* bound: loop periods one iteration may last
    MaxClockBack      \* bound: loop periods by which the clock is set back

VARIABLES
    pc,               \* what the iteration does next
    state,            \* the state machine of main()
    teleop_command,
    obs,              \* what this iteration has read from the game so far
    since,            \* loop periods since last_a_press by the wall clock, up
                      \* to APressGap + 1
    second            \* the wall clock, get_time_sec()

----------------------------------------------------------------------------
STATE_PASSTHRU == 0
STATE_BATTLE_INIT == 1
STATE_BATTLE_CMD == 2
STATE_BATTLE_WATCH == 3
STATE_BATTLE_END == 4

L0_ACTIVE == 0        \* menu_l0: the menu of one character is up
L0_PRE_MENU == 240    \* the fight/run/status menu, or another menu
L0_WATCHING == 241    \* the battle is being watched
L0_OTHER == 255       \* any other byte

TeleopCommand == [button : [Buttons -> 0..2], battle_init : 0..2, anything : 0..1]
NoCommand == [button |-> [b \in Buttons |-> 0], battle_init |-> 0, anything |-> 0]

ASSUME ServerAssumption ==
    /\ ButtonA \in Buttons
    /\ ButtonB \in Buttons
    /\ Commands \subseteq TeleopCommand
    /\ APressGap \in Nat
    /\ MaxOverrun \in Nat \ {0}
    /\ MaxClockBack \in Nat
    /\ 0 \in Seconds

\* enemy_health is 0 or 1 for health_total() = 0 or more; menu_active is 2 for
\* every byte beyond 1.
Obs == [enemy_health : 0..1, menu_active : 0..2,
        menu_l0 : {L0_ACTIVE, L0_PRE_MENU, L0_WATCHING, L0_OTHER}]
Unread == [enemy_health |-> 0, menu_active |-> 0, menu_l0 |-> L0_ACTIVE]

serverVars == <<pc, state, teleop_command, obs, since>>
vars == <<serverVars, second, logVars, keyVars>>

TypeOK ==
    /\ pc \in {"joystick", "units", "menu_active", "menu_l0", "block", "down"}
    /\ state \in STATE_PASSTHRU..STATE_BATTLE_END
    /\ teleop_command \in TeleopCommand
    /\ obs \in Obs
    /\ since \in (-MaxClockBack)..(APressGap + 1)
    /\ second \in Seconds
    /\ LogTypeOK
    /\ KeyTypeOK

ServerStart ==
    /\ pc = "joystick"
    /\ state = STATE_PASSTHRU
    /\ teleop_command = NoCommand
    /\ obs = Unread
    /\ since = 0

Init == ServerStart /\ second = 0 /\ LogInit /\ KeyInit

----------------------------------------------------------------------------
(* The top of the loop: wait, take a command, sample the game.              *)

\* loop_frequency_delay lets d periods pass (more than one when the last
\* iteration was late, and none or fewer when the clock was set back); joystick
\* receives command m, or nothing and zeroes the struct.  Bound: no press
\* arrives once MaxRecords pairs are written.
Joystick(m, d) ==
    /\ pc = "joystick"
    /\ since + d >= -MaxClockBack
    /\ m.anything # 0 => log.state < MaxRecords
    /\ teleop_command' = m
    /\ since' = IF since + d > APressGap THEN APressGap + 1 ELSE since + d
    /\ pc' = "units"
    /\ UNCHANGED <<state, obs, second, logVars, keyVars>>

\* get_unit_data for the enemies.
ReadUnits(health) ==
    /\ pc = "units"
    /\ obs' = [obs EXCEPT !.enemy_health = health]
    /\ pc' = "menu_active"
    /\ UNCHANGED <<state, teleop_command, since, second, logVars, keyVars>>

\* get_battle_menu_navigation reads its bytes one at a time, this one first,
\* and battle_menu_current is a copy of it.
ReadMenuActive(byte) ==
    /\ pc = "menu_active"
    /\ obs' = [obs EXCEPT !.menu_active = byte]
    /\ pc' = "menu_l0"
    /\ UNCHANGED <<state, teleop_command, since, second, logVars, keyVars>>

ReadMenuL0(byte) ==
    /\ pc = "menu_l0"
    /\ obs' = [obs EXCEPT !.menu_l0 = byte]
    /\ pc' = "block"
    /\ UNCHANGED <<state, teleop_command, since, second, logVars, keyVars>>

----------------------------------------------------------------------------
(* One block of the if-chain for each state.  A block that moves to a later  *)
(* state falls through into that state's block in the same iteration; any    *)
(* other outcome ends the iteration, and with it what was read and received. *)

AtBlock(s) == pc = "block" /\ state = s

Leave(s) ==
    /\ state' = s
    /\ IF s > state
       THEN pc' = "block" /\ UNCHANGED <<teleop_command, obs>>
       ELSE pc' = "joystick" /\ teleop_command' = NoCommand /\ obs' = Unread

\* Keys are forwarded, and battle_init opens the logs.
StatePassthru ==
    /\ AtBlock(STATE_PASSTHRU)
    /\ Passthru(teleop_command.button)
    /\ IF teleop_command.battle_init = 1
       THEN LogfileInit(second) /\ Leave(STATE_BATTLE_INIT)
       ELSE UNCHANGED logVars /\ Leave(STATE_PASSTHRU)
    /\ UNCHANGED <<since, second>>

\* Mutant: A is tapped on every iteration.
InitTapNoGap ==
    \/ obs.menu_l0 = L0_WATCHING /\ KeyTap(ButtonB) /\ UNCHANGED since
    \/ obs.menu_l0 = L0_PRE_MENU /\ KeyTap(ButtonA) /\ since' = 0
    \/ /\ obs.menu_l0 \notin {L0_WATCHING, L0_PRE_MENU}
       /\ UNCHANGED <<since, keyVars>>

\* Mutant: the 200 ms are counted from the last look at the menu.
InitTapRestartsGap ==
    \/ obs.menu_l0 = L0_WATCHING /\ KeyTap(ButtonB) /\ UNCHANGED since
    \/ /\ obs.menu_l0 = L0_PRE_MENU
       /\ IF since > APressGap THEN KeyTap(ButtonA) ELSE UNCHANGED keyVars
       /\ since' = 0
    \/ /\ obs.menu_l0 \notin {L0_WATCHING, L0_PRE_MENU}
       /\ UNCHANGED <<since, keyVars>>

\* The keys the server taps to reach the first character's menu: B through
\* scrolling text, A out of the pre-menu but at most once in 200 ms.
InitTap ==
    \/ obs.menu_l0 = L0_WATCHING /\ KeyTap(ButtonB) /\ UNCHANGED since
    \/ /\ obs.menu_l0 = L0_PRE_MENU
       /\ since > APressGap
       /\ KeyTap(ButtonA)
       /\ since' = 0
    \/ /\ obs.menu_l0 # L0_WATCHING
       /\ obs.menu_l0 = L0_PRE_MENU => since <= APressGap
       /\ UNCHANGED <<since, keyVars>>

\* Mutant: the files are opened here, on every iteration of the state.
StateBattleInitOpens ==
    /\ AtBlock(STATE_BATTLE_INIT)
    /\ InitTap
    /\ LogfileInit(second)
    /\ Leave(IF obs.menu_l0 = L0_ACTIVE THEN STATE_BATTLE_CMD ELSE state)
    /\ UNCHANGED second

StateBattleInit ==
    /\ AtBlock(STATE_BATTLE_INIT)
    /\ InitTap
    /\ Leave(IF obs.menu_l0 = L0_ACTIVE THEN STATE_BATTLE_CMD ELSE state)
    /\ UNCHANGED <<second, logVars>>

\* Mutant: the records are written when the turn is over, whatever was pressed.
StateBattleCmdRecordsOnExit ==
    /\ AtBlock(STATE_BATTLE_CMD)
    /\ Passthru(teleop_command.button)
    /\ IF obs.menu_active = 0 THEN WritePair ELSE UNCHANGED logVars
    /\ Leave(IF obs.menu_active = 0 THEN STATE_BATTLE_WATCH ELSE state)
    /\ UNCHANGED <<since, second>>

\* The player commands: keys are forwarded, and a message that says a key was
\* pushed is recorded, until the game stops asking for input.
StateBattleCmd ==
    /\ AtBlock(STATE_BATTLE_CMD)
    /\ Passthru(teleop_command.button)
    /\ IF teleop_command.anything # 0 THEN WritePair ELSE UNCHANGED logVars
    /\ Leave(IF obs.menu_active = 0 THEN STATE_BATTLE_WATCH ELSE state)
    /\ UNCHANGED <<since, second>>

\* Mutants: the menu decides alone; the menu is compared with the wrong byte.
EnemiesDownMenuOnly == obs.menu_l0 = L0_ACTIVE
EnemiesDownPreMenu == obs.enemy_health = 0 /\ obs.menu_l0 = L0_PRE_MENU

EnemiesDown == obs.enemy_health = 0 /\ obs.menu_l0 = L0_ACTIVE

\* Mutant: the end of the battle goes straight back to passthrough.
StateBattleWatchSkipsEnd ==
    /\ AtBlock(STATE_BATTLE_WATCH)
    /\ KeyTap(ButtonB)
    /\ Leave(IF EnemiesDown THEN STATE_PASSTHRU
             ELSE IF obs.menu_active = 1 THEN STATE_BATTLE_INIT ELSE state)
    /\ UNCHANGED <<since, second, logVars>>

\* Mutant: the menu's return goes unnoticed.
StateBattleWatchNeverReturns ==
    /\ AtBlock(STATE_BATTLE_WATCH)
    /\ KeyTap(ButtonB)
    /\ Leave(IF EnemiesDown THEN STATE_BATTLE_END ELSE state)
    /\ UNCHANGED <<since, second, logVars>>

\* B is tapped before the outcome of the iteration is looked at; the second
\* if, all enemies down, overrides the first.
StateBattleWatch ==
    /\ AtBlock(STATE_BATTLE_WATCH)
    /\ KeyTap(ButtonB)
    /\ Leave(IF EnemiesDown THEN STATE_BATTLE_END
             ELSE IF obs.menu_active = 1 THEN STATE_BATTLE_INIT ELSE state)
    /\ UNCHANGED <<since, second, logVars>>

\* Mutant: the last pair of records is written but the files stay open.
StateBattleEndKeepsOpen ==
    /\ AtBlock(STATE_BATTLE_END)
    /\ WritePair
    /\ Leave(STATE_PASSTHRU)
    /\ UNCHANGED <<since, second, keyVars>>

StateBattleEnd ==
    /\ AtBlock(STATE_BATTLE_END)
    /\ WriteAndClose
    /\ Leave(STATE_PASSTHRU)
    /\ UNCHANGED <<since, second, keyVars>>

----------------------------------------------------------------------------
(* Failures and the rest of the world.                                       *)

Down ==
    /\ pc' = "down"
    /\ state' = STATE_PASSTHRU
    /\ teleop_command' = NoCommand
    /\ obs' = Unread
    /\ since' = 0

Writing ==
    \/ AtBlock(STATE_BATTLE_END)
    \/ AtBlock(STATE_BATTLE_CMD) /\ teleop_command.anything # 0

\* The process is killed, or an assert on a read of the game's memory fails.
Crash ==
    /\ pc # "down"
    /\ Down
    /\ LogLost(IF Writing THEN 1 ELSE 0)
    /\ UNCHANGED <<second, keyVars>>

\* logfile_close ends in assert(0) when chown fails, after that file's fclose.
CloseStateFails ==
    /\ AtBlock(STATE_BATTLE_END)
    /\ Down
    /\ WriteAndCloseState
    /\ UNCHANGED <<second, keyVars>>

\* The same for the action file, closed last: both files are already whole.
CloseActionFails ==
    /\ AtBlock(STATE_BATTLE_END)
    /\ Down
    /\ WriteAndClose
    /\ UNCHANGED <<second, keyVars>>

\* A new process; it sleeps for two seconds before its loop.  Keys the dead one
\* pressed stay down.
Restart ==
    /\ pc = "down"
    /\ second + 2 \in Seconds
    /\ second' = second + 2
    /\ pc' = "joystick"
    /\ UNCHANGED <<state, teleop_command, obs, since, logVars, keyVars>>

Tick ==
    /\ second + 1 \in Seconds
    /\ second' = second + 1
    /\ UNCHANGED <<serverVars, logVars, keyVars>>

Frame == EmulatorFrame /\ UNCHANGED <<serverVars, second, logVars>>

----------------------------------------------------------------------------
Sample ==
    \/ \E m \in Commands \cup {NoCommand}, d \in (1 - MaxClockBack)..MaxOverrun :
         Joystick(m, d)
    \/ \E health \in 0..1 : ReadUnits(health)
    \/ \E byte \in 0..2 : ReadMenuActive(byte)
    \/ \E byte \in {L0_ACTIVE, L0_PRE_MENU, L0_WATCHING, L0_OTHER} : ReadMenuL0(byte)

Blocks ==
    \/ StatePassthru
    \/ StateBattleInit
    \/ StateBattleCmd
    \/ StateBattleWatch
    \/ StateBattleEnd

Failures ==
    \/ Crash
    \/ CloseStateFails
    \/ CloseActionFails

Next == Sample \/ Blocks \/ Failures \/ Restart \/ Tick \/ Frame

Spec == Init /\ [][Next]_vars

----------------------------------------------------------------------------
(* What the server promises, whatever the player and the game do.            *)

\* The log files are open in every state but passthrough, and exactly the pair
\* of the current battle is open: the blocks of the battle states never write
\* to a closed FILE, and no pair of files is left behind unclosed.
LogsFollowState ==
    /\ log.open <=> state # STATE_PASSTHRU
    /\ \A s \in Seconds : disk[s].fate = "open" <=> log.open /\ log.name = s

\* The n-th state record and the n-th action record belong together: the two
\* files of a recording that is not torn hold equally many, whatever died or was
\* torn before, and those of a finished battle at least its last state.  A torn
\* recording may end in records without a partner.
PairsWhole ==
    /\ log.state = log.action
    /\ \A s \in Seconds :
         /\ disk[s].fate # "torn" => disk[s].state = disk[s].action
         /\ disk[s].fate = "complete" => disk[s].state > 0

\* The key taps of the automation leave no key down: a key goes down only in
\* the two states that forward the player's commands.
AutomationHoldsNoKey ==
    [][keysDown' \subseteq keysDown
         \/ AtBlock(STATE_PASSTHRU) \/ AtBlock(STATE_BATTLE_CMD)]_vars

\* The value of the abstract recording: two files that are not torn and differ
\* count as -1, of torn ones a reader has the records with a partner.
Pairs(r) == IF r.state = r.action THEN r.state ELSE -1
Matched(r) == IF r.state <= r.action THEN r.state ELSE r.action
Recorded ==
    [s \in Seconds |->
        [fate |-> disk[s].fate,
         pairs |-> IF log.open /\ log.name = s THEN Pairs(log)
                   ELSE IF disk[s].fate = "torn" THEN Matched(disk[s])
                   ELSE Pairs(disk[s])]]

Recording == INSTANCE BattleRecording WITH recording <- Recorded

\* The server keeps recordings of battles the way BattleRecording says.
ImplementsRecording == Recording!Spec

=============================================================================
