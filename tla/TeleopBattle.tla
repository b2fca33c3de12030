---------------------------- MODULE TeleopBattle ----------------------------
(* The server in a battle: TeleopServer composed with the game it watches    *)
(* and drives.  The game and the emulator are external code, known from the  *)
(* bytes the server reads (src/golden_sun.h, src/notes.md) and the taps it   *)
(* answers with.  The game runs frame by frame, between any two steps of the *)
(* server, so the reads of one iteration may belong to different moments and *)
(* a tap may arrive in another menu than the one it was meant for.           *)
EXTENDS TeleopServer

CONSTANTS
    PressA,       \* the player's commands: press A, the key that answers menus,
    AskBattle,    \* or ask for the battle mode
    AskPhases,    \* the phases of the game in which the player asks for it
    PhaseLoops,   \* loop iterations every phase of the game lasts
    MaxLag,       \* loop iterations within which the game acts on a tap
    MaxBattles,   \* bound: battles of a behaviour
    MaxMishaps    \* bound: crashes of the server and steps back of the clock

Phases == {"field", "intro", "premenu", "command", "resolve", "victory"}

ASSUME BattleAssumption ==
    /\ Commands = {PressA, AskBattle}
    /\ PressA.battle_init # 1
    /\ ButtonA # ButtonB
    /\ AskPhases \subseteq {"intro", "premenu", "command"}
    /\ PhaseLoops \in Nat \ {0, 1}
    /\ MaxLag \in Nat \ {0}
    /\ MaxLag <= APressGap
    /\ MaxBattles \in Nat \ {0}
    /\ MaxMishaps \in Nat

VARIABLES
    phase,        \* what the game is doing
    enemies,      \* 1 while an enemy in the game's memory has health left
    age,          \* iterations this phase has lasted, up to PhaseLoops
    lag,          \* iterations since the last frame
    answered,     \* whether the player has pressed A since the last frame
    battle,       \* history: battles begun
    logged,       \* history: the battle the logs were opened in, or -1
    fled,         \* history: a battle since then ended with enemies alive
    mishaps       \* crashes and clock steps so far

gameVars == <<phase, enemies, age, lag, answered, battle>>
historyVars == <<logged, fled, mishaps>>
battleVars == <<vars, gameVars, historyVars>>

\* The bytes the game shows in each phase.
MenuActive == IF phase \in {"premenu", "command"} THEN 1 ELSE 0
MenuL0 ==
    CASE phase \in {"field", "command"} -> L0_ACTIVE
      [] phase = "premenu" -> L0_PRE_MENU
      [] OTHER -> L0_WATCHING

BattleTypeOK ==
    /\ TypeOK
    /\ phase \in Phases
    /\ enemies \in 0..1
    /\ age \in 0..PhaseLoops
    /\ lag \in 0..MaxLag
    /\ answered \in BOOLEAN
    /\ battle \in 0..MaxBattles
    /\ logged \in -1..MaxBattles
    /\ fled \in BOOLEAN
    /\ mishaps \in 0..MaxMishaps

BattleInit ==
    /\ Init
    /\ phase = "field"
    /\ enemies = 0
    /\ age = 0
    /\ lag = 0
    /\ answered = FALSE
    /\ battle = 0
    /\ logged = -1
    /\ fled = FALSE
    /\ mishaps = 0

----------------------------------------------------------------------------
(* The game.                                                                 *)

Becomes(p, alive) == phase' = p /\ enemies' = alive /\ age' = 0

\* What a frame may do once the phase has lasted long enough.  A menu needs an
\* answer, the player's A or, out of the pre-menu, the server's; the player may
\* also go back from the menu of the first character.  The text of a victory
\* scrolls on at B.  A battle that is fled or lost leaves its enemies alive.
Advance ==
    /\ age = PhaseLoops
    /\ \/ /\ phase = "field"
          /\ battle < MaxBattles
          /\ Becomes("intro", 1)
          /\ battle' = battle + 1
       \/ /\ UNCHANGED battle
          /\ \/ phase = "intro" /\ Becomes("premenu", 1)
             \/ /\ phase = "premenu"
                /\ ButtonA \in tapped \/ answered
                /\ Becomes("command", 1)
             \/ /\ phase = "command"
                /\ answered
                /\ \E next \in {"resolve", "premenu"} : Becomes(next, 1)
             \/ /\ phase = "resolve"
                /\ \/ Becomes("premenu", 1)
                   \/ Becomes("victory", 0)
                   \/ Becomes("field", 1)
             \/ /\ phase = "victory"
                /\ ButtonB \in tapped
                /\ Becomes("field", 0)

\* The game does not ignore an answer it waits for; otherwise a phase may last.
MustAdvance ==
    /\ age = PhaseLoops
    /\ \/ phase = "premenu" /\ (ButtonA \in tapped \/ answered)
       \/ phase = "victory" /\ ButtonB \in tapped

GameFrame ==
    /\ Frame
    /\ lag' = 0
    /\ answered' = FALSE
    /\ Advance \/ (~MustAdvance /\ UNCHANGED <<phase, enemies, age, battle>>)
    /\ fled' = (fled \/ (phase = "resolve" /\ phase' = "field"))
    /\ UNCHANGED <<logged, mishaps>>

----------------------------------------------------------------------------
(* The server.                                                               *)

Mishap == mishaps < MaxMishaps /\ mishaps' = mishaps + 1

\* One loop period; the emulator is at most MaxLag of them behind.  The player
\* asks for the battle mode while no answer of his own is under way.  The wall
\* clock may be set back by b.
Period ==
    /\ lag < MaxLag
    /\ lag' = lag + 1
    /\ age' = IF age < PhaseLoops THEN age + 1 ELSE age
    /\ \E m \in Commands \cup {NoCommand} :
          /\ m = AskBattle => phase \in AskPhases /\ ~answered
          /\ \E b \in 0..MaxClockBack :
               /\ Joystick(m, 1 - b)
               /\ IF b = 0 THEN UNCHANGED mishaps ELSE Mishap
    /\ UNCHANGED <<phase, enemies, answered, battle, logged, fled>>

SampleGame ==
    /\ \/ ReadUnits(enemies)
       \/ ReadMenuActive(MenuActive)
       \/ ReadMenuL0(MenuL0)
    /\ UNCHANGED <<gameVars, historyVars>>

RunBlock ==
    /\ Blocks
    /\ answered' = \/ answered
                   \/ /\ state \in {STATE_PASSTHRU, STATE_BATTLE_CMD}
                      /\ teleop_command = PressA
    /\ logged' = IF log.open = log'.open THEN logged
                 ELSE IF log'.open THEN battle ELSE -1
    /\ fled' = (fled /\ log.open /\ log'.open)
    /\ UNCHANGED <<phase, enemies, age, lag, battle, mishaps>>

\* The server dies, for whatever reason, and someone may start it again.
ServerDies ==
    /\ Failures
    /\ Mishap
    /\ logged' = -1
    /\ fled' = FALSE
    /\ UNCHANGED gameVars

ServerRestarts == Restart /\ UNCHANGED <<gameVars, historyVars>>

ServerStep == Period \/ SampleGame \/ RunBlock

BattleNext == ServerStep \/ GameFrame \/ ServerDies \/ ServerRestarts

\* The loop of the server never ends, and the emulator keeps drawing frames.
BattleSpec ==
    /\ BattleInit
    /\ [][BattleNext]_battleVars
    /\ WF_battleVars(ServerStep)
    /\ WF_battleVars(GameFrame)

----------------------------------------------------------------------------
\* The server ends a battle only when every enemy in the game is down, although
\* it reads their health and the menu at different moments.
EndMeansEnemiesDown == state = STATE_BATTLE_END => enemies = 0

\* A recording never runs from one battle into the next, unless the player fled
\* or lost: no test of the server sees such an end.
OneBattlePerLog == (logged # -1 /\ ~fled) => battle = logged

\* A key tapped by the server never arrives in the menu of a character, where
\* it would be a command nobody gave.
NoUnaskedCommand == phase = "command" => tapped = {}

\* "automatically exit battle mode once all enemies have been detected
\* defeated": a won battle's recording is completed and the player gets the
\* controls back.
VictoryEndsRecording ==
    (phase = "victory" /\ log.open) ~> (state = STATE_PASSTHRU)

\* The automation takes the game from the pre-menu to the commands of the first
\* character, and then hands the player the keys, also when the clock is set back
\* on the way; a battle state is left for PASSTHRU from INIT by a crash only.
AutomationReachesCommands ==
    (phase = "premenu" /\ state = STATE_BATTLE_INIT) ~>
        (state \in {STATE_BATTLE_CMD, STATE_PASSTHRU})

\* While a battle is recorded, a menu that waits for input never waits for a
\* player whose keys are not forwarded: WATCH notices it, INIT opens it up, and
\* CMD hands the keys over.
Asking == phase \in {"premenu", "command"}
PlayerIsAsked ==
    (Asking /\ log.open) ~> (state = STATE_BATTLE_CMD \/ ~Asking \/ ~log.open)

=============================================================================
