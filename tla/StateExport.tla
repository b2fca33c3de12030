----------------------------- MODULE StateExport ----------------------------
(* The state records of src/server_teleop.c and the table of src/oneshot.c:  *)
(* a program attaches to the emulator, copies the enemies' Units, and either *)
(* exports them with the allies, in party order, into a record, or prints    *)
(* which element the enemies resist least.  The game goes on meanwhile.      *)
EXTENDS Attach, UnitLayout, FiniteSets, FiniteSetsExt

CONSTANTS
    NAllies,        \* ALLIES
    NEnemies,       \* ENEMIES_MAX
    NElements,      \* ELEMENTS
    Monsters,       \* [health, resistance]: what an enemy's Unit may start as
    UINT32,         \* values of uint32_t: 2^32
    WEAKNESS_START  \* the first weakness_min, 99999999

Positions == 0..(NAllies - 1)
Slots == 0..(NEnemies - 1)
Elements == 0..(NElements - 1)

\* No sum reaches a bound.
ASSUME ExportAssumption ==
    /\ {NAllies, NEnemies, NElements, UINT32, WEAKNESS_START} \subseteq Nat \ {0}
    /\ \A m \in Monsters :
         /\ m.health \in Nat \ {0}
         /\ m.resistance \in [Elements -> Nat]
         /\ NEnemies * m.health < UINT32
         /\ \A e \in Elements : NEnemies * m.health * m.resistance[e] < WEAKNESS_START
    /\ WEAKNESS_START < UINT32

VARIABLES
    order,          \* game: the character at each position of the party
    enemies,        \* game: the enemies' Units
    battle,         \* game: whether one is fought
    enemies_raw,    \* the program's copy of the enemies' Units
    observation     \* the record: allies, as characters, and enemies

gameVars == <<order, enemies, battle>>
exportVars == <<enemies_raw, observation>>
vars == <<attachVars, gameVars, exportVars>>

EnemyUnit == [monster : Monsters, health : Nat, status : 0..1]
Parties == {o \in [Positions -> Positions] : \A i, j \in Positions :
                                               o[i] = o[j] => i = j}
NoRecord == [allies |-> <<>>, enemies |-> <<>>]

StateTypeOK ==
    /\ pc \in {"find_pid", "maps", "pointer", "units", "allies", "export",
               "record", "end_record", "display", "exit", "trapped", "aborted"}
    /\ order \in Parties
    /\ \A s \in Slots : /\ enemies[s] \in EnemyUnit
                        /\ enemies[s].health <= enemies[s].monster.health
    /\ observation.allies \in Seq(Positions)
    /\ Len(observation.allies) <= NAllies
    /\ \A type \in {BOARD, CHIP} : ptr[type] \in Memory /\ ptr[type].type = type

Init ==
    /\ AttachInit
    /\ order \in Parties
    /\ \E m \in Monsters :
         enemies = [s \in Slots |-> [monster |-> m, health |-> 0, status |-> 0]]
    /\ battle = FALSE
    /\ enemies_raw = <<>> /\ observation = NoRecord

----------------------------------------------------------------------------
(* The game, outside of the repository.                                      *)

\* Bound: what it does before the first read and after the last is left out.
Game ==
    /\ running
    /\ pc \in {"units", "allies", "export", "record", "end_record", "display"}
    /\ UNCHANGED <<attachVars, exportVars>>

\* The party is put into another order in a menu, never in a battle.
Reorder ==
    /\ Game
    /\ ~battle
    /\ order' \in Parties \ {order}
    /\ UNCHANGED <<enemies, battle>>

\* A battle uses the first slots; the others keep what an earlier one left.
BattleBegins(n) ==
    /\ Game
    /\ ~battle
    /\ battle' = TRUE
    /\ \E troop \in [0..(n - 1) -> Monsters] :
         enemies' = [s \in Slots |->
           IF s < n
           THEN [monster |-> troop[s], health |-> troop[s].health, status |-> 1]
           ELSE [enemies[s] EXCEPT !.status = 0]]
    /\ UNCHANGED order

Hit(s) ==
    /\ Game
    /\ battle
    /\ enemies[s].status = 1
    /\ \E h \in 0..(enemies[s].health - 1) :
         enemies' = [enemies EXCEPT ![s] =
           [monster |-> @.monster, health |-> h, status |-> IF h = 0 THEN 0 ELSE 1]]
    /\ UNCHANGED <<order, battle>>

\* Won, lost or fled.
BattleEnds ==
    /\ Game
    /\ battle
    /\ battle' = FALSE
    /\ UNCHANGED <<order, enemies>>

GameStep ==
    \/ Reorder
    \/ \E n \in 1..NEnemies : BattleBegins(n)
    \/ \E s \in Slots : Hit(s)
    \/ BattleEnds

----------------------------------------------------------------------------
(* The program.                                                              *)

Program(from) == pc = from /\ UNCHANGED <<emulatorVars, gameVars>>

Fail == Abort /\ UNCHANGED exportVars

\* get_unit_data, of the enemies: one read.
get_unit_data ==
    /\ Program("units")
    /\ IF Readable(BOARD)
       THEN /\ enemies_raw' = enemies
            /\ pc' \in {"allies", "display"}
            /\ UNCHANGED <<programVars, observation>>
       ELSE Fail

party_order_to_character_id(position) == order[position]

\* export_copy_allies: the order is read again for every position.
CopyAlly ==
    /\ Program("allies")
    /\ IF Readable(BOARD)
       THEN /\ observation' = [observation EXCEPT !.allies =
                 Append(@, party_order_to_character_id(Len(@)))]
            /\ pc' = IF Len(observation'.allies) = NAllies THEN "export" ELSE "allies"
            /\ UNCHANGED <<programVars, enemies_raw>>
       ELSE Fail

export_copy_enemies ==
    [s \in Slots |-> [health |-> enemies_raw[s].health,
                      status |-> enemies_raw[s].status]]

\* Mutant: the last enemy is not counted.
HealthOfOthers(units) ==
    SumFunctionOnSet([s \in Slots |-> units[s].health],
                     {s \in Slots : s + 1 \in Slots /\ units[s].status > 0})

health_total(units) ==
    SumFunctionOnSet([s \in Slots |-> units[s].health],
                     {s \in Slots : units[s].status > 0}) % UINT32

\* The pass ends with a record or without; the last record of a battle is written
\* when health_total is 0.
Export ==
    /\ Program("export")
    /\ \/ pc' = "units" /\ observation' = NoRecord
       \/ /\ \/ pc' = "record"
             \/ health_total(enemies_raw) = 0 /\ pc' = "end_record"
          /\ observation' = [observation EXCEPT !.enemies = export_copy_enemies]
    /\ enemies_raw' = <<>>
    /\ UNCHANGED programVars

Written ==
    /\ Program("record") \/ Program("end_record")
    /\ pc' = "units"
    /\ observation' = NoRecord
    /\ UNCHANGED <<programVars, enemies_raw>>

WeightedResistance(e) ==
    [s \in Slots |-> enemies_raw[s].health * enemies_raw[s].monster.resistance[e]]

\* oneshot's table: an entry without health is passed over, but not one whose
\* status says that it is not in this battle.
weakness(e) ==
    SumFunctionOnSet(WeightedResistance(e), {s \in Slots : enemies_raw[s].health # 0})
      % UINT32

weakness_min == Min({weakness(e) : e \in Elements} \cup {WEAKNESS_START})

\* Mutant: the table is printed for any enemies.
PrintsAlways == TRUE
PrintsWeakness == health_total(enemies_raw) > 0

\* A division by zero ends the process with a signal.
Display ==
    /\ Program("display")
    /\ pc' = IF PrintsWeakness /\ weakness_min = 0 THEN "trapped" ELSE "exit"
    /\ UNCHANGED <<programVars, exportVars>>

ProgramStep ==
    \/ FindGame /\ UNCHANGED <<gameVars, exportVars>>
    \/ get_unit_data
    \/ CopyAlly
    \/ Export
    \/ Written
    \/ Display

Next ==
    \/ EmulatorStep /\ UNCHANGED <<gameVars, exportVars>>
    \/ GameStep
    \/ ProgramStep

Spec == Init /\ [][Next]_vars

----------------------------------------------------------------------------
\* A program that gets past its search holds the two pointers of one emulator,
\* from the mapping above its heap, and none of a process that is gone; one that
\* has read anything holds them whole, although only four bytes are kept.
FoundIsWram ==
    pc \notin {"find_pid", "maps", "pointer", "aborted"} =>
        /\ \A type \in {BOARD, CHIP} : ptr[type] = [id |-> pid, type |-> type, high |-> 0]
        /\ pc # "units" \/ observation # NoRecord => emulator.high = 0

\* The copied runs of bytes put every field of Unit in its place in a record, no
\* byte of which is left unwritten or written beyond, and a Unit has the size
\* that oneshot asserts.
RecordFieldsFit ==
    observation # NoRecord => AlliesFit /\ EnemiesFit /\ SizeOf(Unit) = 332

\* "battle is over, record state one more time": the last record shows no enemy
\* with health who is in the battle, whatever the game has done since.
EndRecordShowsAllDown ==
    pc = "end_record" =>
        \A s \in Slots : \/ observation.enemies[s].health = 0
                         \/ observation.enemies[s].status = 0

\* oneshot divides by the least weakness, and no resistance is checked: it ends
\* with a signal exactly when an enemy in the battle has health and some element
\* is not resisted by any enemy with health, those an earlier battle has left
\* included; a troop that is down has no weakness either, but gets no table.
TrapsOnImmunity ==
    LET Healthy == {s \in Slots : enemies_raw[s].health # 0}
        Immune(e) == \A s \in Healthy : enemies_raw[s].monster.resistance[e] = 0
    IN  pc \in {"exit", "trapped"} =>
          (pc = "trapped" <=> /\ \E s \in Healthy : enemies_raw[s].status > 0
                              /\ \E e \in Elements : Immune(e))

=============================================================================
