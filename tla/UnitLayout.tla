----------------------------- MODULE UnitLayout -----------------------------
(* The packed structures of src/golden_sun.h and src/golden_sun_utils.h, and *)
(* the runs of bytes that export_copy_allies_single and                      *)
(* export_copy_enemies_single copy from the game's Unit into those a record  *)
(* holds.  A structure is the sequence of its fields with their sizes.       *)
EXTENDS Integers, Sequences

Stats(max) ==
    <<<<"attack_" \o max, 2>>, <<"defense_" \o max, 2>>, <<"agility_" \o max, 2>>,
      <<"luck_" \o max, 1>>>>
Health(max) ==
    <<<<"health_" \o max, 2>>, <<"pp_" \o max, 2>>>>

\* From class on, up to what Unit documents and the exports call unknown8.
BattleStatus ==
    <<<<"class", 1>>, <<"battle_status", 1>>, <<"defending", 1>>,
      <<"boost_power", 4>>, <<"cursed_item", 1>>, <<"poisoned", 1>>,
      <<"boost_attack_duration", 1>>, <<"boost_attack", 1>>,
      <<"boost_defense_duration", 1>>, <<"boost_defense", 1>>,
      <<"boost_resistance_duration", 1>>, <<"boost_resistance", 1>>,
      <<"delusion_duration", 1>>, <<"unknown7", 1>>, <<"stunned", 2>>,
      <<"psyseal_duration", 1>>, <<"psyseal", 1>>>>
StatusEnd ==
    <<<<"evil_spirit", 1>>, <<"premonition", 1>>, <<"unknown9", 2>>,
      <<"extra_moves", 1>>, <<"frozen", 1>>, <<"boost_agility_duration", 1>>,
      <<"boost_agility", 1>>>>

Unit ==
    <<<<"name", 15>>, <<"level", 1>>>> \o Health("base") \o <<<<"unknown1", 4>>>>
    \o Stats("base") \o <<<<"unknown2", 5>>, <<"elemental_base", 16>>>>
    \o Health("max") \o Health("current") \o Stats("max")
    \o <<<<"unknown3", 5>>, <<"elemental_max", 16>>, <<"psy", 128>>,
         <<"item", 30>>, <<"djinn_have", 16>>, <<"djinn_set", 16>>,
         <<"unknown4", 2>>, <<"djinn_qty_total", 4>>, <<"djinn_qty_set", 4>>,
         <<"unknown5", 4>>, <<"experience", 4>>, <<"unknown6", 1>>>>
    \o BattleStatus
    \o <<<<"regenerate_duration", 1>>, <<"reflect_duration", 1>>>>
    \o StatusEnd \o <<<<"unknown10", 4>>>>

ExportStats ==
    <<<<"level", 1>>>> \o Health("base") \o Stats("base")
    \o <<<<"elemental_base", 16>>>> \o Health("max") \o Health("current")
    \o Stats("max") \o <<<<"elemental_max", 16>>>>
ExportStatus == BattleStatus \o <<<<"unknown8", 2>>>> \o StatusEnd

ExportAlly == ExportStats \o <<<<"psy", 128>>>> \o ExportStatus
ExportEnemy == ExportStats \o ExportStatus

----------------------------------------------------------------------------
Names(S) == {S[i][1] : i \in DOMAIN S}

\* offsetof for every field, and sizeof as the offset of what would follow.
Before(S) ==
    LET before[i \in 1..(Len(S) + 1)] ==
          IF i = 1 THEN 0 ELSE before[i - 1] + S[i - 1][2]
    IN  before
SizeOf(S) == Before(S)[Len(S) + 1]
OffsetOf(S) ==
    [f \in Names(S) |-> Before(S)[CHOOSE i \in DOMAIN S : S[i][1] = f]]

UnitOffset == OffsetOf(Unit)
AllyOffset == OffsetOf(ExportAlly)
EnemyOffset == OffsetOf(ExportEnemy)

\* One memcpy: the bytes of Unit from one field up to another, to a place of the
\* export.
Run(offset, to, from, end) ==
    [to |-> offset[to], from |-> UnitOffset[from],
     length |-> UnitOffset[end] - UnitOffset[from]]

CopyRuns(offset, maxEnd) ==
    <<Run(offset, "level", "level", "unknown1"),
      Run(offset, "attack_base", "attack_base", "unknown2"),
      Run(offset, "elemental_base", "elemental_base", "unknown3"),
      Run(offset, "elemental_max", "elemental_max", maxEnd),
      Run(offset, "class", "class", "unknown10")>>

export_copy_allies_single == CopyRuns(AllyOffset, "item")

\* Mutant: an enemy's psyenergies are copied as an ally's are.
CopyEnemiesPsy == CopyRuns(EnemyOffset, "item")
export_copy_enemies_single == CopyRuns(EnemyOffset, "psy")

\* The byte of Unit that lies in byte b of the export after the copies, or -1.
SourceOf(runs, b) ==
    LET covers == {i \in DOMAIN runs :
                     b - runs[i].to \in 0..(runs[i].length - 1)}
    IN  IF covers = {} THEN -1
        ELSE LET run == runs[CHOOSE i \in covers : \A j \in covers : i >= j]
             IN  run.from + b - run.to

\* Every byte of the export is written and none behind it, and a field that both
\* structures name is the same field.
CopyFits(S, runs) ==
    LET offset == OffsetOf(S) IN
    /\ \A i \in DOMAIN runs : runs[i].to + runs[i].length <= SizeOf(S)
    /\ \A b \in 0..(SizeOf(S) - 1) : SourceOf(runs, b) # -1
    /\ \A i \in DOMAIN S :
         S[i][1] \in Names(Unit) =>
           \A k \in 0..(S[i][2] - 1) :
             SourceOf(runs, offset[S[i][1]] + k) = UnitOffset[S[i][1]] + k

AlliesFit == CopyFits(ExportAlly, export_copy_allies_single)
EnemiesFit == CopyFits(ExportEnemy, export_copy_enemies_single)

=============================================================================
