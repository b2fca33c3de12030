--------------------------- MODULE MCTeleopBattle ---------------------------
(* TeleopBattle for TLC: a player who uses A and the battle key.             *)
EXTENDS TeleopBattle

Command(a, init, any) ==
    [button |-> [b \in Buttons |-> IF b = ButtonA THEN a ELSE 0],
     battle_init |-> init, anything |-> any]

MCPressA == Command(1, 0, 1)
MCAskBattle == Command(0, 1, 1)
MCCommands == {MCPressA, MCAskBattle}
MCSeconds == {0, 2}

=============================================================================
