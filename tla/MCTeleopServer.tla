-------------------------- MODULE MCTeleopServer --------------------------
(* TeleopServer for TLC: two keys, and the commands of a client that presses *)
(* A or B, releases A, enters the battle mode, or pushes an unmapped key.    *)
EXTENDS TeleopServer

Command(button, value, init, any) ==
    [button |-> [b \in Buttons |-> IF b = button THEN value ELSE 0],
     battle_init |-> init, anything |-> any]

MCCommands ==
    {Command(ButtonA, 1, 0, 1), Command(ButtonA, 2, 0, 0),
     Command(ButtonB, 1, 0, 1), Command(ButtonA, 0, 1, 1), Command(ButtonA, 0, 0, 1)}

MCSeconds == 0..2

=============================================================================
