----------------------------- MODULE TeleopKeys -----------------------------
(* The way of a key from the player's hand to the emulator: the client       *)
(* (src/client_teleop.py) turns the key events of a frame into one message   *)
(* of changes, the message waits in a socket that keeps only the newest one  *)
(* (ZMQ_CONFLATE), and the server applies it to the X keyboard in the states *)
(* that forward keys.  What the server reads from the game is arbitrary.     *)
(*                                                                           *)
(* Messages carry changes, not the set of keys held, so a message that is    *)
(* overwritten or ignored leaves the two ends of the link in disagreement.   *)
EXTENDS TeleopServer

CONSTANTS
    InitKey,      \* pygame.K_t, which asks for the battle mode
    OtherKeys,    \* keys that are not in buttonlist
    PlayerKeys,   \* bound: the keys the player uses
    MaxClients    \* bound: clients started one after another

Keys == Buttons \cup {InitKey} \cup OtherKeys

ASSUME KeysAssumption ==
    /\ InitKey \notin Buttons
    /\ OtherKeys \cap (Buttons \cup {InitKey}) = {}
    /\ PlayerKeys \subseteq Keys
    /\ MaxClients \in Nat \ {0}

VARIABLES
    held,         \* the keys the player holds, as far as the client has seen
    frame,        \* the message the client fills, or NoMessage without a client
    clients,      \* how many clients there have been
    mailbox,      \* the message in the server's socket, or NoMessage
    undelivered,  \* history: buttons changed by a command not yet forwarded
    lost          \* history: buttons whose last change never reached X

clientVars == <<held, frame, clients>>
linkVars == <<mailbox, undelivered, lost>>
keysVars == <<vars, clientVars, linkVars>>

NoMessage == [none |-> TRUE]

Changed(m) == IF m = NoMessage THEN {} ELSE {b \in Buttons : m.button[b] # 0}

KeysTypeOK ==
    /\ TypeOK
    /\ held \subseteq PlayerKeys
    /\ frame \in TeleopCommand \cup {NoMessage}
    /\ clients \in 1..MaxClients
    /\ mailbox \in TeleopCommand \cup {NoMessage}
    /\ undelivered \subseteq Buttons
    /\ lost \subseteq Buttons

KeysInit ==
    /\ Init
    /\ held = {}
    /\ frame = NoCommand
    /\ clients = 1
    /\ mailbox = NoMessage
    /\ undelivered = {}
    /\ lost = {}

----------------------------------------------------------------------------
(* The client.                                                               *)

ClientRuns == frame # NoMessage

\* Mutant: the values of one frame's events add up, as encode_button's do.
MarkAdds(m, k, value) ==
    IF k = InitKey THEN [m EXCEPT !.battle_init = @ + value]
    ELSE IF k \in Buttons THEN [m EXCEPT !.button[k] = @ + value]
    ELSE m

\* The byte of key k in message m becomes value: 1 for a press, 2 for a release.
Mark(m, k, value) ==
    IF k = InitKey THEN [m EXCEPT !.battle_init = value]
    ELSE IF k \in Buttons THEN [m EXCEPT !.button[k] = value]
    ELSE m

\* KEYDOWN, of any key, also sets the message's last byte.
KeyDown(k) ==
    /\ ClientRuns
    /\ k \notin held
    /\ held' = held \cup {k}
    /\ frame' = [Mark(frame, k, 1) EXCEPT !.anything = 1]
    /\ UNCHANGED <<vars, clients, linkVars>>

\* KEYUP: of the events of one frame, the last one of a key wins.
KeyUp(k) ==
    /\ ClientRuns
    /\ k \in held
    /\ held' = held \ {k}
    /\ frame' = Mark(frame, k, 2)
    /\ UNCHANGED <<vars, clients, linkVars>>

\* socket.send, at the end of every frame, whether or not anything happened.
\* The socket of the server drops the message that was waiting in it.
SendFrame ==
    /\ ClientRuns
    /\ mailbox' = frame
    /\ lost' = lost \cup Changed(mailbox)
    /\ frame' = NoCommand
    /\ UNCHANGED <<vars, held, clients, undelivered>>

\* QUIT, after which the frame is still sent, or a kill: the client says nothing
\* of the keys that are held.  Bounds: the last client goes on, none ends where
\* MaxRecords stops the server, nor in a block, which does not look at the link.
ClientEnds(sent) ==
    /\ ClientRuns
    /\ clients < MaxClients
    /\ pc = "joystick" /\ log.state < MaxRecords
    /\ mailbox' = IF sent THEN frame ELSE mailbox
    /\ lost' = lost \cup (held \cap Buttons) \cup Changed(IF sent THEN mailbox ELSE frame)
    /\ held' = {}
    /\ frame' = NoMessage
    /\ UNCHANGED <<vars, clients, undelivered>>

\* A new client sees no KEYDOWN of a key that is held already.  Assumption: its
\* start takes longer than the server needs for the last message.
ClientStarts ==
    /\ ~ClientRuns
    /\ clients < MaxClients
    /\ mailbox = NoMessage
    /\ frame' = NoCommand
    /\ clients' = clients + 1
    /\ UNCHANGED <<vars, held, linkVars>>

----------------------------------------------------------------------------
(* The server.                                                               *)

\* Presses of a client that has ended since.
Orphaned(m) == {b \in Buttons : m.button[b] = 1} \ (held \cup Changed(frame))

\* The newest change of a key makes the earlier ones that were lost irrelevant.
Receive ==
    /\ mailbox # NoMessage
    /\ Joystick(mailbox, 1)
    /\ undelivered' = Changed(mailbox)
    /\ lost' = (lost \ Changed(mailbox)) \cup Orphaned(mailbox)
    /\ mailbox' = NoMessage
    /\ UNCHANGED clientVars

ReceiveNothing ==
    /\ mailbox = NoMessage
    /\ Joystick(NoCommand, 1)
    /\ UNCHANGED <<clientVars, linkVars>>

\* Bound: the bytes that choose between the blocks; others behave like these.
SampleGame ==
    /\ \/ ReadUnits(0)
       \/ \E byte \in 0..1 : ReadMenuActive(byte)
       \/ \E byte \in {L0_ACTIVE, L0_WATCHING} : ReadMenuL0(byte)
    /\ UNCHANGED <<clientVars, linkVars>>

Forward ==
    /\ StatePassthru \/ StateBattleCmd
    /\ undelivered' = {}
    /\ UNCHANGED <<clientVars, mailbox, lost>>

\* A block that forwards nothing: a command that ends here unforwarded is lost,
\* and so is the player's hold on a key that the server taps.
Automate ==
    /\ StateBattleInit \/ StateBattleWatch \/ StateBattleEnd
    /\ undelivered' = IF pc' = "joystick" THEN {} ELSE undelivered
    /\ lost' = lost \cup (undelivered \ undelivered') \cup (keysDown \ keysDown')
    /\ UNCHANGED <<clientVars, mailbox>>

KeysNext ==
    \/ \E k \in PlayerKeys : KeyDown(k) \/ KeyUp(k)
    \/ SendFrame
    \/ \E sent \in BOOLEAN : ClientEnds(sent)
    \/ ClientStarts
    \/ Receive
    \/ ReceiveNothing
    \/ SampleGame
    \/ Forward
    \/ Automate

KeysSpec == KeysInit /\ [][KeysNext]_keysVars

----------------------------------------------------------------------------
\* A key is down in the emulator exactly when the player holds it, but for the
\* keys with a change under way and those whose last change was overwritten in
\* the socket, ignored by a state that forwards nothing, or unsaid by a client
\* that ended.
KeysFollowPlayer ==
    \A b \in Buttons \ (lost \cup undelivered \cup Changed(frame) \cup Changed(mailbox)) :
        b \in keysDown <=> b \in held

\* Every press that reaches the game while commands are entered is recorded by
\* the same iteration: the client's "anything" byte never misses one.
ForwardedPressIsRecorded ==
    [][AtBlock(STATE_BATTLE_CMD) /\ keysDown' \ keysDown # {}
         => log'.state = log.state + 1]_keysVars

\* "passes commands 1:1": once nothing is under way and the player has let go
\* of every key, no key is down.
NoKeyStuck ==
    /\ state = STATE_PASSTHRU
    /\ pc = "joystick"
    /\ mailbox = NoMessage
    /\ frame = NoCommand
    /\ held = {}
    => keysDown = {}

\* "if any button was pressed then save both ACTION and STATE": what is saved
\* while commands are entered comes from a button that was pressed, the battle
\* key, which the server calls a button too, among them.
RecordsShowAPress ==
    [][AtBlock(STATE_BATTLE_CMD) /\ log'.state # log.state
         => \/ \E b \in Buttons : teleop_command.button[b] = 1
            \/ teleop_command.battle_init = 1]_keysVars

=============================================================================
