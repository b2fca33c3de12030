-------------------------- MODULE TeleopKeysProofs --------------------------
(* A key of the emulator follows the player's hand for every set of keys,    *)
(* any number of clients and any behaviour of the game: the invariants of    *)
(* TeleopKeys and the recording of the presses.                              *)
EXTENDS TeleopKeys, TeleopServerProofs

\* What message m says of button b, if anything, is what the player does.
SaysHeld(m, b) == m.button[b] # 0 => (m.button[b] = 1 <=> b \in held)

\* The frame the client fills holds the last event of every key in it.
FrameAgrees ==
    \A b \in Changed(frame) : SaysHeld(frame, b)

\* The message in the socket is the last one sent: a release in it still holds,
\* and so does a press, unless the client ended without a word of it.
MailboxAgrees ==
    \A b \in Changed(mailbox) \ Changed(frame) :
        /\ mailbox.button[b] = 2 => b \notin held
        /\ b \notin lost => SaysHeld(mailbox, b)

\* The command of the iteration agrees with the player, forwarded or not, but
\* for the keys with a newer change under way.
CommandAgrees ==
    \A b \in Buttons \ (lost \cup Changed(frame) \cup Changed(mailbox)) :
        SaysHeld(teleop_command, b)

\* What is undelivered is part of the command, and no command outlives its
\* iteration.
Waiting ==
    /\ \A b \in undelivered : teleop_command.button[b] # 0
    /\ pc = "joystick" => teleop_command = NoCommand

\* A message with a press sets its last byte.
PressSaysAnything(m) == (\E b \in Buttons : m.button[b] = 1) => m.anything = 1

PressesSaid ==
    /\ frame # NoMessage => PressSaysAnything(frame)
    /\ mailbox # NoMessage => PressSaysAnything(mailbox)
    /\ PressSaysAnything(teleop_command)

Agreement == FrameAgrees /\ MailboxAgrees /\ CommandAgrees /\ Waiting /\ KeysFollowPlayer

KeysInv == IInv /\ KeysTypeOK /\ Agreement /\ PressesSaid

USE DEF STATE_PASSTHRU, STATE_BATTLE_INIT, STATE_BATTLE_CMD, STATE_BATTLE_WATCH,
        STATE_BATTLE_END

----------------------------------------------------------------------------
\* The buttons a message changes; the absence of a message changes none.
LEMMA ChangedButtons ==
    /\ NoMessage \notin TeleopCommand
    /\ \A m \in TeleopCommand : Changed(m) = {b \in Buttons : m.button[b] # 0}
    /\ Changed(NoMessage) = {}
    /\ NoCommand \in TeleopCommand /\ Changed(NoCommand) = {}
<1>1. NoMessage \notin TeleopCommand
  <2> SUFFICES ASSUME NoMessage \in TeleopCommand PROVE FALSE
    OBVIOUS
  <2>1. "button" \in DOMAIN NoMessage
    BY DEF TeleopCommand
  <2> QED
    BY <2>1 DEF NoMessage
<1>2. NoCommand \in TeleopCommand
  BY ConstantsTyped
<1> QED
  BY <1>1, <1>2 DEF Changed, NoCommand

\* An event sets the byte of its own button, and no other.
LEMMA MarkEffect ==
    ASSUME NEW m \in TeleopCommand, NEW k \in Keys, NEW value \in 1..2
    PROVE  /\ Mark(m, k, value) \in TeleopCommand
           /\ Mark(m, k, value).anything = m.anything
           /\ \A b \in Buttons :
                Mark(m, k, value).button[b] = IF b = k THEN value ELSE m.button[b]
<1>1. CASE k = InitKey
  BY <1>1, KeysAssumption DEF Mark, TeleopCommand
<1>2. CASE k # InitKey /\ k \in Buttons
  BY <1>2 DEF Mark, TeleopCommand
<1>3. CASE k # InitKey /\ k \notin Buttons
  BY <1>3 DEF Mark, TeleopCommand
<1> QED
  BY <1>1, <1>2, <1>3

\* What the client does leaves the server's invariant alone.
LEMMA ServerUntouched ==
    ASSUME IInv, UNCHANGED vars
    PROVE  IInv'
BY WorldInv

\* At the start nothing is held, down or under way.
LEMMA KeysInitInv == KeysInit => KeysInv
<1> SUFFICES ASSUME KeysInit PROVE KeysInv
  OBVIOUS
<1> USE ChangedButtons DEF KeysInit
<1>1. IInv
  BY InitInv
<1>2. KeysTypeOK
  BY <1>1, KeysAssumption DEF KeysTypeOK, IInv
<1>3. teleop_command = NoCommand /\ keysDown = {}
  BY DEF Init, ServerStart, KeyInit
<1>4. Agreement
  BY <1>3 DEF Agreement, FrameAgrees, MailboxAgrees, CommandAgrees, Waiting, KeysFollowPlayer,
              SaysHeld, NoCommand
<1>5. PressesSaid
  BY <1>3 DEF PressesSaid, PressSaysAnything, NoCommand
<1> QED
  BY <1>1, <1>2, <1>4, <1>5 DEF KeysInv

----------------------------------------------------------------------------
(* The client.                                                               *)

\* A key event is a change of one key in the hand and in the frame.
LEMMA KeyEventInv ==
    ASSUME KeysInv, ClientRuns, NEW k \in PlayerKeys, NEW value \in 1..2,
           held' = IF value = 1 THEN held \cup {k} ELSE held \ {k},
           frame' \in TeleopCommand,
           \A b \in Buttons : frame'.button[b] = IF b = k THEN value ELSE frame.button[b],
           PressSaysAnything(frame)',
           UNCHANGED <<vars, clients, linkVars>>
    PROVE  KeysInv'
<1> USE ChangedButtons DEF KeysInv
<1>1. frame \in TeleopCommand
  BY DEF ClientRuns, KeysTypeOK
<1>2. /\ UNCHANGED <<mailbox, undelivered, lost, clients>>
      /\ UNCHANGED <<pc, teleop_command, keysDown>>
  BY DEF vars, serverVars, keyVars, linkVars
<1>3. Changed(frame)' = Changed(frame) \cup (Buttons \cap {k})
  BY <1>1
<1>4. \A b \in Buttons \ {k} : b \in held' <=> b \in held
  OBVIOUS
<1>5. IInv'
  BY ServerUntouched
<1>6. KeysTypeOK'
  BY <1>2, <1>5 DEF KeysTypeOK, IInv
<1>7. FrameAgrees'
  BY <1>1, <1>3, <1>4 DEF Agreement, FrameAgrees, SaysHeld
<1>8. MailboxAgrees'
  BY <1>2, <1>3, <1>4 DEF Agreement, MailboxAgrees, SaysHeld, Changed
<1>9. CommandAgrees' /\ Waiting' /\ KeysFollowPlayer'
  BY <1>2, <1>3, <1>4 DEF Agreement, CommandAgrees, Waiting, KeysFollowPlayer, SaysHeld, Changed
<1>10. PressesSaid'
  BY <1>2 DEF PressesSaid, PressSaysAnything
<1> QED
  BY <1>5, <1>6, <1>7, <1>8, <1>9, <1>10 DEF Agreement

\* A key goes down, or up, in the player's hand.
LEMMA EventsInv ==
    ASSUME KeysInv, NEW k \in PlayerKeys, KeyDown(k) \/ KeyUp(k)
    PROVE  KeysInv'
<1>1. ClientRuns /\ frame \in TeleopCommand /\ k \in Keys
  BY KeysAssumption DEF KeyDown, KeyUp, ClientRuns, KeysInv, KeysTypeOK
<1>2. PressSaysAnything(frame)
  BY <1>1 DEF KeysInv, PressesSaid, ClientRuns
<1>3. CASE KeyDown(k)
  <2> DEFINE m == Mark(frame, k, 1)
  <2>1. /\ m \in TeleopCommand
        /\ \A b \in Buttons : m.button[b] = IF b = k THEN 1 ELSE frame.button[b]
    BY <1>1, MarkEffect
  <2>2. frame' = [m EXCEPT !.anything = 1]
    BY <1>3 DEF KeyDown
  <2> HIDE DEF m
  <2>3. /\ frame' \in TeleopCommand /\ frame'.button = m.button
        /\ frame'.anything = 1
    BY <2>1, <2>2 DEF TeleopCommand
  <2> QED
    BY <1>1, <1>3, <2>1, <2>3, KeyEventInv DEF KeyDown, PressSaysAnything
<1>4. CASE KeyUp(k)
  <2>1. /\ frame' \in TeleopCommand /\ frame'.anything = frame.anything
        /\ \A b \in Buttons : frame'.button[b] = IF b = k THEN 2 ELSE frame.button[b]
    BY <1>1, <1>4, MarkEffect DEF KeyUp
  <2>2. PressSaysAnything(frame)'
    BY <1>2, <2>1 DEF PressSaysAnything
  <2> QED
    BY <1>1, <1>4, <2>1, <2>2, KeyEventInv DEF KeyUp
<1> QED
  BY <1>3, <1>4

\* The frame takes the place of the message in the socket.
LEMMA SendFrameInv ==
    ASSUME KeysInv, SendFrame
    PROVE  KeysInv'
<1> USE ChangedButtons DEF KeysInv, SendFrame
<1>1. /\ frame \in TeleopCommand /\ mailbox' = frame /\ frame' = NoCommand
      /\ lost' = lost \cup Changed(mailbox)
      /\ UNCHANGED <<held, clients, undelivered, pc, teleop_command, keysDown>>
  BY DEF ClientRuns, KeysTypeOK, vars, serverVars, keyVars
<1>2. Changed(mailbox)' = Changed(frame) /\ Changed(frame)' = {}
  BY <1>1 DEF Changed
<1>3. IInv'
  BY ServerUntouched
<1>4. KeysTypeOK'
  BY <1>1, <1>3 DEF KeysTypeOK, IInv, Changed
<1>5. FrameAgrees' /\ MailboxAgrees'
  BY <1>1, <1>2 DEF Agreement, FrameAgrees, MailboxAgrees, SaysHeld
<1>6. CommandAgrees' /\ Waiting' /\ KeysFollowPlayer'
  BY <1>1, <1>2 DEF Agreement, CommandAgrees, Waiting, KeysFollowPlayer, SaysHeld
<1>7. PressesSaid'
  BY <1>1 DEF PressesSaid, PressSaysAnything, NoCommand
<1> QED
  BY <1>3, <1>4, <1>5, <1>6, <1>7 DEF Agreement

\* The client ends, with a last frame or without.
LEMMA ClientEndsInv ==
    ASSUME KeysInv, NEW sent \in BOOLEAN, ClientEnds(sent)
    PROVE  KeysInv'
<1> USE ChangedButtons DEF KeysInv, ClientEnds
<1>1. /\ frame \in TeleopCommand /\ frame' = NoMessage /\ held' = {}
      /\ lost \subseteq lost' /\ held \cap Buttons \subseteq lost'
      /\ UNCHANGED <<clients, undelivered, pc, teleop_command, keysDown>>
  BY DEF ClientRuns, KeysTypeOK, vars, serverVars, keyVars
<1>2. \/ mailbox' = frame /\ Changed(mailbox) \subseteq lost'
      \/ mailbox' = mailbox /\ Changed(frame) \subseteq lost'
  OBVIOUS
<1>3. /\ Changed(frame)' = {} /\ Changed(frame) \subseteq lost' \cup Changed(mailbox)'
      /\ Changed(mailbox) \subseteq lost' \cup Changed(mailbox)'
  BY <1>1, <1>2 DEF Changed
<1>4. IInv'
  BY ServerUntouched
<1>5. KeysTypeOK'
  <2>1. lost' \subseteq Buttons
    BY DEF KeysTypeOK, Changed
  <2> QED
    BY <1>1, <1>2, <1>4, <2>1 DEF KeysTypeOK, IInv
<1>6. FrameAgrees'
  BY <1>3 DEF FrameAgrees
<1>7. MailboxAgrees'
  <2> SUFFICES ASSUME NEW b \in Changed(mailbox)', b \notin lost'
               PROVE  SaysHeld(mailbox, b)'
    BY <1>1 DEF MailboxAgrees
  <2>1. CASE mailbox' = frame
    BY <1>1, <2>1 DEF Agreement, FrameAgrees, SaysHeld, Changed
  <2>2. CASE mailbox' = mailbox /\ Changed(frame) \subseteq lost'
    <3>1. b \in Changed(mailbox) \ Changed(frame) /\ b \in Buttons \ lost
      BY <1>1, <2>2 DEF Changed
    <3> QED
      BY <1>1, <2>2, <3>1 DEF Agreement, MailboxAgrees, SaysHeld
  <2> QED
    BY <1>2, <2>1, <2>2
<1>8. CommandAgrees' /\ Waiting' /\ KeysFollowPlayer'
  BY <1>1, <1>3 DEF Agreement, CommandAgrees, Waiting, KeysFollowPlayer, SaysHeld
<1>9. PressesSaid'
  <2>1. frame' = NoMessage /\ teleop_command' = teleop_command
    BY <1>1
  <2>2. mailbox' # NoMessage => PressSaysAnything(mailbox)'
    BY <1>1, <1>2 DEF PressesSaid, PressSaysAnything
  <2> QED
    BY <2>1, <2>2 DEF PressesSaid, PressSaysAnything
<1> QED
  BY <1>4, <1>5, <1>6, <1>7, <1>8, <1>9 DEF Agreement

\* A client starts with nothing in its hand, as it knows it.
LEMMA ClientStartsInv ==
    ASSUME KeysInv, ClientStarts
    PROVE  KeysInv'
<1> USE ChangedButtons DEF KeysInv, ClientStarts
<1>1. /\ frame = NoMessage /\ frame' = NoCommand /\ mailbox' = NoMessage
      /\ UNCHANGED <<held, mailbox, undelivered, lost, pc, teleop_command, keysDown>>
  BY DEF ClientRuns, linkVars, vars, serverVars, keyVars
<1>2. Changed(frame) = {} /\ Changed(frame)' = {} /\ Changed(mailbox)' = {} /\ Changed(mailbox) = {}
  BY <1>1 DEF Changed
<1>3. IInv'
  BY ServerUntouched
<1>4. clients' \in 1..MaxClients
  BY KeysAssumption DEF KeysTypeOK
<1>5. KeysTypeOK'
  BY <1>1, <1>3, <1>4 DEF KeysTypeOK, IInv
<1>6. Agreement'
  BY <1>1, <1>2 DEF Agreement, FrameAgrees, MailboxAgrees, CommandAgrees, Waiting,
                    KeysFollowPlayer, SaysHeld
<1>7. PressesSaid'
  BY <1>1 DEF PressesSaid, PressSaysAnything, NoCommand
<1> QED
  BY <1>3, <1>5, <1>6, <1>7

----------------------------------------------------------------------------
(* The server.                                                               *)

\* The loop takes the message: it is the command now.
LEMMA ReceiveInv ==
    ASSUME KeysInv, Receive
    PROVE  KeysInv'
<1> USE ServerAssumption, ChangedButtons DEF KeysInv, Receive
<1>1. /\ mailbox \in TeleopCommand /\ mailbox' = NoMessage
      /\ teleop_command' = mailbox /\ undelivered' = Changed(mailbox)
      /\ lost' = (lost \ Changed(mailbox)) \cup Orphaned(mailbox)
      /\ pc = "joystick" /\ pc' = "units"
      /\ UNCHANGED <<held, frame, clients, keysDown>>
  BY DEF KeysTypeOK, Joystick, keyVars, clientVars
<1>2. Changed(frame)' = Changed(frame) /\ Changed(mailbox)' = {}
  BY <1>1 DEF Changed
<1>3. IInv'
  <2>1. 1 \in (1 - MaxClockBack)..MaxOverrun
    OBVIOUS
  <2> QED
    BY <1>1, <2>1, JoystickInv
<1>4. KeysTypeOK'
  BY <1>1, <1>3 DEF KeysTypeOK, IInv, Orphaned, Changed
<1>5. FrameAgrees' /\ MailboxAgrees'
  BY <1>1, <1>2 DEF Agreement, FrameAgrees, MailboxAgrees, SaysHeld
<1>6. CommandAgrees'
  <2> SUFFICES ASSUME NEW b \in Buttons, b \notin lost', b \notin Changed(frame),
                      mailbox.button[b] # 0
               PROVE  mailbox.button[b] = 1 <=> b \in held
    BY <1>1, <1>2 DEF CommandAgrees, SaysHeld
  <2>1. b \in Changed(mailbox) \ Changed(frame)
    BY <1>1
  <2>2. ASSUME mailbox.button[b] = 1 PROVE b \in held
    BY <1>1, <2>1, <2>2 DEF Orphaned
  <2>3. ASSUME mailbox.button[b] # 1 PROVE b \notin held
    <3>1. mailbox.button[b] = 2
      BY <1>1, <2>3 DEF TeleopCommand
    <3> QED
      BY <2>1, <3>1 DEF Agreement, MailboxAgrees
  <2> QED
    BY <2>2, <2>3
<1>7. Waiting'
  BY <1>1 DEF Waiting
<1>8. KeysFollowPlayer'
  <2>1. undelivered = {}
    BY <1>1 DEF Agreement, Waiting, KeysTypeOK, NoCommand
  <2> QED
    BY <1>1, <1>2, <2>1 DEF Agreement, KeysFollowPlayer
<1>9. PressesSaid'
  BY <1>1 DEF PressesSaid, PressSaysAnything
<1> QED
  BY <1>3, <1>4, <1>5, <1>6, <1>7, <1>8, <1>9 DEF Agreement

\* A loop without a message, and the reads of the game.
LEMMA NothingInv ==
    ASSUME KeysInv, ReceiveNothing \/ SampleGame
    PROVE  KeysInv'
<1> USE ServerAssumption, ChangedButtons DEF KeysInv
<1>1. /\ UNCHANGED <<held, frame, clients, mailbox, undelivered, lost, keysDown>>
      /\ pc' # "joystick"
      /\ \/ pc = "joystick" /\ teleop_command' = NoCommand
         \/ teleop_command' = teleop_command
  BY DEF ReceiveNothing, SampleGame, Joystick, ReadUnits, ReadMenuActive, ReadMenuL0,
         keyVars, clientVars, linkVars
<1>2. Changed(frame)' = Changed(frame) /\ Changed(mailbox)' = Changed(mailbox)
  BY <1>1 DEF Changed
<1>3. IInv'
  <2>1. CASE ReceiveNothing
    <3>1. 1 \in (1 - MaxClockBack)..MaxOverrun
      OBVIOUS
    <3> QED
      BY <2>1, <3>1, JoystickInv DEF ReceiveNothing
  <2>2. CASE SampleGame
    <3>1. 0 \in 0..1 /\ 0 \in 0..2 /\ (\A byte \in 0..1 : byte \in 0..2)
          /\ L0_ACTIVE \in {L0_ACTIVE, L0_PRE_MENU, L0_WATCHING, L0_OTHER}
          /\ L0_WATCHING \in {L0_ACTIVE, L0_PRE_MENU, L0_WATCHING, L0_OTHER}
      OBVIOUS
    <3>2. PICK active \in 0..2, l0 \in {L0_ACTIVE, L0_PRE_MENU, L0_WATCHING, L0_OTHER} :
            ReadUnits(0) \/ ReadMenuActive(active) \/ ReadMenuL0(l0)
      BY <2>2, <3>1, Zenon DEF SampleGame
    <3> QED
      BY <3>1, <3>2, ReadInv
  <2> QED
    BY <2>1, <2>2
<1>4. KeysTypeOK'
  BY <1>1, <1>3 DEF KeysTypeOK, IInv
<1>5. FrameAgrees' /\ MailboxAgrees' /\ KeysFollowPlayer'
  BY <1>1, <1>2 DEF Agreement, FrameAgrees, MailboxAgrees, KeysFollowPlayer, SaysHeld
<1>6. CommandAgrees' /\ Waiting'
  BY <1>1, <1>2 DEF Agreement, CommandAgrees, Waiting, SaysHeld, NoCommand
<1>7. PressesSaid'
  BY <1>1 DEF PressesSaid, PressSaysAnything, NoCommand
<1> QED
  BY <1>3, <1>4, <1>5, <1>6, <1>7 DEF Agreement

\* A block that ends the iteration drops the command; one that falls through
\* keeps it.
LEMMA LeaveCommand ==
    ASSUME NEW s, Leave(s)
    PROVE  \/ pc' = "block" /\ teleop_command' = teleop_command
           \/ pc' = "joystick" /\ teleop_command' = NoCommand
BY DEF Leave

\* A block that forwards the command brings the keys up to date with it.
LEMMA ForwardInv ==
    ASSUME KeysInv, Forward
    PROVE  KeysInv'
<1> USE ChangedButtons DEF KeysInv, Forward
<1>1. \/ pc' = "block" /\ teleop_command' = teleop_command
      \/ pc' = "joystick" /\ teleop_command' = NoCommand
  BY LeaveCommand DEF StatePassthru, StateBattleCmd
<1>2. /\ UNCHANGED <<held, frame, clients, mailbox, lost>>
      /\ undelivered' = {}
      /\ keysDown' = (keysDown \cup {b \in Buttons : teleop_command.button[b] = 1})
                         \ {b \in Buttons : teleop_command.button[b] = 2}
  BY DEF clientVars, StatePassthru, StateBattleCmd, Passthru
<1>3. Changed(frame)' = Changed(frame) /\ Changed(mailbox)' = Changed(mailbox)
  BY <1>2 DEF Changed
<1>4. IInv'
  BY BlocksInv DEF Blocks
<1>5. KeysTypeOK'
  BY <1>2, <1>4 DEF KeysTypeOK, IInv
<1>6. FrameAgrees' /\ MailboxAgrees'
  BY <1>2, <1>3 DEF Agreement, FrameAgrees, MailboxAgrees, SaysHeld
<1>7. CommandAgrees' /\ Waiting'
  BY <1>1, <1>2, <1>3 DEF Agreement, CommandAgrees, Waiting, SaysHeld, NoCommand
<1>8. KeysFollowPlayer'
  <2> SUFFICES ASSUME NEW b \in Buttons \ (lost \cup Changed(frame) \cup Changed(mailbox))
               PROVE  b \in keysDown' <=> b \in held
    BY <1>2, <1>3 DEF KeysFollowPlayer
  <2>1. teleop_command.button[b] \in 0..2
    BY DEF KeysTypeOK, TypeOK, TeleopCommand
  <2>2. CASE teleop_command.button[b] = 0
    BY <1>2, <2>2 DEF Agreement, KeysFollowPlayer, Waiting
  <2>3. CASE teleop_command.button[b] # 0
    BY <1>2, <2>1, <2>3 DEF Agreement, CommandAgrees, SaysHeld
  <2> QED
    BY <2>2, <2>3
<1>9. PressesSaid'
  BY <1>1, <1>2 DEF PressesSaid, PressSaysAnything, NoCommand
<1> QED
  BY <1>4, <1>5, <1>6, <1>7, <1>8, <1>9 DEF Agreement

\* A block that forwards nothing releases the key it taps, at most.
LEMMA AutomateInv ==
    ASSUME KeysInv, Automate
    PROVE  KeysInv'
<1> USE ChangedButtons DEF KeysInv, Automate
<1>1. \/ pc' = "block" /\ teleop_command' = teleop_command
      \/ pc' = "joystick" /\ teleop_command' = NoCommand
  BY LeaveCommand DEF StateBattleInit, StateBattleWatch, StateBattleEnd
<1>2. keysDown' \subseteq keysDown
  BY DEF StateBattleInit, StateBattleWatch, StateBattleEnd, InitTap, KeyTap, keyVars
<1>3. /\ UNCHANGED <<held, frame, clients, mailbox>>
      /\ undelivered' = IF pc' = "joystick" THEN {} ELSE undelivered
      /\ lost' = lost \cup (undelivered \ undelivered') \cup (keysDown \ keysDown')
  BY DEF clientVars
<1>4. Changed(frame)' = Changed(frame) /\ Changed(mailbox)' = Changed(mailbox)
  BY <1>3 DEF Changed
<1>5. IInv'
  BY BlocksInv DEF Blocks
<1>6. KeysTypeOK'
  <2>1. keysDown \subseteq Buttons
    BY DEF KeysTypeOK, TypeOK, KeyTypeOK
  <2> QED
    BY <1>3, <1>5, <2>1 DEF KeysTypeOK, IInv
<1>7. FrameAgrees' /\ MailboxAgrees'
  BY <1>3, <1>4 DEF Agreement, FrameAgrees, MailboxAgrees, SaysHeld
<1>8. CommandAgrees' /\ Waiting'
  BY <1>1, <1>3, <1>4 DEF Agreement, CommandAgrees, Waiting, SaysHeld, NoCommand
<1>9. KeysFollowPlayer'
  BY <1>2, <1>3, <1>4 DEF Agreement, KeysFollowPlayer
<1>10. PressesSaid'
  BY <1>1, <1>3 DEF PressesSaid, PressSaysAnything, NoCommand
<1> QED
  BY <1>5, <1>6, <1>7, <1>8, <1>9, <1>10 DEF Agreement

----------------------------------------------------------------------------
\* The inductive invariant of the way of a key.
THEOREM KeysInvariance == KeysSpec => []KeysInv
<1>1. KeysInv /\ [KeysNext]_keysVars => KeysInv'
  <2> SUFFICES ASSUME KeysInv, [KeysNext]_keysVars PROVE KeysInv'
    OBVIOUS
  <2>1. CASE UNCHANGED keysVars
    <3>1. /\ UNCHANGED vars /\ UNCHANGED <<held, frame, clients, mailbox, undelivered, lost>>
          /\ UNCHANGED <<pc, teleop_command, keysDown>>
      BY <2>1 DEF keysVars, clientVars, linkVars, vars, serverVars, keyVars
    <3>2. IInv'
      BY <3>1, ServerUntouched DEF KeysInv
    <3>3. KeysTypeOK'
      BY <3>1, <3>2 DEF KeysInv, KeysTypeOK, IInv
    <3>4. Agreement' /\ PressesSaid'
      BY <3>1 DEF KeysInv, Agreement, FrameAgrees, MailboxAgrees, CommandAgrees, Waiting,
                  KeysFollowPlayer, SaysHeld, Changed, PressesSaid, PressSaysAnything
    <3> QED
      BY <3>2, <3>3, <3>4 DEF KeysInv
  <2>2. CASE KeysNext
    BY <2>2, EventsInv, SendFrameInv, ClientEndsInv, ClientStartsInv, ReceiveInv, NothingInv,
       ForwardInv, AutomateInv
       DEF KeysNext
  <2> QED
    BY <2>1, <2>2
<1> QED
  BY KeysInitInv, <1>1, PTL DEF KeysSpec

\* Every variable of the client, the link and the server keeps its type.
THEOREM KeysTypeCorrect == KeysSpec => []KeysTypeOK
<1>1. KeysInv => KeysTypeOK
  BY DEF KeysInv
<1> QED
  BY KeysInvariance, <1>1, PTL

\* A key is down in the emulator exactly when the player holds it, but for
\* changes that are under way or lost.
THEOREM KeysFollowPlayerCorrect == KeysSpec => []KeysFollowPlayer
<1>1. KeysInv => KeysFollowPlayer
  BY DEF KeysInv, Agreement
<1> QED
  BY KeysInvariance, <1>1, PTL

\* The iteration that forwards a press while commands are entered records it.
THEOREM ForwardedPressIsRecordedCorrect == KeysSpec => ForwardedPressIsRecorded
<1> DEFINE PressRecorded == AtBlock(STATE_BATTLE_CMD) /\ keysDown' \ keysDown # {}
                               => log'.state = log.state + 1
<1>1. KeysInv /\ [KeysNext]_keysVars => [PressRecorded]_keysVars
  <2> SUFFICES ASSUME KeysInv, KeysNext, AtBlock(STATE_BATTLE_CMD), keysDown' \ keysDown # {}
               PROVE  log'.state = log.state + 1
    OBVIOUS
  <2>1. Forward
    BY DEF KeysNext, KeyDown, KeyUp, SendFrame, ClientEnds, ClientStarts, Receive,
           ReceiveNothing, SampleGame, Joystick, ReadUnits, ReadMenuActive, ReadMenuL0,
           Automate, StateBattleInit, StateBattleWatch, StateBattleEnd, AtBlock, vars, keyVars
  <2>2. StateBattleCmd
    BY <2>1 DEF Forward, StatePassthru, AtBlock
  <2>3. \E b \in Buttons : teleop_command.button[b] = 1
    BY <2>2 DEF StateBattleCmd, Passthru
  <2>4. WritePair
    BY <2>2, <2>3 DEF StateBattleCmd, KeysInv, PressesSaid, PressSaysAnything
  <2> QED
    BY <2>4, MaxRecordsAssumption DEF WritePair, KeysInv, KeysTypeOK, TypeOK, LogTypeOK
<1> QED
  BY KeysInvariance, <1>1, PTL DEF KeysSpec, ForwardedPressIsRecorded

=============================================================================
