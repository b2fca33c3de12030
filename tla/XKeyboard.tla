----------------------------- MODULE XKeyboard -----------------------------
(* The keyboard of the X display as the emulator sees it (external code:     *)
(* libXtst and the emulator), driven by key_tap, key_press and key_release   *)
(* of src/server_teleop.c.                                                   *)
CONSTANTS Buttons     \* the ten keys of passthru's bmap

VARIABLES
    keysDown,         \* keys with a fake press and no later fake release
    tapped            \* keys tapped by the server since the last frame

keyVars == <<keysDown, tapped>>

KeyTypeOK == keysDown \subseteq Buttons /\ tapped \subseteq Buttons

KeyInit == keysDown = {} /\ tapped = {}

\* Mutant: the release is forgotten.
KeyTapHolds(b) ==
    /\ keysDown' = keysDown \cup {b}
    /\ tapped' = tapped \cup {b}

\* key_tap: press and release in one flush.  The release also ends a press the
\* player is still holding.
KeyTap(b) ==
    /\ keysDown' = keysDown \ {b}
    /\ tapped' = tapped \cup {b}

\* passthru: a press for every 1 of the command, a release for every 2.
Passthru(button) ==
    /\ keysDown' = (keysDown \cup {b \in Buttons : button[b] = 1})
                       \ {b \in Buttons : button[b] = 2}
    /\ UNCHANGED tapped

\* The emulator runs one frame and acts on the keys tapped before it.
EmulatorFrame ==
    /\ tapped' = {}
    /\ UNCHANGED keysDown

=============================================================================
