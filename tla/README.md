# Verification of the Golden Sun manipulation programs

The repository holds small programs that work on a running emulator
(mednafen, playing Golden Sun) from outside: they read and write the game's
memory with `process_vm_readv` / `process_vm_writev` and press keys through the
X server. This directory models the ones that act, checks the models with TLC
and proves part of what was checked with TLAPS.

## 1. The system

| Part | Source | State | Operations | Talks to |
|---|---|---|---|---|
| teleop server | `server_teleop.c` | `state`, `teleop_command`, `observation_space`, `last_a_press`, two `Logfile`s | one iteration per 30 ms: take a command, sample the game, run the blocks of the state machine | socket, game memory, X, disk |
| battle logs | `server_teleop.c` 125-178 | two stdio files for each battle | open, write a record, close and chown | disk |
| X output | `server_teleop.c` 27-112 | keys down in the X server | `key_tap`, `passthru` | emulator |
| teleop client | `client_teleop.py` | the events of one frame | one message of changes per frame | socket |
| loop timer | `loop_timer.c` | times of the last loop | wait for the rest of the period | clock |
| memory reading | `golden_sun_utils.c` 5-19, 126-213, 404-429 | none | one system call per read | game memory |
| djinn export | `golden_sun_utils.c` 76-80, 314-401 | `Export_Djinn_List` of each ally | search the bits, apply the recovery queue | game memory |
| state export | `golden_sun_utils.c` 21-68, 138-153 | packed copies | copy runs of fields, in party order | game memory |
| finding the game | `golden_sun_utils.c` 215-310 | pid and two pointers | `find_pid`, `find_wram` | `pidof`, `/proc/[pid]/maps`, emulator memory |
| randomizer, draws | `djinn_randomizer.c` 13-44, 102-136 | `djinn_pool`, `djinn_alloc` | `assign_djinn`, twelve times | `rand()` |
| randomizer, writer | `djinn_randomizer.c` 47-99 | `djinn_alloc`, flipped | four writes per ally | game memory |
| oneshot, hud | `oneshot.c`, `hud.sh` | none | read once, print | game memory |
| structures | `golden_sun.h`, `golden_sun_utils.h` | layouts and offsets | | |
| prototypes, tests | `keyboard_test.c`, `prototype_*` | none | experiments | |

The emulator is a process of its own that never waits for these programs.
Nothing is locked: every read is one moment of a game that goes on, every key is
handled some frames later, every write may be seen half done.

What is hard in it, and what makes each part correct:

* **State machine.** The server's blocks are a chain of `if`s, so one iteration
  may run several. Correct means: the logs are open exactly in the battle states,
  records come in pairs, the automation holds no key, and a battle's recording
  ends when the battle is won.
* **Game and server.** Health and menu bytes are read at different moments and
  taps arrive late. Correct means: a battle is ended only when it is over, no tap
  becomes a command, the player gets the keys when he is asked.
* **Link.** Messages are changes, and the socket forgets all but the last.
  Correct means: the emulator's keys follow the player's, and what is forwarded in
  command mode is recorded.
* **Records.** A program holds pointers into a process that may be gone, reads the
  party and the enemies at different moments, and moves bytes between structures
  with different gaps. Correct means: it reads the right memory or stops, a
  record has every field in its place, and the last one of a battle shows its end.
* **Timer.** The delay uses the wall clock, retries and an unsigned argument.
  Correct means: an iteration is neither cut short nor stretched.
* **Djinn.** The randomizer's searches must end and share out exactly; its
  writes and the export's reads meet in memory that has redundant parts.

The whole list of hazards, with lines, is in `PROJECT.json`.

## 2. Modules

| Module | Models | Uses |
|---|---|---|
| `BattleLog` | the pair of log files, and what a reader of the directory finds | |
| `XKeyboard` | keys down, and taps the emulator has not handled | |
| `TeleopServer` | the whole loop of the server, every command and every value read | `BattleLog`, `XKeyboard` |
| `BattleRecording` | abstract: what a user of the log directory is promised | |
| `TeleopKeys` | player, client, conflating socket, server | `TeleopServer` |
| `TeleopBattle` | the server and a game that runs beside it | `TeleopServer` |
| `DjinnRandomizer` | the draws | `DjinnMemory`, to say what a sharing is |
| `DjinnMemory` | the djinn in game memory, the game's moves, `write_djinn` | |
| `DjinnExport` | `get_unit_data` (djinn part) and `get_djinn` | `DjinnMemory` |
| `LoopTimer` | `loop_frequency_delay`, signals and the clock | |
| `UnitLayout` | the packed structures and the copies between them | |
| `Attach` | `find_pid`, `find_wram`, an emulator that exits and starts | |
| `StateExport` | records of the server and table of `oneshot`, from attaching on | `Attach`, `UnitLayout` |
| `TeleopServerProofs`, `TeleopKeysProofs`, `TeleopBattleProofs` | theorems of the server alone, with the player's link, with the game | the last two extend the first |
| `LoopTimerProofs`, `DjinnRandomizerProofs`, `DjinnExportProofs`, `StateExportProofs` | theorems of these modules, `DjinnMemory` included | the last two use `Recursions` |
| `Recursions` | lemmas on induction, sums over sets and joined sequences | |
| `MCTeleop*`, `MCStateExport` | constants for TLC | |

### TeleopServer

One iteration is `Joystick`, `ReadUnits`, `ReadMenuActive`, `ReadMenuL0` and then
the block of `state`: each is one system call's worth of reading, because the
world may move between them. `Leave(s)` is the fall-through: a move to a later
state stays at `pc = "block"` with the same data, any other outcome ends the
iteration. What was read and received is cleared there; nothing reads it again
(`joystick` overwrites or zeroes the command, every read overwrites its field).

The data are cut down to what the blocks test. `enemy_health` is 0 or 1,
`menu_active` is 0, 1 or 2 (2 is every other byte), `menu_l0` is one of the four
values the code or the header names or another, a record is its existence.
`since` counts loop periods since `last_a_press` by the wall clock: it saturates
behind the 200 ms, and a clock set back makes it smaller, even negative.

`Crash` is a kill, or the assert behind any read. stdio empties the buffer of each
file when that one is full, state records being far longer than action records, so
of a torn pair each file keeps any number of the records written to it, the one
under way included (`LogLost`). `CloseStateFails` is the chown of the state file, behind
its `fclose`: that file is whole, the other one is not. `CloseActionFails` is the chown
of the action file, when both are already closed. `Restart` is a new server, after
its two seconds of sleep; keys the dead one pressed stay down.

### BattleRecording and the refinement

The abstract view of the directory: for every second at most one recording, which
is begun, grows by whole pairs, and ends complete (with one more pair) or torn;
only a battle begun *in the same second* touches it again. The mapping `Recorded`
makes a recording of the two files of a second and gives -1 for a pair that is not
torn and whose files differ in length, so that the refinement includes the pairing.
Of a torn pair a reader has the records that have a partner (`Matched`): any number up
to the pairs written.

### TeleopKeys

The client's frame and the mailbox are one message each. `SendFrame` overwrites
the mailbox: that is `ZMQ_CONFLATE`. Two history variables hold the buttons whose
last change is under way and those whose last change was overwritten, ignored or
undone by the server; `KeysFollowPlayer` says that for all others the emulator
agrees with the player's hand. `ClientEnds` is the window's QUIT, behind which the
frame is still sent, or a kill; either says nothing of the keys that are held, and
the next client sees no press of them.

### TeleopBattle

The game (external, from `notes.md` and the comments in `golden_sun.h`) is a cycle
of phases: field, introduction text, pre-menu, command menu, resolution, and
victory text, with the menu bytes each of them shows. It advances in frames; the
server runs in loop periods; the two interleave freely, with the emulator at most
`MaxLag` periods behind. Taps wait in `tapped` until a frame handles them. A
mishap is a death of the server, of any of the kinds of `TeleopServer`, while the
game goes on, or the clock set back; a new server may be started, or not.

### LoopTimer

Times are relative: `wall` is the clock's distance from `last_loop_start_time`, `age`
that from `now`, so that an iteration starts at 0. A sleep ends with all
its time slept (and the process perhaps late), or is interrupted; `SetClock` moves
both distances. `useconds` is the conversion of a negative rest to `useconds_t`. The
properties compare the loop's idea of time with `real`, the time that has passed.

### Attach, UnitLayout and StateExport

`Attach` keeps of a maps file what `find_wram` depends on: which mapping a line
names, and whether `fgets` needs two calls for it (the buffer has 128 bytes). The
emulator's pointer has a lower and an upper half, since only four bytes are read
into `mem_adr`. A read fails, and the program aborts, when its process is gone or
the address is not one of its own.

`UnitLayout` lists the fields of `Unit`, `ExportAlly` and `ExportEnemy` with their
sizes; a `memcpy` is a run of bytes between computed offsets, and `CopyFits` looks up,
for every byte of an export, which byte of `Unit` is there at the end.

`StateExport` is one pass after the other: enemies, one read of the party order for
each position, the copies, and a record, the last record of a battle, or none;
or, as `oneshot`, the table of weaknesses with its division (`trapped` when it is by
zero). Allies are abstracted to their character
number, enemies to health, resistances and `battle_status`. The game reorders the
party outside of battles, fights, and leaves old Units in the slots it does not use.

### DjinnRandomizer

A bitfield is the set of its one bits. `rand()` is any value. The two `while`
loops are single-step searches, so that their end is a property, not an
assumption. `ResultIsSharing` is the joint to `DjinnMemory`, whose writer begins with
any sharing of `Sharings`: it says that the draws end with one of these.
That with fewer allies than elements, too, everybody gets his share is not checked
in a run, as no program has these numbers, but is a theorem (`EveryAllyFullCorrect`).

### DjinnMemory and DjinnExport

A word is its three bytes in memory order; `byte_flipper` and `djinn_to_x86` are
what the code does to them, shifts included. The game starts from any save
(`Saves`): djinn that nobody has found yet, and nobody with more than an even share.
Its moves keep words, counts and queue in agreement: a djinn goes to standby, is
summoned with, recovers, and is traded, set or in standby (`notes.md` 64-65; not in
recovery). A standby djinn that is traded keeps its state, and the queue is then in any
order, as the notes only know that the order is lost. `write_djinn` is one action per
system call. `RandomizerDies` is a write that fails, or a kill; `torn` then stays up
until a complete run.

The reader has three steps: copy the Units, search, read the queue. `First` is the
search loop, one bit after the other (`Try` is its body), as a recursive function of
the bit; the loop stops short of the count exactly when its assert fails
(`SearchFails`). `djinn_to_x86` runs inside `get_unit_data` but is applied where the word is
used, which is the same for a private copy. An item holds the binary id, and
`djinn_get_name` finds its number by shifts (`Shifts`). Complete lists are written by the
server (`Finish`) or printed by `oneshot` (`PrintNames`), which takes the first `Printed`
entries of every list: one behind the list's last may hold anything, so that the
name is read from somewhere or the process crashes.

## 3. Runs

| Run | Expect | Shows |
|---|---|---|
| `server` | pass | Under arbitrary input, with crashes, failing closes, restarts and second changes: logs follow the state, the files of every recording that is not torn pair up, taps hold no key, and the server implements `BattleRecording` |
| `keys` | pass | Keys follow the player except for changes that were overwritten, ignored or undone; also when a client quits or is killed with keys held; every press forwarded in command mode is recorded |
| `keys_stuck` | violation | the link is not 1:1: a lost release leaves a key down |
| `keys_records` | violation | pairs are saved when no button, the battle key included, was pressed, but a key that is none |
| `battle` | pass | also with a crash and restart of the server or a clock set back: battles end when they are won and only then, taps stay out of the command menu, the automation reaches the commands and hands them over |
| `randomizer` | pass | the draws end, share evenly and exactly, never search an empty pool, and give the writer a sharing it may write |
| `bi_element` | violation | an ally can end with three elements |
| `djinn_export` | pass | exports are complete, ordered, named apart, and tell which djinn are set, also when some are traded between the reads; their search never fails; only a list with fewer djinn than are printed makes `oneshot` leave the table of names; the writer leaves consistent memory, also when a run repairs one that died |
| `djinn_race` | violation | a read between two writes fails the assert |
| `djinn_stale` | violation | a set djinn is exported as on standby after a randomization |
| `timer` | pass | the period is kept, and not stretched, but for named causes; a negative rest needs a late process or a clock set forward |
| `state_export` | pass | no pointer of another process or half a pointer is used; records have every field in its place; the last record shows all enemies down; `oneshot` divides by zero exactly when an element is resisted by no enemy with health |

### Bounds

* `server`: two buttons (one of them tapped by the server in each way),
  `Seconds` 0..2 (an old recording, a restart two seconds later, and two battles in
  one second), `MaxRecords` 1 (a pair, then the last one of the battle), `APressGap` 1 (both
  sides of the 200 ms), `MaxOverrun` 1. No press arrives when `MaxRecords` pairs
  are written: the only place where the input is cut.
* `keys`: one button and the battle key and one key that is no button
  (`PlayerKeys`), one second, `MaxRecords` 1, `MaxClients` 2
  (one end with keys held, and a successor;
  the two violation runs have one client). Keys do not interact except with
  taps of the same key, and B is tapped in two states.
* `battle`: `APressGap` 6 is the real 200 ms in periods of 30 ms, `MaxLag` 6,
  `PhaseLoops` 2, `MaxBattles` 2 (a recording that runs into the next battle),
  `MaxRecords` 2, `MaxMishaps` 1, `MaxClockBack` 2, and two moments of the clock, the
  start's and a restart's.
* `randomizer`: 2 allies, 2 elements, `Slot` 2 (5 djinn for each element). Other
  sizes were run by hand: (2, 2, 3), (2, 3, 2) and (3, 3, 1) with the same result.
  Equally many allies and elements is the tight case, where every djinn is given.
* `bi_element`: one ally, three elements, the real slots of three.
* `djinn_*`: 2 allies, 2 elements, 2 djinn each, a queue of 2: entries that agree
  in owner and number but not in element, and a queue that changes between reads;
  `Places` and `Printed` 2, exactly an even share, so that one djinn stored too many or
  one too few to print shows (in the source nine places and seven printed).
* `timer`: the numbers are scaled down (a period of 3, 3 retries, a `useconds_t` of
  16 values); what matters is their order: work shorter, equal and longer than the
  period, clock steps shorter than it, a wrap longer than all. A larger instance
  (5, 5 retries, lateness to 2, steps to 3) gives the same.
* `state_export`: 2 allies, 2 enemies, 2 elements, 2 kinds of monsters, one of
  which does not resist one element, two emulators, and four maps files: the data mapping above the
  heap, another one there, a long line there, and no heap. `UINT32` and
  `WEAKNESS_START` are scaled to stay out of reach, as the real ones are
  (`ExportAssumption`). The layouts are the real ones.

Deadlock is checked in every run but the two of the randomizer and `state_export`,
whose programs end.

### Assumptions about the outside, named in the models

Those of the first three points are in `BattleAssumption`, so the theorems of
`TeleopBattleProofs` hold for every length of a phase, every lag and every choice of
phases that satisfies them.

* `PhaseLoops` at least 2: a phase of the game lasts at least two loop periods (text
  boxes last far longer). With 1, `NoUnaskedCommand` fails.
* `MaxLag` at most `APressGap`: the emulator draws a frame at least once in 200 ms.
  This is what the 200 ms between A taps buys.
* `AskPhases`: the player asks for the battle mode from the introduction to the
  command menu, as the comment "initialize when the menu is up" wants. Asking in
  the field, in the resolution or in the victory text breaks `OneBattlePerLog`: the
  log then waits for a battle to come.
* The player asks while none of his own answers is under way. If he presses A and
  asks within the emulator's lag, the server's A follows his into the command menu.
* A fled or lost battle is excepted from `OneBattlePerLog` by name (`fled`): the
  server does not notice such an end, stays in WATCH and mashes B.
* The clock is not set forward in a battle: a step forward lets a second A follow
  the first at once, and breaks `NoUnaskedCommand`. A step back only delays.
* A new client's first frame comes after the server has taken the last message of
  the old one.
* The heap is not the first line of the maps file, and its line is not a long one.
* No sum overflows or reaches the start value of `weakness_min` (`ExportAssumption`). In
  the source five healths of 16 bits cannot; healths times resistances could, with
  values far beyond those of any monster.
* The game gives no ally more than an even share of all djinn (`Saves`). The nine
  places of a list rest on it; no code checks it.
* Trades exchange one djinn for another, both set or in standby. A djinn found while
  a reader is between its reads is left out.
* `Undisturbed`: the game and the readers pause while the randomizer writes, and
  behind one that died until it has been run again.
  `QueueEmpty`: it is run when all djinn are set. `djinn_export` assumes both;
  `djinn_race` and `djinn_stale` drop one each.

### Fairness

`battle` uses weak fairness of the server's steps (its loop has no exit and no
blocking call but the sleep) and of the game's frames (the emulator does not
wait for anyone). The player is under no fairness: he may never press anything.
`randomizer` uses weak fairness of its only process. No other run
assumes that anything happens; `timer` needs none, as its loop of retries is
bounded by its counter.

## 4. Findings

1. **Keys can stick** (`keys_stuck`). `server_teleop.c` 199 and 259 promise 1:1; the
   conflating socket of line 203 drops changes.
2. **Records without a button** (`keys_records`). Line 302 says "if any button was
   pressed"; the client raises `anything` for every key, also one that is in no list
   of buttons. The battle key counts as a button.
3. **Three elements** (`bi_element`). `notes.md` 181 says two at most, from a slot
   of four and a slot of three; the code draws three, three, and one of any element.
4. **The assert of `get_djinn`** (`djinn_race`). The randomizer writes words and counts
   in separate calls; a server that samples in between aborts, with its log open.
5. **Stale recovery queue** (`djinn_stale`). The randomizer writes `djinn_set` but not the
   queue, so a set djinn may be exported with a status other than 0.

Not findings, since no supported game gets there: `djinn_to_x86` shifts by 1 and
2 where 8 and 16 are meant (from the ninth bit on), and `Export_Djinn_List` has
nine places without a check. Nor are these, which contradict no document: the table
of weaknesses counts slots an earlier battle left behind; `psyenergy_get_name` tests
about a hundred entries that nothing sets; a troop that does not resist some element
makes `oneshot` divide by zero (`TrapsOnImmunity` says exactly when); `oneshot` prints
seven entries of each list, those behind its last uninitialized, which the TODO at line
169 admits (`NamesDiffer` says when that can leave the table); the state
records hold allies in party
order but djinn lists and the menu's character by character number, and the order
itself is not recorded; and a rest that is negative after an interrupted sleep makes
`usleep` wait more than an hour, which takes a signal handler the server does not have.

## 5. Proofs

`TeleopServerProofs`, for any buttons, commands, seconds, gap and bounds that
satisfy `ServerAssumption`, `SecondsAssumption` and `MaxRecordsAssumption`:

* `Invariance`: `Spec => []IInv`. `TypeOK`, `LogsFollowState` and `PairsWhole` are
  not inductive: a record may only be written if the counter is below its bound,
  and writing needs an open log. `IInv` adds `RecordFits` (a pressed command at
  hand means there is room for its pair) and `StateAtRest` (between iterations
  the state is never END, and a server that is down is in PASSTHRU).
  One lemma for each group of actions, one step for each action.
* `TypeCorrect`, `LogsFollowStateCorrect`, `PairsWholeCorrect` follow from it;
  `AutomationHoldsNoKeyCorrect` is an action property proved block by block.
* `ImplementsRecordingCorrect`: `Spec => ImplementsRecording`. `RecordedEntries` says
  how `Recorded` changes with the two files, `LogOperation` that each step is one
  of the log operations, `RecordingStep` that each of these is a step of
  `BattleRecording` or a stutter.

`TeleopKeysProofs`, for any keys and any number of clients, with the server's
`IInv` in `KeysInv`:

* `KeysFollowPlayerCorrect`. The property speaks of keys without a change under way,
  so it must be known what a change under way says: the frame agrees with the
  player's hand (`FrameAgrees`), the message in the socket does unless a newer frame
  changes the same key or its client ended (`MailboxAgrees`), and the command of the
  iteration does where neither of these does (`CommandAgrees`, `Waiting`).
* `ForwardedPressIsRecordedCorrect`, an action property: `PressesSaid` carries the byte
  `anything` from the client's event to the block that tests it.

`TeleopBattleProofs`, for any phase lengths, lags and bounds of `BattleAssumption`:

* `EndMeansEnemiesDownCorrect`, `OneBattlePerLogCorrect`, `NoUnaskedCommandCorrect`.
  All three are about reads of different moments. `Fresh` is the core of `BattleInv`:
  once a phase is a period old, what this iteration has read of the game still holds.
  The other parts say, for each state of the server, in which phases the game can
  be and what the last reads were (`AutomationInStep`, `CommandInStep`, `WatchInStep`,
  `EndInStep`); `TapAnswersPreMenu` bounds the age of an A by the emulator's lag.
* `BattleImplementsServer`: every step of the composition is a step of the server
  alone or a stutter, so the server's theorems hold beside the game too;
  `BattleImplementsRecording` is the first use of it.

`LoopTimerProofs`, for any period, retries, lateness and clock steps: `PeriodKeptCorrect`,
`PeriodNotStretchedCorrect`, `WrapNeedsDelayCorrect`. The invariant relates the loop's
idea of time to the real one (`ClockRuns`: `wall = real + fwd - back`) and says that a
rest, however often computed anew, is what the period had left (`RestIsLeft`).

`DjinnRandomizerProofs`, for any numbers with at most as many allies as elements:
`TypeCorrect` and `EachDjinnOnceCorrect` from `IInv`, which adds that a call in the
middle of its work has something left to assign. `EveryAllyFullCorrect` and
`SearchesSucceedCorrect` count: `SharesCounted` gives the cardinality of every ally's
djinn at every point, from the calls that have returned, and the pool is what is left.

`ResultIsSharingCorrect`: with as many allies as elements, as the program has them,
the count of the pools (`PoolInvariance`) leaves nothing in them, so every djinn
has an owner, and the shares are even.

`DjinnExportProofs`, for any numbers of allies and elements, up to eight djinn (the bits
of one byte) and any number of `Places` that an even share fits into, *under the
hypotheses `Undisturbed` and `QueueEmpty`*. They are needed: the runs `djinn_race` and
`djinn_stale` each drop one and show what fails. `ExportInv` has two parts.

* `DjinnInv`, of the memory and the writer (`MemoryInvariance`). At rest, it is what the
  game keeps: words and counts agree, one owner at most, nobody with more than an even
  share, and a queue that tells once of every djinn that is not set and of no other.
  Of a writer at work it says that what it has written so far is of one sharing;
  after a death the next complete run restores the first part. That a word stands
  for one set of djinn is
  the uniqueness of binary digits, up to eight (`EightBits`). `EvenShares` is kept because
  a trade exchanges one djinn of an ally for another (`HoldingExchanged`); without it
  nothing bounds a list. A trade may put the queue into any order and give an entry a
  new owner: `TradeKeeps` shows that it still tells once of each djinn that is not set.
  `MemoryConsistentCorrect` follows.
* `ReaderInv`, of the reader (`ExportInvariance`): there is one way to have the djinn (`D`) that the
  copied Units show and the lists list, whatever the game does meanwhile. The search
  loop is a recursive function: `SearchSolved` shows that it exists and satisfies its
  equation, `SearchMeetsAll`, by induction over the bits, that behind bit `d` it has found
  the set bits below `d`, hence as many as the Unit counts, in order, before the assert.
  `AllySearched` goes on over the elements' joined lists by induction. `ListFits`: a list is
  no longer than a share.

From these, `SearchNeverFailsCorrect` (the assert never fails), `ExportCompleteCorrect`,
`ExportTypeCorrect`, `NamesDifferCorrect` (the shifts take `2^n` to `n`,
`ShiftsSolved`; no two allies have a djinn in common and `n + NDjinn * element` is one
to one, `NamesOnce`; a listed djinn's name is in the table, `ListedInTable`) and the action property
`StatusTellsSetCorrect` (`StatusRead`: one entry at most fits a listed djinn, and none
fits if and only if it is set).

`StateExportProofs`, for any sizes of the party and the troop, any monsters of
`ExportAssumption`, any maps files of `AttachAssumption` and any number of emulators:

* `FoundIsWramCorrect`. `SearchInv` says at each point which emulator a pointer is of.
* `EndRecordShowsAllDownCorrect` and `TrapsOnImmunityCorrect` are about sums in
  fixed-width integers and need that a sum of naturals is zero if and only if all are
  (`WeaknessIsSum`, `LeastWeakness`), and that none overflows.

`Recursions`: the sums, the lines of a maps file and the lists of several elements are
recursive definitions of the library. What they compute is proved by induction over
sets of numbers: `LeastNumber` (every nonempty set of naturals has a least element)
follows from the library's well-founded minimum, `SetInduction` from it, and
`SumsExist`, `SumSolved` and `FlattenSolved` show by it that the recursive functions
exist and satisfy their equations. The search loop, a recursive function of the
model itself, is solved the same way; of the shifts of an id a solution is written down.

Checked by TLC only:

* all liveness (`Terminates`, and the three of `battle`);
* `RecordFieldsFit`: there is one layout, and TLC computes all of it; it has no
  parameter to prove anything for, and the prover does not join strings.

## 6. Not modelled

* The bytes of a record and the newline behind it: records have a fixed size and a
  reader cuts by size (`prototype_binary_read.py` compares a byte with a string and
  so counts no lines). `copy_action_state`, which keeps five of the ten buttons, is
  part of these bytes.
* A failing `fopen`: its NULL ends the process at the next write, which is a
  `Crash` of the model at that point.
* `get_battle_action_queue`, whose result is printed nowhere, `get_battle_menu` and the
  other functions without a caller (`strstr_n`, `get_battle_menu_character_*`).
* `psyenergy_get_name`, a constant table, and all printing.
* Prototypes, key test, build files: experiments and scripts.

## 7. Plan

Done: all modules of section 2; the proofs of section 5.

Every invariant and action property that a passing run checks is now also proved,
but for `RecordFieldsFit`. What remains is with TLC: liveness, and the violations. Of
the hazards without a property (`PROJECT.json`) the first ones to model would be a
battle that is fled or lost, whose end `WATCH` does not notice.
