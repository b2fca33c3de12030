------------------------------- MODULE Attach -------------------------------
(* How a program finds the game: find_pid and the two calls of find_wram in  *)
(* src/golden_sun_utils.c.  The emulator is a process of its own that may    *)
(* end, and be started again, at any time; a system call for a process that  *)
(* is gone, or an address that is not mapped, fails, and an assert ends the  *)
(* program.                                                                  *)
EXTENDS Integers, Sequences, SequencesExt

CONSTANTS
    MapsFiles,      \* what /proc/[pid]/maps may hold
    MaxEmulators    \* bound: emulators of a behaviour

\* A line tells of one mapping; a long one takes two calls of fgets.
Line == [mapping : {"text", "data", "heap", "other"}, long : BOOLEAN]

\* Lines lie in the order of the addresses, the heap behind the program's own
\* mappings, of which there is at least one.
ASSUME AttachAssumption ==
    /\ MapsFiles \subseteq Seq(Line)
    /\ \A maps \in MapsFiles :
         /\ Len(maps) > 0
         /\ maps[1].mapping # "heap"
         /\ \A i \in DOMAIN maps : maps[i].mapping = "heap" => ~maps[i].long
    /\ MaxEmulators \in Nat \ {0}

BOARD == "MEMORY_TYPE_WRAM_BOARD"
CHIP == "MEMORY_TYPE_WRAM_CHIP"

VARIABLES
    emulator,   \* the emulator that runs, and how its memory is laid out
    running,    \* whether it does
    pc,         \* where the program is
    pid,        \* the process it has found
    mem_ref,    \* what it takes for the mapping above the heap
    ptr         \* wram_ptr and iram_ptr

emulatorVars == <<emulator, running>>
programVars == <<pid, mem_ref, ptr>>
attachVars == <<emulatorVars, pc, programVars>>

\* high is the upper half of its addresses of heap objects.
Emulator == [id : 1..MaxEmulators, maps : MapsFiles, high : 0..1]

\* The game's memory, as the emulator's pointers name it.
Pointer(e, type) == [id |-> e.id, type |-> type, high |-> e.high]
Memory == [id : 0..MaxEmulators, type : {BOARD, CHIP}, high : 0..1]
NoPointer == [id |-> 0, type |-> BOARD, high |-> 0]

AttachInit ==
    /\ emulator \in {e \in Emulator : e.id = 1}
    /\ running = TRUE
    /\ pc = "find_pid"
    /\ pid = 0
    /\ mem_ref = "none"
    /\ ptr = [type \in {BOARD, CHIP} |-> [NoPointer EXCEPT !.type = type]]

----------------------------------------------------------------------------
EmulatorExits ==
    /\ running
    /\ running' = FALSE
    /\ UNCHANGED <<emulator, pc, programVars>>

\* Bound: a new emulator only matters while the program looks for one.
EmulatorStarts ==
    /\ ~running
    /\ pc \in {"find_pid", "maps", "pointer"}
    /\ emulator' \in {e \in Emulator : e.id = emulator.id + 1}
    /\ running' = TRUE
    /\ UNCHANGED <<pc, programVars>>

Attached == running /\ emulator.id = pid

Abort == pc' = "aborted" /\ UNCHANGED programVars

\* pidof names the process, or nothing.
find_pid ==
    /\ pc = "find_pid"
    /\ IF running
       THEN pid' = emulator.id /\ pc' = "maps" /\ UNCHANGED <<mem_ref, ptr>>
       ELSE Abort
    /\ UNCHANGED emulatorVars

\* What fgets returns, call by call: behind the start of a long line its tail.
Chunks(maps) ==
    FlattenSeq([i \in DOMAIN maps |->
        IF maps[i].long THEN <<maps[i].mapping, "tail">> ELSE <<maps[i].mapping>>])

HeapAt(chunks) == {i \in DOMAIN chunks : chunks[i] = "heap"}

\* Mutant: the line is kept before it is searched.
LineItself(chunks) == "heap"

\* line_prev when the search has stopped at the first line with [heap].
LinePrev(chunks) == chunks[Min(HeapAt(chunks)) - 1]

\* The loop of find_wram over the lines of the maps file.
find_heap ==
    /\ pc = "maps"
    /\ IF Attached /\ HeapAt(Chunks(emulator.maps)) # {}
       THEN /\ mem_ref' = LinePrev(Chunks(emulator.maps))
            /\ pc' = "pointer"
            /\ UNCHANGED <<pid, ptr>>
       ELSE Abort
    /\ UNCHANGED emulatorVars

\* Mutant: both calls use one offset.
PointedAtBoard(e, type) == [Pointer(e, BOARD) EXCEPT !.high = 0]

\* At the offset type of the mapping above the heap the emulator keeps a pointer
\* to the game's memory, of which find_wram reads four bytes.  Other mappings
\* hold something else there, and what a tail is read as is not mapped.
Pointed(e, type) == [Pointer(e, type) EXCEPT !.high = 0]
HeapLine(maps) == Min({i \in DOMAIN maps : maps[i].mapping = "heap"})
Above(maps) == maps[HeapLine(maps) - 1].mapping

ReadPointer ==
    LET type == IF ptr[BOARD] = NoPointer THEN BOARD ELSE CHIP IN
    /\ pc = "pointer"
    /\ IF ~Attached \/ mem_ref = "tail"
       THEN Abort
       ELSE /\ ptr' = [ptr EXCEPT ![type] =
                 IF mem_ref = Above(emulator.maps) THEN Pointed(emulator, type)
                 ELSE [id |-> 0, type |-> type, high |-> 1]]
            /\ pc' = IF type = BOARD THEN "maps" ELSE "units"
            /\ mem_ref' = "none"
            /\ UNCHANGED pid
    /\ UNCHANGED emulatorVars

FindGame == find_pid \/ find_heap \/ ReadPointer

EmulatorStep == EmulatorExits \/ EmulatorStarts

\* Whether a read of the game's memory succeeds: its process is there, and the
\* pointer is one of its own.
Readable(type) == Attached /\ ptr[type] = Pointer(emulator, type)

=============================================================================
