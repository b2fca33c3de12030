---------------------------- MODULE DjinnExport ----------------------------
(* get_unit_data and get_djinn of src/golden_sun_utils.c: the list of every  *)
(* ally's djinn that a state record holds, built from two reads of the game's *)
(* memory at different times.                                                *)
EXTENDS DjinnMemory

CONSTANTS
    Places,         \* of a list, Export_Djinn_List.djinn
    Printed         \* of these, the ones oneshot prints

ASSUME PlacesAssumption ==
    /\ Places \in Nat
    /\ Places * NAllies >= NElements * NDjinn
    /\ Printed \in 0..Places

VARIABLES
    rpc,            \* where the reader is
    allies_raw,     \* its copy of the Units; none once the lists are complete
    export_djinn    \* its lists

readerVars == <<rpc, allies_raw, export_djinn>>
vars == <<units, queue, alloc, todo, torn, rpc, allies_raw, export_djinn>>

\* A djinn's binary id is one bit of a word.
Item == [element : Elements, status : {0, RECOVERY, STANDBY},
         id : {2^d : d \in Djinn}]

ExportTypeOK ==
    /\ rpc \in {"idle", "find", "queue", "done", "aborted", "crashed"}
    /\ export_djinn \in [Allies -> Seq(Item)]
    /\ \A a \in Allies : Len(export_djinn[a]) <= Places
    /\ Len(queue) <= MaxQueue
    /\ todo \in 0..(NAllies * Len(Fields))

Init ==
    /\ MemoryInit
    /\ rpc = "idle"
    /\ allies_raw = <<>>
    /\ export_djinn = [a \in Allies |-> <<>>]

----------------------------------------------------------------------------
\* get_unit_data: one read of all allies; djinn_to_x86 is applied where a word
\* is used.
get_unit_data ==
    /\ rpc = "idle"
    /\ Undisturbed => Quiet
    /\ allies_raw' = units
    /\ rpc' = "find"
    /\ UNCHANGED <<memoryVars, writerVars, export_djinn>>

djinn_to_x86(w) == w[3] + 2 * w[2] + 4 * w[1]

TryAfterStep(found, bits, qty, d) ==                              \* mutant
    IF Len(found) < qty /\ d \in bits THEN Append(found, d + 1) ELSE found

\* The body of the search loop: unless qty djinn are found, bit d is looked at.
Try(found, bits, qty, d) ==
    IF Len(found) < qty /\ d \in bits THEN Append(found, d) ELSE found

\* The search for qty djinn: found[d] is what the bits below d have given.  It
\* asserts d < 31 behind every step, so that bit 29 is the last that may end it.
First(bits, qty) ==
    LET found[d \in 0..30] ==
          IF d = 0 THEN <<>> ELSE Try(found[d - 1], bits, qty, d - 1)
    IN  found[30]

SearchFails(bits, qty) == Len(First(bits, qty)) < qty

HaveBits(a, e) == Bits[djinn_to_x86(allies_raw[a].djinn_have[e])]
Qty(a, e) == allies_raw[a].djinn_qty_total[e]

FoundAfterStep(a, e) ==                                           \* mutant
    LET found == First(HaveBits(a, e), Qty(a, e)) IN
    [i \in DOMAIN found |-> [element |-> e, status |-> 0, id |-> 2^(found[i] + 1)]]

Found(a, e) ==
    LET found == First(HaveBits(a, e), Qty(a, e)) IN
    [i \in DOMAIN found |-> [element |-> e, status |-> 0, id |-> 2^found[i]]]

\* quantity is 0 again, one element is searched after the other, and the assert
\* ends the process.
FindDjinn ==
    /\ rpc = "find"
    /\ IF \E a \in Allies, e \in Elements : SearchFails(HaveBits(a, e), Qty(a, e))
       THEN rpc' = "aborted" /\ UNCHANGED export_djinn
       ELSE /\ export_djinn' = [a \in Allies |-> FlattenSeq(
                 [e \in 1..NElements |-> Found(a, e - 1)])]
            /\ rpc' = "queue"
    /\ UNCHANGED <<memoryVars, writerVars, allies_raw>>

\* The entry of the queue that tells of a listed djinn.
IsForAnyElement(q, a, item) == q.owner = a /\ 2^q.djinn = item.id \* mutant
IsFor(q, a, item) ==
    /\ q.owner = a
    /\ 2^q.djinn = item.id
    /\ q.element = item.element

\* The last entry wins; an entry that fits nothing in the lists is ignored.
StatusOf(a, item) ==
    LET entries == {i \in DOMAIN queue : IsFor(queue[i], a, item)} IN
    IF entries = {} THEN item.status ELSE queue[Max(entries)].status

ReadQueue ==
    /\ rpc = "queue"
    /\ Undisturbed => Quiet
    /\ export_djinn' = [a \in Allies |-> [i \in DOMAIN export_djinn[a] |->
         [export_djinn[a][i] EXCEPT !.status = StatusOf(a, export_djinn[a][i])]]]
    /\ allies_raw' = <<>>
    /\ rpc' = "done"
    /\ UNCHANGED <<memoryVars, writerVars>>

\* The server has written the lists and overwrites them in its next iteration, or
\* a oneshot that crashed is run again.
Finish ==
    /\ rpc \in {"done", "crashed"}
    /\ export_djinn' = [a \in Allies |-> <<>>]
    /\ rpc' = "idle"
    /\ UNCHANGED <<memoryVars, writerVars, allies_raw>>

\* djinn_get_name: the index of the one bit of a binary id, by shifts; an id has
\* eight bits at most.
Shifts[id \in 0..255] == IF id > 1 THEN Shifts[id \div 2] + 1 ELSE 0

NameInElement(item) == Shifts[item.id]                            \* mutant
djinn_get_name(item) == Shifts[item.id] + NDjinn * item.element

\* The table of names has one for each djinn.
InTable(item) == djinn_get_name(item) < NElements * NDjinn

\* oneshot prints the first entries of all lists, whatever their quantity is.
\* One behind a list's last djinn is not initialized: a name may be read from
\* anywhere, or the process may crash.
PrintNames ==
    /\ rpc = "done"
    /\ \/ /\ rpc' = "idle"
          /\ export_djinn' = [a \in Allies |-> <<>>]
       \/ /\ rpc' = "crashed"
          /\ \E a \in Allies, i \in 1..Printed :
               i \in DOMAIN export_djinn[a] => ~InTable(export_djinn[a][i])
          /\ UNCHANGED export_djinn
    /\ UNCHANGED <<memoryVars, writerVars, allies_raw>>

\* Bound: nothing else moves while complete lists are used, as they are a copy.
Reading == rpc # "idle"
Using == rpc \in {"done", "crashed"}

Next ==
    \/ ~Using /\ GameStep /\ UNCHANGED readerVars
    \/ /\ IF Undisturbed THEN ~Reading ELSE ~Using
       /\ \E owner \in Sharings : Randomize(owner)
       /\ UNCHANGED readerVars
    \/ ~Using /\ (write_djinn \/ RandomizerDies) /\ UNCHANGED readerVars
    \/ get_unit_data
    \/ FindDjinn
    \/ ReadQueue
    \/ Finish
    \/ PrintNames

Spec == Init /\ [][Next]_vars

----------------------------------------------------------------------------
\* The lists name exactly the djinn the game had given to each ally when its
\* Units were read, each once, in the order of the game's menu: by element,
\* then by number.
ExportComplete ==
    rpc = "queue" =>
        \A a \in Allies :
            LET list == export_djinn[a] IN
            /\ \A e \in Elements :
                 {list[i].id : i \in {j \in DOMAIN list : list[j].element = e}}
                    = {2^d : d \in Owned(allies_raw[a].djinn_have[e])}
            /\ \A i, j \in DOMAIN list : i < j =>
                 \/ list[i].element < list[j].element
                 \/ /\ list[i].element = list[j].element
                    /\ list[i].id < list[j].id

\* No two djinn of the lists show the same name, whichever allies they belong to,
\* and oneshot reads a name beyond the table only for an ally who has fewer djinn
\* than it prints.
NamesDiffer ==
    /\ rpc = "done" =>
         LET shown == {x \in Allies \X (1..Places) : x[2] <= Len(export_djinn[x[1]])}
             name(x) == djinn_get_name(export_djinn[x[1]][x[2]])
         IN  \A x, y \in shown : name(x) = name(y) => x = y
    /\ rpc = "crashed" => \E a \in Allies : Len(export_djinn[a]) < Printed

\* "0=set, small positive=recovery, 255=standby": a listed djinn that its ally
\* still has when the queue is read has status 0 if and only if it is set.
StatusTellsSet ==
    [][rpc = "queue" /\ rpc' = "done" =>
         \A a \in Allies : \A i \in DOMAIN export_djinn'[a] :
             LET item == export_djinn'[a][i] IN
             \A d \in Have(a)[item.element] : item.id = 2^d =>
                 (item.status = 0 <=> d \in Set(a)[item.element])]_vars

\* assert(d < 31): the search for the djinn a Unit counts always finds them.
SearchNeverFails == rpc # "aborted"

=============================================================================
