--------------------------- MODULE MCStateExport ---------------------------
(* StateExport for TLC: a kind of monsters that resists every element and one *)
(* that does not, and maps files with one data mapping above the heap, with  *)
(* two mappings and a long line between the two, with a long line right above *)
(* the heap, and without a heap.                                             *)
EXTENDS StateExport

Monster(health, r0, r1) ==
    [health |-> health, resistance |-> [e \in Elements |-> IF e = 0 THEN r0 ELSE r1]]
MCMonsters == {Monster(2, 1, 2), Monster(1, 0, 3)}

Short(mapping) == [mapping |-> mapping, long |-> FALSE]
Long(mapping) == [mapping |-> mapping, long |-> TRUE]
MCMapsFiles ==
    {<<Short("text"), Short("data"), Short("heap"), Long("other")>>,
     <<Long("text"), Short("other"), Short("data"), Short("heap")>>,
     <<Short("text"), Long("data"), Short("heap")>>,
     <<Short("text"), Short("data"), Short("other")>>}

=============================================================================
