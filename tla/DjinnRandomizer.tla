-------------------------- MODULE DjinnRandomizer --------------------------
(* The draws of src/djinn_randomizer.c: every ally draws twice Slot djinn of *)
(* one element, then once a single one.  A bitfield of djinn is the set of   *)
(* the positions of its one bits; rand() may return anything, and the two    *)
(* searches that follow it, over the elements and over the djinn of one, are *)
(* loops that end only if there is something to find.                        *)
EXTENDS Integers, FiniteSets

CONSTANTS
    NAllies,      \* ALLIES
    NElements,    \* ELEMENTS
    Slot          \* djinn of the first two draws: 3

DJINN_MAX == 2 * Slot + 1

ASSUME RandomizerAssumption ==
    /\ NElements \in Nat \ {0}
    /\ NAllies \in 1..NElements
    /\ Slot \in Nat \ {0}

Allies == 0..(NAllies - 1)
Elements == 0..(NElements - 1)
Djinn == 0..(DJINN_MAX - 1)

VARIABLES
    pc,
    draw,         \* assign_djinn calls that have returned
    element,      \* the element this call draws from, or looks at
    left,         \* djinn this call has still to assign
    id,           \* the djinn it looks at
    djinn_pool,   \* for each element, the djinn nobody has
    djinn_alloc   \* for each ally and element, the djinn he has

vars == <<pc, draw, element, left, id, djinn_pool, djinn_alloc>>

\* The calls of main(): two of Slot djinn for each ally, then one of one each.
Draws == 3 * NAllies
AllyFirst(k) == IF k < 2 * NAllies THEN k \div 2 ELSE 0           \* mutant
Ally(k) == IF k < 2 * NAllies THEN k \div 2 ELSE k - 2 * NAllies
QtySlots(k) == Slot                                               \* mutant
Qty(k) == IF k < 2 * NAllies THEN Slot ELSE 1

TypeOK ==
    /\ pc \in {"call", "element", "draw", "id", "done"}
    /\ draw \in 0..Draws
    /\ pc # "done" => draw < Draws
    /\ element \in Elements
    /\ left \in 0..Slot
    /\ id \in Djinn
    /\ djinn_pool \in [Elements -> SUBSET Djinn]
    /\ djinn_alloc \in [Allies -> [Elements -> SUBSET Djinn]]

Init ==
    /\ pc = "call"
    /\ draw = 0
    /\ element = 0
    /\ left = 0
    /\ id = 0
    /\ djinn_pool = [e \in Elements |-> Djinn]
    /\ djinn_alloc = [a \in Allies |-> [e \in Elements |-> {}]]

----------------------------------------------------------------------------
(* assign_djinn.                                                             *)

count_unallocated(djinn) == Cardinality(djinn)

\* element = rand() % ELEMENTS
StartElement(r) ==
    /\ pc = "call"
    /\ element' = r
    /\ pc' = "element"
    /\ UNCHANGED <<draw, left, id, djinn_pool, djinn_alloc>>

\* while the pool of the element is too small, try the next one
NextElement ==
    /\ pc = "element"
    /\ count_unallocated(djinn_pool[element]) < Qty(draw)
    /\ element' = (element + 1) % NElements
    /\ UNCHANGED <<pc, draw, left, id, djinn_pool, djinn_alloc>>

\* Mutant: any djinn at all will do.
TakeElementNotEmpty ==
    /\ pc = "element"
    /\ count_unallocated(djinn_pool[element]) > 0
    /\ left' = Qty(draw)
    /\ pc' = "draw"
    /\ UNCHANGED <<draw, element, id, djinn_pool, djinn_alloc>>

TakeElement ==
    /\ pc = "element"
    /\ count_unallocated(djinn_pool[element]) >= Qty(draw)
    /\ left' = Qty(draw)
    /\ pc' = "draw"
    /\ UNCHANGED <<draw, element, id, djinn_pool, djinn_alloc>>

\* id = rand() % DJINN_MAX
StartDjinn(r) ==
    /\ pc = "draw"
    /\ id' = r
    /\ pc' = "id"
    /\ UNCHANGED <<draw, element, left, djinn_pool, djinn_alloc>>

NextDjinn ==
    /\ pc = "id"
    /\ id \notin djinn_pool[element]
    /\ id' = (id + 1) % DJINN_MAX
    /\ UNCHANGED <<pc, draw, element, left, djinn_pool, djinn_alloc>>

\* Mutants: the pool is not told; the last call is not the last.
AssignDjinnKeepsPool ==
    /\ pc = "id"
    /\ id \in djinn_pool[element]
    /\ djinn_alloc' = [djinn_alloc EXCEPT ![Ally(draw)][element] = @ \cup {id}]
    /\ left' = left - 1
    /\ draw' = IF left = 1 THEN draw + 1 ELSE draw
    /\ pc' = IF left > 1 THEN "draw"
             ELSE IF draw + 1 = Draws THEN "done" ELSE "call"
    /\ UNCHANGED <<element, id, djinn_pool>>

AssignDjinnOnceMore ==
    /\ pc = "id"
    /\ id \in djinn_pool[element]
    /\ djinn_alloc' = [djinn_alloc EXCEPT ![Ally(draw)][element] = @ \cup {id}]
    /\ djinn_pool' = [djinn_pool EXCEPT ![element] = @ \ {id}]
    /\ left' = left - 1
    /\ draw' = IF left = 1 THEN draw + 1 ELSE draw
    /\ pc' = IF left > 1 THEN "draw"
             ELSE IF draw = Draws THEN "done" ELSE "call"
    /\ UNCHANGED <<element, id>>

\* The djinn changes hands; the call returns with its last one.
AssignDjinn ==
    /\ pc = "id"
    /\ id \in djinn_pool[element]
    /\ djinn_alloc' = [djinn_alloc EXCEPT ![Ally(draw)][element] = @ \cup {id}]
    /\ djinn_pool' = [djinn_pool EXCEPT ![element] = @ \ {id}]
    /\ left' = left - 1
    /\ draw' = IF left = 1 THEN draw + 1 ELSE draw
    /\ pc' = IF left > 1 THEN "draw"
             ELSE IF draw + 1 = Draws THEN "done" ELSE "call"
    /\ UNCHANGED <<element, id>>

Next ==
    \/ \E r \in Elements : StartElement(r)
    \/ NextElement
    \/ TakeElement
    \/ \E r \in Djinn : StartDjinn(r)
    \/ NextDjinn
    \/ AssignDjinn

Spec == Init /\ [][Next]_vars /\ WF_vars(Next)

----------------------------------------------------------------------------
\* No djinn has two owners, and none is lost: each is in the pool or belongs to
\* exactly one ally.
EachDjinnOnce ==
    \A e \in Elements, d \in Djinn :
        /\ d \in djinn_pool[e] => \A a \in Allies : d \notin djinn_alloc[a][e]
        /\ d \notin djinn_pool[e] => \E a \in Allies : d \in djinn_alloc[a][e]
        /\ \A a, b \in Allies :
             d \in djinn_alloc[a][e] /\ d \in djinn_alloc[b][e] => a = b

\* What is then written: as many allies as there are elements share out all the
\* djinn, and the result is one of the sharings that the model of the writer may
\* write (of Memory only the definitions are used).
Memory == INSTANCE DjinnMemory WITH
    NDjinn <- DJINN_MAX, MaxQueue <- 0, Undisturbed <- TRUE, QueueEmpty <- TRUE,
    units <- djinn_alloc, queue <- <<>>, alloc <- djinn_alloc, todo <- 0, torn <- FALSE

ResultIsSharing ==
    (pc = "done" /\ NAllies = NElements) =>
        \E owner \in Memory!Sharings :
            djinn_alloc = [a \in Allies |-> Memory!Share(owner, a)]

\* Neither search is ever for nothing: whatever rand() has returned so far, some
\* element has enough djinn for the call, and the element it takes has them to
\* the last.
SearchesSucceed ==
    /\ pc = "element" =>
         \E e \in Elements : count_unallocated(djinn_pool[e]) >= Qty(draw)
    /\ pc \in {"draw", "id"} => count_unallocated(djinn_pool[element]) >= left

\* Both searches end, whatever rand() returns: the pools are never left in a
\* state in which no element has enough djinn for the next call.
Terminates == <>(pc = "done")

\* "Bi element selections at maximum": nobody has djinn of three elements.
BiElement ==
    pc = "done" =>
        \A a \in Allies : Cardinality({e \in Elements : djinn_alloc[a][e] # {}}) <= 2

=============================================================================
