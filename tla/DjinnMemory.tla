---------------------------- MODULE DjinnMemory ----------------------------
(* The djinn in the game's memory, and the writer of src/djinn_randomizer.c. *)
(* The game keeps, in every ally's Unit, a word of bits per element for the  *)
(* djinn he has and for those that are set, and the two counts; and one queue *)
(* of the djinn that are not set.  The game is outside of the repository: its *)
(* frames keep these five pieces in agreement.  write_djinn overwrites four  *)
(* of them, one system call after the other.                                 *)
(*                                                                           *)
(* A word is its three bytes as they lie in memory, the most significant one *)
(* first; an x86 program reads the same bytes in the other order.            *)
EXTENDS Integers, FiniteSets, FiniteSetsExt, Sequences, SequencesExt

CONSTANTS
    NAllies,        \* ALLIES
    NElements,      \* ELEMENTS
    NDjinn,         \* djinn per element: DJINN_MAX
    MaxQueue,       \* bound on the queue: DJINN_QUEUE_MAX_LENGTH
    Undisturbed,    \* the game and the readers pause while the randomizer writes,
                    \* and behind one that died until it has been run again
    QueueEmpty      \* the randomizer is run only when every djinn is set

ASSUME DjinnAssumption ==
    /\ NAllies \in Nat \ {0}
    /\ NElements \in Nat \ {0}
    /\ NDjinn \in 1..8
    /\ (NElements * NDjinn) % NAllies = 0
    /\ MaxQueue \in Nat
    /\ Undisturbed \in BOOLEAN
    /\ QueueEmpty \in BOOLEAN

Allies == 0..(NAllies - 1)
Elements == 0..(NElements - 1)
Djinn == 0..(NDjinn - 1)

STANDBY == 255
RECOVERY == 1       \* a small positive count of turns

VARIABLES
    units,      \* the djinn fields of the allies' Units
    queue,      \* the recovery queue
    alloc,      \* randomizer: djinn_alloc, after byte_flipper
    todo,       \* randomizer: writes it has still to make
    torn        \* a randomizer died before its last write, and none ran since

memoryVars == <<units, queue>>
writerVars == <<alloc, todo, torn>>

----------------------------------------------------------------------------
(* Words.                                                                    *)

\* The one bits of a number: 2047 bounds what djinn_to_x86 returns.
OneBits(n) == {k \in 0..10 : (n \div 2^k) % 2 = 1}
Bits == [n \in 0..2047 |-> OneBits(n)]
Number(B) == CHOOSE n \in 0..255 : Bits[n] = B

\* The bytes of a uint32_t of an x86 program that is below 256.
Bytes(n) == <<n, 0, 0>>

ByteFlipperNot(w) == w                                            \* mutant
byte_flipper(w) == Reverse(w)

CountZeros(w) ==                                                  \* mutant
    24 - Cardinality(Bits[w[1]]) - Cardinality(Bits[w[2]]) - Cardinality(Bits[w[3]])
count_unallocated(w) ==
    Cardinality(Bits[w[1]]) + Cardinality(Bits[w[2]]) + Cardinality(Bits[w[3]])

\* The game's own view of a word.
GameWord == [B \in SUBSET Djinn |-> Reverse(Bytes(Number(B)))]
Owned(w) ==
    Bits[w[3]] \cup {8 + k : k \in Bits[w[2]]} \cup {16 + k : k \in Bits[w[1]]}

\* A Unit as the game keeps it: djinn[e] are his, set[e] of them are set.
UnitOf(djinn, set) ==
    [djinn_have |-> [e \in Elements |-> GameWord[djinn[e]]],
     djinn_set |-> [e \in Elements |-> GameWord[set[e]]],
     djinn_qty_total |-> [e \in Elements |-> Cardinality(djinn[e])],
     djinn_qty_set |-> [e \in Elements |-> Cardinality(set[e])]]

Have(a) == [e \in Elements |-> Owned(units[a].djinn_have[e])]
Set(a) == [e \in Elements |-> Owned(units[a].djinn_set[e])]

EvenShare == (NElements * NDjinn) \div NAllies
Owns(owner, a) == {x \in Elements \X Djinn : owner[x] = a}

\* Every way to share the djinn out evenly.
Sharings ==
    {owner \in [Elements \X Djinn -> Allies] :
        \A a \in Allies : Cardinality(Owns(owner, a)) = EvenShare}

\* The saves of a game that lets no ally have more than so many djinn: some djinn
\* may not have been found.
Nobody == NAllies
Saves(limit) ==
    {owner \in [Elements \X Djinn -> Allies \cup {Nobody}] :
        \A a \in Allies : Cardinality(Owns(owner, a)) <= limit}

ShareOf(owner, a, e) == {d \in Djinn : owner[<<e, d>>] = a}
Share(owner, a) == [e \in Elements |-> ShareOf(owner, a, e)]

MemoryInit ==
    /\ \E owner \in Saves(EvenShare) :
         units = [a \in Allies |-> UnitOf(Share(owner, a), Share(owner, a))]
    /\ queue = <<>>
    /\ alloc = <<>>
    /\ todo = 0
    /\ torn = FALSE

----------------------------------------------------------------------------
(* The game.                                                                 *)

Quiet == todo = 0 /\ ~torn
GameRuns == (Undisturbed => Quiet) /\ UNCHANGED writerVars

With(f, e, S) == [f EXCEPT ![e] = S]

\* A djinn is released or summoned with: it leaves the set and joins the queue.
ToStandby(a, e, d) ==
    /\ GameRuns
    /\ Len(queue) < MaxQueue
    /\ d \in Set(a)[e]
    /\ units' = [units EXCEPT
         ![a] = UnitOf(Have(a), With(Set(a), e, Set(a)[e] \ {d}))]
    /\ queue' = Append(queue, [owner |-> a, element |-> e, djinn |-> d,
                               status |-> STANDBY])

Summoned(i) ==
    /\ GameRuns
    /\ queue[i].status = STANDBY
    /\ queue' = [queue EXCEPT ![i].status = RECOVERY]
    /\ UNCHANGED units

Recovered(i) ==
    /\ GameRuns
    /\ queue[i].status = RECOVERY
    /\ queue' = RemoveAt(queue, i)
    /\ LET x == queue[i] IN
         units' = [units EXCEPT ![x.owner] =
           UnitOf(Have(x.owner), With(Set(x.owner), x.element,
                                      Set(x.owner)[x.element] \cup {x.djinn}))]

InRecovery(q, a, x) ==
    q.owner = a /\ <<q.element, q.djinn>> = x /\ q.status = RECOVERY
Tradable(a, x) ==
    /\ x[2] \in Have(a)[x[1]]
    /\ \A i \in DOMAIN queue : ~InRecovery(queue[i], a, x)

\* f without the djinn out, and with the djinn in if it is one of g.
Moved(f, g, out, in) ==
    [e \in Elements |-> {d \in f[e] : <<e, d>> # out} \cup {d \in g[e] : <<e, d>> = in}]

NewOwner(q, a, b, x, y) ==
    CASE q.owner = a /\ <<q.element, q.djinn>> = x -> b
      [] q.owner = b /\ <<q.element, q.djinn>> = y -> a
      [] OTHER -> q.owner

\* In its menu the game exchanges two djinn of two allies that are set or in
\* standby.  A djinn in standby stays so, but the order of the queue is messed
\* up: whichever way is not known.
Trade(a, b, x, y) ==
    /\ GameRuns
    /\ a # b
    /\ Tradable(a, x)
    /\ Tradable(b, y)
    /\ units' = [units EXCEPT
         ![a] = UnitOf(Moved(Have(a), Have(b), x, y), Moved(Set(a), Set(b), x, y)),
         ![b] = UnitOf(Moved(Have(b), Have(a), y, x), Moved(Set(b), Set(a), y, x))]
    /\ \E p \in Bijection(DOMAIN queue, DOMAIN queue) :
         queue' = [i \in DOMAIN queue |->
           [queue[p[i]] EXCEPT !.owner = NewOwner(queue[p[i]], a, b, x, y)]]

GameStep ==
    \/ \E a \in Allies, e \in Elements, d \in Djinn : ToStandby(a, e, d)
    \/ \E a, b \in Allies, x, y \in Elements \X Djinn : Trade(a, b, x, y)
    \/ \E i \in DOMAIN queue : Summoned(i) \/ Recovered(i)

----------------------------------------------------------------------------
(* The randomizer: DjinnRandomizer's result, flipped and written.            *)

Fields == <<"djinn_have", "djinn_set", "djinn_qty_total", "djinn_qty_set">>

Randomize(owner) ==
    /\ todo = 0
    /\ QueueEmpty => queue = <<>>
    /\ alloc' = [a \in Allies |-> [e \in Elements |->
                   byte_flipper(Bytes(Number(Share(owner, a)[e])))]]
    /\ todo' = NAllies * Len(Fields)
    /\ UNCHANGED <<memoryVars, torn>>

\* The n-th write, from 0: one field of one ally.
WriteField(n) ==
    LET a == n \div Len(Fields)
        field == Fields[(n % Len(Fields)) + 1]
    IN  units' = [units EXCEPT ![a][field] =
          IF field \in {"djinn_have", "djinn_set"} THEN alloc[a]
          ELSE [e \in Elements |-> count_unallocated(alloc[a][e])]]

write_djinn_short ==                                              \* mutant
    /\ todo > 0
    /\ IF todo = 1 THEN UNCHANGED units
       ELSE WriteField(NAllies * Len(Fields) - todo)
    /\ todo' = todo - 1
    /\ alloc' = IF todo = 1 THEN <<>> ELSE alloc
    /\ torn' = (torn /\ todo # 1)
    /\ UNCHANGED queue

\* The process exits with its last write.
write_djinn ==
    /\ todo > 0
    /\ WriteField(NAllies * Len(Fields) - todo)
    /\ todo' = todo - 1
    /\ alloc' = IF todo = 1 THEN <<>> ELSE alloc
    /\ torn' = (torn /\ todo # 1)
    /\ UNCHANGED queue

\* A write fails, which an assert notices, or the process is killed.  Bound: it
\* is not killed again when it repairs what a killed one left.
RandomizerDies ==
    /\ todo > 0
    /\ ~torn
    /\ todo' = 0
    /\ alloc' = <<>>
    /\ torn' = TRUE
    /\ UNCHANGED memoryVars

----------------------------------------------------------------------------
\* When the randomizer is done the game finds what it expects in its memory:
\* no djinn has two owners, and the counts and the set djinn fit.  A complete run
\* also repairs whatever one that died has left half written.
MemoryConsistent ==
    Quiet =>
        LET have == [a \in Allies |-> Have(a)]
            set == [a \in Allies |-> Set(a)]
        IN  /\ \A e \in Elements, d \in Djinn :
                 Cardinality({a \in Allies : d \in have[a][e]}) <= 1
            /\ \A a \in Allies, e \in Elements :
                 /\ have[a][e] \subseteq Djinn
                 /\ set[a][e] \subseteq have[a][e]
            /\ \A a \in Allies : units[a] = UnitOf(have[a], set[a])

=============================================================================
