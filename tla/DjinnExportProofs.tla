-------------------------- MODULE DjinnExportProofs -------------------------
(* The randomizer leaves the game a consistent memory, for any numbers of    *)
(* allies and elements and up to eight djinn each, whatever the game did     *)
(* before and does later, and although a process that dies leaves a half of  *)
(* its writes behind until another one repairs them.  And the lists that a   *)
(* reader makes of that memory are complete, in order, named apart, within   *)
(* their places, and tell which djinn are set.                               *)
EXTENDS DjinnExport, Recursions

\* The four fields of every Unit are there; nothing else is.
UnitsWhole ==
    /\ units = [a \in Allies |-> units[a]]
    /\ \A a \in Allies :
         units[a] = [djinn_have |-> units[a].djinn_have, djinn_set |-> units[a].djinn_set,
                     djinn_qty_total |-> units[a].djinn_qty_total,
                     djinn_qty_set |-> units[a].djinn_qty_set]

\* What the game keeps of every ally: djinn that are his, of which some are set,
\* in words and counts that agree.
UnitsAgree ==
    \A a \in Allies :
        /\ units[a] = UnitOf(Have(a), Set(a))
        /\ \A e \in Elements : Set(a)[e] \subseteq Have(a)[e] /\ Have(a)[e] \subseteq Djinn

\* No djinn has two owners.
OneOwner ==
    \A a, b \in Allies, e \in Elements, d \in Djinn :
        d \in Have(a)[e] /\ d \in Have(b)[e] => a = b

\* No ally has more djinn than an even share.
Holding(f) == {x \in Elements \X Djinn : x[2] \in f[x[1]]}
EvenShares == \A a \in Allies : Cardinality(Holding(Have(a))) <= EvenShare

\* The queue tells, once, of the djinn that their owners have and that are not set.
Entry == [owner : Allies, element : Elements, djinn : Djinn, status : {STANDBY, RECOVERY}]
Tells(q, a, e, d) == q.owner = a /\ q.element = e /\ q.djinn = d
SameDjinn(q, r) == q.owner = r.owner /\ q.element = r.element /\ q.djinn = r.djinn
QueueAgrees ==
    /\ queue \in Seq(Entry)
    /\ \A i \in DOMAIN queue, q \in Entry :
         queue[i] = q => q.djinn \in Have(q.owner)[q.element] \ Set(q.owner)[q.element]
    /\ \A i, j \in DOMAIN queue : SameDjinn(queue[i], queue[j]) => i = j
    /\ \A a \in Allies, e \in Elements, d \in Djinn :
         d \in Have(a)[e] \ Set(a)[e] => \E i \in DOMAIN queue : Tells(queue[i], a, e, d)

\* The writer holds a sharing, and what it has written so far is of it.
NWrites == NAllies * 4
Wanted(owner, a) == UnitOf(Share(owner, a), Share(owner, a))
Written(owner) ==
    /\ alloc = [a \in Allies |-> Wanted(owner, a).djinn_have]
    /\ \A a \in Allies, k \in 1..4 :
         4 * a + k <= NWrites - todo => units[a][Fields[k]] = Wanted(owner, a)[Fields[k]]

DjinnInv ==
    /\ todo \in 0..NWrites
    /\ torn \in BOOLEAN
    /\ UnitsWhole
    /\ Quiet => UnitsAgree /\ OneOwner /\ EvenShares /\ QueueAgrees
    /\ ~Quiet => queue = <<>>
    /\ todo > 0 => \E owner \in Sharings : Written(owner)

\* Who has which djinn, each in one place, and nobody too many.
Havings == [Allies -> [Elements -> SUBSET Djinn]]
Shared(D) ==
    /\ \A a, b \in Allies, e \in Elements, d \in Djinn :
         d \in D[a][e] /\ d \in D[b][e] => a = b
    /\ \A a \in Allies : Cardinality(Holding(D[a])) <= EvenShare

\* The reader's copy is of Units with these djinn.
Copied(D) ==
    \A a \in Allies, e \in Elements :
        /\ allies_raw[a].djinn_have[e] = GameWord[D[a][e]]
        /\ allies_raw[a].djinn_qty_total[e] = Cardinality(D[a][e])

\* The list s is of the djinn of f, by element, then by number.
InOrder(s) ==
    \A i, j \in DOMAIN s : i < j =>
        \/ s[i].element < s[j].element
        \/ s[i].element = s[j].element /\ s[i].id < s[j].id
Lists(s, f) ==
    /\ s \in Seq(Item)
    /\ InOrder(s)
    /\ \A e \in Elements, d \in Djinn :
         d \in f[e] <=> \E i \in DOMAIN s : s[i].element = e /\ s[i].id = 2^d

\* What the reader holds is of a moment when the memory was consistent.
ReaderInv ==
    /\ rpc \in {"idle", "find", "queue", "done", "crashed"}
    /\ export_djinn = [a \in Allies |-> export_djinn[a]]
    /\ rpc \in {"idle", "find"} => \A a \in Allies : export_djinn[a] = <<>>
    /\ rpc \in {"find", "queue"} =>
         /\ Quiet
         /\ \E D \in Havings :
              /\ Shared(D) /\ Copied(D)
              /\ rpc = "queue" => \A a \in Allies :
                   /\ Lists(export_djinn[a], D[a])
                   /\ \A i \in DOMAIN export_djinn[a] : export_djinn[a][i].status = 0
    /\ rpc \in {"done", "crashed"} =>
         \E D \in Havings : Shared(D) /\ \A a \in Allies : Lists(export_djinn[a], D[a])
    /\ rpc = "crashed" => \E a \in Allies : Len(export_djinn[a]) < Printed

----------------------------------------------------------------------------
(* Words.                                                                    *)

\* The k-th binary digit of n.
Digit(n, k) == (n \div 2^k) % 2

\* The binary digits of a sum of powers of two.
LEMMA EightBits ==
    ASSUME NEW b \in [0..7 -> 0..1], NEW n,
           n = b[0] + 2 * b[1] + 4 * b[2] + 8 * b[3] + 16 * b[4] + 32 * b[5]
                 + 64 * b[6] + 128 * b[7]
    PROVE  /\ n \in 0..255
           /\ \A k \in 0..7 : Digit(n, k) = b[k]
           /\ \A k \in 8..10 : Digit(n, k) = 0
<1> \A k \in 0..7 : b[k] \in 0..1
  OBVIOUS
<1>1. n \in 0..255
  OBVIOUS
<1>2. Digit(n, 0) = b[0]
  BY DEF Digit
<1>3. Digit(n, 1) = b[1]
  BY DEF Digit
<1>4. Digit(n, 2) = b[2]
  BY DEF Digit
<1>5. Digit(n, 3) = b[3]
  BY DEF Digit
<1>6. Digit(n, 4) = b[4]
  BY DEF Digit
<1>7. Digit(n, 5) = b[5]
  BY DEF Digit
<1>8. Digit(n, 6) = b[6]
  BY DEF Digit
<1>9. Digit(n, 7) = b[7]
  BY DEF Digit
<1>10. Digit(n, 8) = 0
  BY <1>1 DEF Digit
<1>11. Digit(n, 9) = 0
  BY <1>1 DEF Digit
<1>12. Digit(n, 10) = 0
  BY <1>1 DEF Digit
<1>13. \A k \in 0..7 : Digit(n, k) = b[k]
  BY <1>2, <1>3, <1>4, <1>5, <1>6, <1>7, <1>8, <1>9
<1>14. \A k \in 8..10 : Digit(n, k) = 0
  BY <1>10, <1>11, <1>12
<1> QED
  BY <1>1, <1>13, <1>14

\* The bits of a number are its digits that are 1.
LEMMA OneBitsAreDigits ==
    ASSUME NEW n
    PROVE  \A k : k \in OneBits(n) <=> k \in 0..10 /\ Digit(n, k) = 1
BY Zenon DEF OneBits, Digit

\* Sets of the same elements are equal.
LEMMA SameElements ==
    ASSUME NEW S, NEW T, \A x : x \in S <=> x \in T
    PROVE  S = T
OBVIOUS

\* A byte is known by its digits.
LEMMA BitsByDigits ==
    ASSUME NEW n \in 0..255, NEW B \in SUBSET (0..7),
           \A k \in 0..10 : Digit(n, k) = 1 <=> k \in B
    PROVE  Bits[n] = B
<1>1. \A k : k \in Bits[n] <=> k \in 0..10 /\ Digit(n, k) = 1
  <2>1. Bits[n] = OneBits(n)
    BY DEF Bits
  <2> QED
    BY <2>1, OneBitsAreDigits
<1>2. \A k : k \in B => k \in 0..10
  OBVIOUS
<1>3. \A k : k \in Bits[n] <=> k \in B
  BY <1>1, <1>2
<1> QED
  BY <1>3, SameElements

\* Every set of bit numbers of a byte is that of a byte; zero has none.
LEMMA NumberBits ==
    /\ Bits[0] = {}
    /\ \A B \in SUBSET (0..7) : Number(B) \in 0..255 /\ Bits[Number(B)] = B
<1>1. ASSUME NEW B \in SUBSET (0..7)
      PROVE  \E n \in 0..255 : Bits[n] = B /\ (B = {} => n = 0)
  <2> DEFINE b == [k \in 0..7 |-> IF k \in B THEN 1 ELSE 0]
             n == b[0] + 2 * b[1] + 4 * b[2] + 8 * b[3] + 16 * b[4] + 32 * b[5]
                    + 64 * b[6] + 128 * b[7]
  <2>1. b \in [0..7 -> 0..1] /\ \A k \in 0..7 : b[k] = 1 <=> k \in B
    OBVIOUS
  <2>2. B = {} => n = 0
    OBVIOUS
  <2> HIDE DEF b
  <2>3. /\ n \in 0..255
        /\ \A k \in 0..7 : Digit(n, k) = b[k]
        /\ \A k \in 8..10 : Digit(n, k) = 0
    BY <2>1, EightBits
  <2> HIDE DEF n
  <2>4. \A k \in 0..10 : Digit(n, k) = 1 <=> k \in B
    BY <2>1, <2>3
  <2>5. Bits[n] = B
    BY <2>3, <2>4, BitsByDigits
  <2> QED
    BY <2>2, <2>3, <2>5
<1>2. Bits[0] = {}
  <2>1. {} \in SUBSET (0..7)
    OBVIOUS
  <2> QED
    BY <1>1, <2>1
<1> QED
  BY <1>1, <1>2 DEF Number

\* The shifts are counted by their recursion.
LEMMA ShiftsSolved ==
    \A id \in 0..255 : Shifts[id] = IF id > 1 THEN Shifts[id \div 2] + 1 ELSE 0
<1> DEFINE w == [id \in 0..255 |->
                   IF id <= 1 THEN 0 ELSE IF id <= 3 THEN 1 ELSE IF id <= 7 THEN 2
                   ELSE IF id <= 15 THEN 3 ELSE IF id <= 31 THEN 4 ELSE IF id <= 63 THEN 5
                   ELSE IF id <= 127 THEN 6 ELSE 7]
           Right(h) == h = [id \in 0..255 |-> IF id > 1 THEN h[id \div 2] + 1 ELSE 0]
<1>1. ASSUME NEW id \in 0..255
      PROVE  w[id] = IF id > 1 THEN w[id \div 2] + 1 ELSE 0
  <2>1. id \div 2 \in 0..255
    OBVIOUS
  <2> QED
    BY <2>1
<1>2. Right(w)
  BY <1>1
<1>3. Right(CHOOSE h : Right(h))
  BY <1>2
<1>4. Right(Shifts)
  BY <1>3 DEF Shifts
<1> QED
  BY <1>4

\* A binary id tells its djinn, and a later djinn has a greater one.
LEMMA BinaryIds ==
    /\ \A d \in Djinn : 2^d \in 1..255 /\ Shifts[2^d] = d
    /\ \A c, d \in Djinn : c < d => 2^c < 2^d
<1>1. \A d \in Djinn : d \in 0..7
  BY DjinnAssumption DEF Djinn
<1>2. /\ 2^0 = 1 /\ 2^1 = 2 /\ 2^2 = 4 /\ 2^3 = 8
      /\ 2^4 = 16 /\ 2^5 = 32 /\ 2^6 = 64 /\ 2^7 = 128
  OBVIOUS
<1>3. Shifts[1] = 0
  BY ShiftsSolved
<1>4. Shifts[2] = 1 /\ Shifts[4] = 2 /\ Shifts[8] = 3
  BY <1>3, ShiftsSolved
<1>5. Shifts[16] = 4 /\ Shifts[32] = 5 /\ Shifts[64] = 6 /\ Shifts[128] = 7
  BY <1>4, ShiftsSolved
<1>6. PICK power, shifts : /\ power = [d \in 0..7 |-> 2^d]
                           /\ shifts = [d \in 0..7 |-> Shifts[2^d]]
  OBVIOUS
<1>7. /\ power[0] = 1 /\ power[1] = 2 /\ power[2] = 4 /\ power[3] = 8
      /\ power[4] = 16 /\ power[5] = 32 /\ power[6] = 64 /\ power[7] = 128
  BY <1>2, <1>6
<1>8. /\ shifts[0] = 0 /\ shifts[1] = 1 /\ shifts[2] = 2 /\ shifts[3] = 3
      /\ shifts[4] = 4 /\ shifts[5] = 5 /\ shifts[6] = 6 /\ shifts[7] = 7
  BY <1>2, <1>3, <1>4, <1>5, <1>6
<1>9. \A d \in 0..7 : power[d] \in 1..255
  BY <1>7
<1>10. \A d \in 0..7 : shifts[d] = d
  BY <1>8
<1>11. \A c, d \in 0..7 : c < d => power[c] < power[d]
  BY <1>7
<1>12. \A d \in 0..7 : power[d] = 2^d /\ shifts[d] = Shifts[2^d]
  BY <1>6
<1>13. ASSUME NEW d \in Djinn PROVE 2^d \in 1..255 /\ Shifts[2^d] = d
  <2>1. d \in 0..7
    BY <1>1
  <2>2. power[d] = 2^d /\ shifts[d] = Shifts[2^d]
    BY <1>12, <2>1
  <2> QED
    BY <1>9, <1>10, <2>1, <2>2
<1>14. ASSUME NEW c \in Djinn, NEW d \in Djinn, c < d PROVE 2^c < 2^d
  <2>1. c \in 0..7 /\ d \in 0..7
    BY <1>1
  <2>2. power[c] = 2^c /\ power[d] = 2^d
    BY <1>12, <2>1
  <2> QED
    BY <1>11, <1>14, <2>1, <2>2
<1> QED
  BY <1>13, <1>14

\* A word of the game holds its djinn, and byte_flipper makes such a word.
LEMMA WordFacts ==
    ASSUME NEW B \in SUBSET Djinn
    PROVE  /\ GameWord[B] = <<0, 0, Number(B)>>
           /\ Owned(GameWord[B]) = B
           /\ count_unallocated(GameWord[B]) = Cardinality(B)
           /\ byte_flipper(Bytes(Number(B))) = GameWord[B]
<1>1. B \in SUBSET (0..7)
  BY DjinnAssumption DEF Djinn
<1>2. Number(B) \in 0..255 /\ Bits[Number(B)] = B /\ Bits[0] = {}
  BY <1>1, NumberBits
<1>3. Reverse(Bytes(Number(B))) = <<0, 0, Number(B)>>
  BY DEF Reverse, Bytes
<1>4. GameWord[B] = <<0, 0, Number(B)>>
  BY <1>3 DEF GameWord
<1>5. Owned(GameWord[B]) = B
  BY <1>2, <1>4 DEF Owned
<1>6. count_unallocated(GameWord[B]) = Cardinality(B)
  <2>1. Cardinality(B) \in Nat
    <3>1. IsFiniteSet(0..7)
      <4>1. 0 \in Int /\ 7 \in Int
        OBVIOUS
      <4> QED
        BY <4>1, FS_Interval, Zenon
    <3> QED
      BY <1>1, <3>1, FS_Subset, FS_CardinalityType
  <2> QED
    BY <1>2, <1>4, <2>1, FS_EmptySet DEF count_unallocated
<1> QED
  BY <1>3, <1>4, <1>5, <1>6 DEF byte_flipper, GameWord

\* What is read of a Unit that the game keeps is what the game put there.
LEMMA UnitFacts ==
    ASSUME NEW D \in [Elements -> SUBSET Djinn], NEW S \in [Elements -> SUBSET Djinn],
           NEW u, u = UnitOf(D, S)
    PROVE  /\ [e \in Elements |-> Owned(u.djinn_have[e])] = D
           /\ [e \in Elements |-> Owned(u.djinn_set[e])] = S
<1>1. \A e \in Elements : u.djinn_have[e] = GameWord[D[e]] /\ u.djinn_set[e] = GameWord[S[e]]
  BY DEF UnitOf
<1>2. \A e \in Elements : Owned(GameWord[D[e]]) = D[e] /\ Owned(GameWord[S[e]]) = S[e]
  BY WordFacts
<1> QED
  BY <1>1, <1>2

\* A sharing, as the Units of it show it.
LEMMA ShareHas ==
    ASSUME NEW owner, NEW a, NEW e \in Elements, NEW d \in Djinn
    PROVE  d \in Share(owner, a)[e] <=> owner[<<e, d>>] = a
<1>1. Share(owner, a)[e] = ShareOf(owner, a, e)
  BY DEF Share
<1>2. d \in ShareOf(owner, a, e) <=> owner[<<e, d>>] = a
  BY DEF ShareOf
<1> QED
  BY <1>1, <1>2

LEMMA ShareTyped ==
    ASSUME NEW owner, NEW a
    PROVE  Share(owner, a) \in [Elements -> SUBSET Djinn]
<1>1. \A e \in Elements : ShareOf(owner, a, e) \in SUBSET Djinn
  BY DEF ShareOf
<1> QED
  BY <1>1 DEF Share

\* All the djinn there are.
LEMMA FiniteHoldings ==
    /\ IsFiniteSet(Elements \X Djinn)
    /\ \A f : IsFiniteSet(Holding(f)) /\ Cardinality(Holding(f)) \in Nat
<1>1. IsFiniteSet(Elements) /\ IsFiniteSet(Djinn)
  BY FS_Interval, DjinnAssumption DEF Elements, Djinn
<1>2. IsFiniteSet(Elements \X Djinn)
  BY <1>1, FS_Product
<1>3. \A f : Holding(f) \subseteq Elements \X Djinn
  BY DEF Holding
<1> QED
  BY <1>2, <1>3, FS_Subset, FS_CardinalityType

\* An even sharing is one that a save may have.
LEMMA SharingsAreSaves == Sharings \subseteq Saves(EvenShare)
<1> SUFFICES ASSUME NEW owner \in Sharings PROVE owner \in Saves(EvenShare)
  OBVIOUS
<1>1. owner \in [Elements \X Djinn -> Allies \cup {Nobody}]
  BY DEF Sharings
<1>2. ASSUME NEW a \in Allies PROVE Cardinality(Owns(owner, a)) <= EvenShare
  <2>1. Owns(owner, a) \subseteq Elements \X Djinn
    BY DEF Owns
  <2>2. Cardinality(Owns(owner, a)) \in Nat
    BY <2>1, FiniteHoldings, FS_Subset, FS_CardinalityType
  <2> QED
    BY <2>2 DEF Sharings
<1> QED
  BY <1>1, <1>2 DEF Saves

\* Nobody has more than an even share in a save.
LEMMA ShareIsEven ==
    ASSUME NEW owner \in Saves(EvenShare), NEW a \in Allies
    PROVE  Cardinality(Holding(Share(owner, a))) <= EvenShare
<1>1. ASSUME NEW x \in Elements \X Djinn
      PROVE  x[2] \in Share(owner, a)[x[1]] <=> owner[x] = a
  <2>1. x[1] \in Elements /\ x[2] \in Djinn /\ x = <<x[1], x[2]>>
    OBVIOUS
  <2> QED
    BY <2>1, ShareHas
<1>2. Holding(Share(owner, a)) = Owns(owner, a)
  BY <1>1 DEF Holding, Owns
<1> QED
  BY <1>2 DEF Saves

\* Units that are put together from djinn and set djinn show these.
LEMMA UnitsPut ==
    ASSUME NEW D \in [Allies -> [Elements -> SUBSET Djinn]],
           NEW S \in [Allies -> [Elements -> SUBSET Djinn]],
           \A a \in Allies, e \in Elements : S[a][e] \subseteq D[a][e],
           units' = [a \in Allies |-> UnitOf(D[a], S[a])]
    PROVE  /\ UnitsWhole'
           /\ UnitsAgree'
           /\ \A a \in Allies : Have(a)' = D[a] /\ Set(a)' = S[a]
<1>1. ASSUME NEW a \in Allies PROVE Have(a)' = D[a] /\ Set(a)' = S[a]
  <2>1. units'[a] = UnitOf(D[a], S[a])
    OBVIOUS
  <2>2. D[a] \in [Elements -> SUBSET Djinn] /\ S[a] \in [Elements -> SUBSET Djinn]
    OBVIOUS
  <2> QED
    BY <2>1, <2>2, UnitFacts DEF Have, Set
<1>2. UnitsWhole'
  BY DEF UnitsWhole, UnitOf
<1>3. \A a \in Allies : units'[a] = UnitOf(Have(a)', Set(a)')
  BY <1>1
<1>4. UnitsAgree'
  <2>1. \A a \in Allies, e \in Elements : S[a][e] \subseteq D[a][e] /\ D[a][e] \subseteq Djinn
    OBVIOUS
  <2> QED
    BY <1>1, <1>3, <2>1 DEF UnitsAgree
<1> QED
  BY <1>1, <1>2, <1>4

\* In a quiet moment the Units are put together from what is read of them.
LEMMA UnitsRead ==
    ASSUME UnitsWhole, UnitsAgree
    PROVE  /\ units = [a \in Allies |-> UnitOf(Have(a), Set(a))]
           /\ \A a \in Allies : /\ Have(a) \in [Elements -> SUBSET Djinn]
                                /\ Set(a) \in [Elements -> SUBSET Djinn]
                                /\ \A e \in Elements : Set(a)[e] \subseteq Have(a)[e]
<1>1. \A a \in Allies : /\ Have(a) = [e \in Elements |-> Have(a)[e]]
                        /\ Set(a) = [e \in Elements |-> Set(a)[e]]
  BY DEF Have, Set
<1>2. \A a \in Allies : \A e \in Elements :
        Have(a)[e] \subseteq Djinn /\ Set(a)[e] \subseteq Have(a)[e]
  BY DEF UnitsAgree
<1>3. units = [a \in Allies |-> units[a]] /\ \A a \in Allies : units[a] = UnitOf(Have(a), Set(a))
  BY DEF UnitsWhole, UnitsAgree
<1>4. units = [a \in Allies |-> UnitOf(Have(a), Set(a))]
  BY <1>3
<1>5. \A a \in Allies : Have(a) \in [Elements -> SUBSET Djinn] /\ Set(a) \in [Elements -> SUBSET Djinn]
  BY <1>1, <1>2
<1> QED
  BY <1>2, <1>4, <1>5

----------------------------------------------------------------------------
(* Steps.                                                                    *)

\* The memory starts out shared, with every djinn set.
LEMMA DjinnInitInv == MemoryInit => DjinnInv
<1> SUFFICES ASSUME MemoryInit PROVE DjinnInv
  OBVIOUS
<1>1. PICK owner \in Saves(EvenShare) :
        units = [a \in Allies |-> UnitOf(Share(owner, a), Share(owner, a))]
  BY DEF MemoryInit
<1>2. queue = <<>> /\ todo = 0 /\ torn = FALSE
  BY DEF MemoryInit
<1>3. \A a \in Allies : Have(a) = Share(owner, a) /\ Set(a) = Share(owner, a)
  <2> SUFFICES ASSUME NEW a \in Allies
               PROVE  Have(a) = Share(owner, a) /\ Set(a) = Share(owner, a)
    OBVIOUS
  <2>1. units[a] = UnitOf(Share(owner, a), Share(owner, a))
    BY <1>1
  <2> QED
    BY <2>1, ShareTyped, UnitFacts DEF Have, Set
<1>4. UnitsWhole
  BY <1>1 DEF UnitsWhole, UnitOf
<1>5. UnitsAgree
  <2>1. \A a \in Allies : Share(owner, a) \in [Elements -> SUBSET Djinn]
    BY ShareTyped
  <2> QED
    BY <1>1, <1>3, <2>1 DEF UnitsAgree
<1>6. OneOwner
  <2> SUFFICES ASSUME NEW a \in Allies, NEW b \in Allies, NEW e \in Elements, NEW d \in Djinn,
                      d \in Have(a)[e], d \in Have(b)[e]
               PROVE  a = b
    BY DEF OneOwner
  <2>1. d \in Share(owner, a)[e] /\ d \in Share(owner, b)[e]
    BY <1>3
  <2>2. owner[<<e, d>>] = a
    BY <2>1, ShareHas
  <2>3. owner[<<e, d>>] = b
    BY <2>1, ShareHas
  <2> QED
    BY <2>2, <2>3
<1>7. QueueAgrees
  BY <1>2, <1>3 DEF QueueAgrees
<1>8. EvenShares
  BY <1>3, ShareIsEven DEF EvenShares
<1>9. todo \in 0..NWrites /\ ~(todo > 0)
  BY <1>2, DjinnAssumption DEF NWrites
<1>10. torn \in BOOLEAN /\ Quiet
  BY <1>2 DEF Quiet
<1> QED
  BY <1>4, <1>5, <1>6, <1>7, <1>8, <1>9, <1>10 DEF DjinnInv

\* A quiet moment followed by a quiet one.
LEMMA StaysQuiet ==
    ASSUME DjinnInv, Quiet, UNCHANGED <<todo, torn>>,
           UnitsWhole', UnitsAgree', OneOwner', EvenShares', QueueAgrees'
    PROVE  DjinnInv'
<1>1. Quiet' /\ ~(todo > 0)'
  BY DEF Quiet
<1>2. todo' \in 0..NWrites /\ torn' \in BOOLEAN
  BY DEF DjinnInv, NWrites
<1> QED
  BY <1>1, <1>2 DEF DjinnInv

\* The facts of a quiet moment.
LEMMA QuietFacts ==
    ASSUME DjinnInv, Quiet
    PROVE  /\ UnitsWhole /\ UnitsAgree /\ OneOwner /\ EvenShares /\ QueueAgrees
           /\ queue \in Seq(Entry)
           /\ \A i \in DOMAIN queue :
                /\ queue[i] \in Entry
                /\ queue[i].djinn \in Have(queue[i].owner)[queue[i].element]
                /\ queue[i].djinn \notin Set(queue[i].owner)[queue[i].element]
           /\ \A i, j \in DOMAIN queue : SameDjinn(queue[i], queue[j]) => i = j
BY DEF DjinnInv, QueueAgrees

\* In a quiet moment the queue tells of every djinn that is not set.
LEMMA QueueTells ==
    ASSUME DjinnInv, Quiet, NEW a \in Allies, NEW e \in Elements, NEW d \in Djinn,
           d \in Have(a)[e], d \notin Set(a)[e]
    PROVE  \E i \in DOMAIN queue : Tells(queue[i], a, e, d)
BY DEF DjinnInv, QueueAgrees

\* The game puts other djinn of an ally's among the set ones: the Units agree
\* again, and who has what is as before.
LEMMA SetChanges ==
    ASSUME UnitsWhole, UnitsAgree, OneOwner, EvenShares, NEW a \in Allies, NEW e \in Elements,
           NEW T, T \subseteq Have(a)[e],
           units' = [units EXCEPT ![a] = UnitOf(Have(a), With(Set(a), e, T))]
    PROVE  /\ UnitsWhole' /\ UnitsAgree' /\ OneOwner' /\ EvenShares'
           /\ \A b \in Allies : Have(b)' = Have(b)
           /\ Set(a)'[e] = T
           /\ \A b \in Allies : \A f \in Elements :
                b # a \/ f # e => Set(b)'[f] = Set(b)[f]
<1> DEFINE D == [b \in Allies |-> Have(b)]
           S == [b \in Allies |-> IF b = a THEN With(Set(a), e, T) ELSE Set(b)]
<1>1. /\ units = [b \in Allies |-> UnitOf(Have(b), Set(b))]
      /\ \A b \in Allies : /\ Have(b) \in [Elements -> SUBSET Djinn]
                           /\ Set(b) \in [Elements -> SUBSET Djinn]
                           /\ \A f \in Elements : Set(b)[f] \subseteq Have(b)[f]
  BY UnitsRead
<1>2. T \subseteq Djinn
  BY <1>1
<1>3. /\ With(Set(a), e, T) \in [Elements -> SUBSET Djinn]
      /\ \A f \in Elements : With(Set(a), e, T)[f] = IF f = e THEN T ELSE Set(a)[f]
  BY <1>1, <1>2 DEF With
<1>4. D \in [Allies -> [Elements -> SUBSET Djinn]] /\ S \in [Allies -> [Elements -> SUBSET Djinn]]
  BY <1>1, <1>3
<1>5. \A b \in Allies, f \in Elements : S[b][f] \subseteq D[b][f]
  <2> SUFFICES ASSUME NEW b \in Allies, NEW f \in Elements PROVE S[b][f] \subseteq D[b][f]
    OBVIOUS
  <2>1. CASE b = a
    BY <1>1, <1>3, <2>1
  <2>2. CASE b # a
    BY <1>1, <2>2
  <2> QED
    BY <2>1, <2>2
<1>6. units' = [b \in Allies |-> UnitOf(D[b], S[b])]
  BY <1>1
<1>7. \A b \in Allies : D[b] = Have(b) /\ S[b] = IF b = a THEN With(Set(a), e, T) ELSE Set(b)
  OBVIOUS
<1> HIDE DEF D, S
<1>8. UnitsWhole' /\ UnitsAgree' /\ \A b \in Allies : Have(b)' = D[b] /\ Set(b)' = S[b]
  BY <1>4, <1>5, <1>6, UnitsPut
<1>9. \A b \in Allies : Have(b)' = Have(b)
  BY <1>7, <1>8
<1>10. OneOwner'
  BY <1>9 DEF OneOwner
<1>11. EvenShares'
  BY <1>9 DEF EvenShares
<1>12. /\ Set(a)'[e] = T
       /\ \A b \in Allies : \A f \in Elements :
            b # a \/ f # e => Set(b)'[f] = Set(b)[f]
  BY <1>3, <1>7, <1>8
<1> QED
  BY <1>8, <1>9, <1>10, <1>11, <1>12

\* A djinn leaves the set and is told of at the end of the queue.
LEMMA ToStandbyKeeps ==
    ASSUME DjinnInv, Quiet, NEW a \in Allies, NEW e \in Elements, NEW d \in Djinn,
           ToStandby(a, e, d)
    PROVE  DjinnInv'
<1>1. PICK T : T = Set(a)[e] \ {d}
  OBVIOUS
<1> DEFINE new == [owner |-> a, element |-> e, djinn |-> d, status |-> STANDBY]
<1>2. /\ d \in Set(a)[e] /\ UNCHANGED <<todo, torn>>
      /\ units' = [units EXCEPT ![a] = UnitOf(Have(a), With(Set(a), e, T))]
      /\ queue' = Append(queue, new)
  BY <1>1 DEF ToStandby, GameRuns, writerVars
<1>3. T \subseteq Have(a)[e] /\ d \in Have(a)[e]
  BY <1>1, <1>2, QuietFacts DEF UnitsAgree
<1>4. /\ UnitsWhole' /\ UnitsAgree' /\ OneOwner' /\ EvenShares'
      /\ \A b \in Allies : Have(b)' = Have(b)
      /\ Set(a)'[e] = T
      /\ \A b \in Allies : \A f \in Elements :
           b # a \/ f # e => Set(b)'[f] = Set(b)[f]
  <2>1. UnitsWhole /\ UnitsAgree /\ OneOwner /\ EvenShares
    BY QuietFacts
  <2>2. T \subseteq Have(a)[e]
    BY <1>3
  <2>3. units' = [units EXCEPT ![a] = UnitOf(Have(a), With(Set(a), e, T))]
    BY <1>2
  <2> QED
    BY <2>1, <2>2, <2>3, SetChanges
<1>5. new \in Entry
  BY DEF Entry
<1>6. /\ queue \in Seq(Entry) /\ queue' \in Seq(Entry)
      /\ Len(queue') = Len(queue) + 1
      /\ \A i \in 1..Len(queue) : queue'[i] = queue[i]
      /\ queue'[Len(queue) + 1] = new
  BY <1>2, <1>5, QuietFacts
<1>7. new.owner = a /\ new.element = e /\ new.djinn = d
  OBVIOUS
<1> HIDE DEF new
<1>8. ASSUME NEW i \in DOMAIN queue', NEW q \in Entry, queue'[i] = q
      PROVE  q.djinn \in Have(q.owner)'[q.element] \ Set(q.owner)'[q.element]
  <2>1. q.owner \in Allies /\ q.element \in Elements
    BY DEF Entry
  <2>2. CASE i = Len(queue) + 1
    <3>1. q = new
      BY <1>6, <1>8, <2>2
    <3> QED
      BY <1>1, <1>3, <1>4, <1>7, <2>1, <3>1
  <2>3. CASE i \in 1..Len(queue)
    <3>1. queue[i] = q
      BY <1>6, <1>8, <2>3
    <3>2. q.djinn \in Have(q.owner)[q.element] /\ q.djinn \notin Set(q.owner)[q.element]
      BY <1>6, <2>3, <3>1, QuietFacts
    <3>3. q.djinn \in Have(q.owner)'[q.element]
      BY <1>4, <2>1, <3>2
    <3>4. q.djinn \notin Set(q.owner)'[q.element]
      BY <1>1, <1>4, <2>1, <3>2
    <3> QED
      BY <3>3, <3>4
  <2> QED
    BY <1>6, <2>2, <2>3
<1>9. \A i, j \in DOMAIN queue' : SameDjinn(queue'[i], queue'[j]) => i = j
  <2>1. \A i \in 1..Len(queue) : ~SameDjinn(queue[i], new) /\ ~SameDjinn(new, queue[i])
    BY <1>2, <1>6, <1>7, QuietFacts DEF SameDjinn
  <2> QED
    BY <1>6, <2>1, QuietFacts
<1>10. ASSUME NEW b \in Allies, NEW f \in Elements, NEW c \in Djinn,
              c \in Have(b)'[f] \ Set(b)'[f]
       PROVE  \E i \in DOMAIN queue' : Tells(queue'[i], b, f, c)
  <2>1. c \in Have(b)[f]
    BY <1>4, <1>10
  <2>2. CASE b = a /\ f = e /\ c = d
    BY <1>6, <1>7, <2>2 DEF Tells
  <2>3. CASE ~(b = a /\ f = e /\ c = d)
    <3>1. c \notin Set(b)[f]
      BY <1>1, <1>4, <1>10, <2>3
    <3>2. PICK i \in DOMAIN queue : Tells(queue[i], b, f, c)
      BY <2>1, <3>1, QueueTells
    <3>3. i \in DOMAIN queue' /\ queue'[i] = queue[i]
      BY <1>6
    <3> QED
      BY <3>2, <3>3 DEF Tells
  <2> QED
    BY <2>2, <2>3
<1>11. QueueAgrees'
  BY <1>6, <1>8, <1>9, <1>10 DEF QueueAgrees
<1> QED
  BY <1>2, <1>4, <1>11, StaysQuiet

\* A summon spends the djinn: its entry stays, with another status.
LEMMA SummonedKeeps ==
    ASSUME DjinnInv, Quiet, NEW i \in DOMAIN queue, Summoned(i)
    PROVE  DjinnInv'
<1>1. /\ queue' = [queue EXCEPT ![i].status = RECOVERY]
      /\ units' = units /\ UNCHANGED <<todo, torn>>
  BY DEF Summoned, GameRuns, writerVars
<1>2. \A a : Have(a)' = Have(a) /\ Set(a)' = Set(a)
  BY <1>1 DEF Have, Set
<1>3. UnitsWhole' /\ UnitsAgree' /\ OneOwner' /\ EvenShares'
  <2>1. UnitsWhole /\ UnitsAgree /\ OneOwner /\ EvenShares
    BY QuietFacts
  <2>2. UnitsWhole'
    BY <1>1, <2>1 DEF UnitsWhole
  <2>3. UnitsAgree'
    BY <1>1, <1>2, <2>1 DEF UnitsAgree
  <2>4. OneOwner' /\ EvenShares'
    BY <1>2, <2>1 DEF OneOwner, EvenShares
  <2> QED
    BY <2>2, <2>3, <2>4
<1>4. /\ DOMAIN queue' = DOMAIN queue
      /\ queue' \in Seq(Entry)
      /\ \A j \in DOMAIN queue : /\ queue'[j].owner = queue[j].owner
                                 /\ queue'[j].element = queue[j].element
                                 /\ queue'[j].djinn = queue[j].djinn
  BY <1>1, QuietFacts DEF Entry
<1>5. ASSUME NEW j \in DOMAIN queue', NEW q \in Entry, queue'[j] = q
      PROVE  q.djinn \in Have(q.owner)'[q.element] \ Set(q.owner)'[q.element]
  <2>1. q.owner = queue[j].owner /\ q.element = queue[j].element /\ q.djinn = queue[j].djinn
    BY <1>4, <1>5
  <2>2. q.djinn \in Have(q.owner)[q.element] /\ q.djinn \notin Set(q.owner)[q.element]
    BY <1>4, <2>1, QuietFacts
  <2> QED
    BY <1>2, <2>2
<1>6. \A j, k \in DOMAIN queue' : SameDjinn(queue'[j], queue'[k]) => j = k
  BY <1>4, QuietFacts DEF SameDjinn
<1>7. \A b \in Allies, f \in Elements, c \in Djinn :
        c \in Have(b)'[f] \ Set(b)'[f] => \E j \in DOMAIN queue' : Tells(queue'[j], b, f, c)
  BY <1>2, <1>4, QueueTells DEF Tells
<1>8. QueueAgrees'
  BY <1>4, <1>5, <1>6, <1>7 DEF QueueAgrees
<1> QED
  BY <1>1, <1>3, <1>8, StaysQuiet

\* A sequence without its i-th element.
LEMMA Removed ==
    ASSUME NEW T, NEW s \in Seq(T), NEW i \in 1..Len(s)
    PROVE  /\ RemoveAt(s, i) \in Seq(T)
           /\ Len(RemoveAt(s, i)) = Len(s) - 1
           /\ \A j \in 1..(Len(s) - 1) :
                RemoveAt(s, i)[j] = IF j < i THEN s[j] ELSE s[j + 1]
<1> DEFINE l == SubSeq(s, 1, i - 1)
           r == SubSeq(s, i + 1, Len(s))
<1>1. /\ l \in Seq(T) /\ Len(l) = i - 1 /\ \A j \in 1..(i - 1) : l[j] = s[j]
  OBVIOUS
<1>2. r \in Seq(T) /\ Len(r) = Len(s) - i /\ \A j \in 1..(Len(s) - i) : r[j] = s[j + i]
  OBVIOUS
<1>3. RemoveAt(s, i) = l \o r
  BY DEF RemoveAt
<1> HIDE DEF l, r
<1>4. l \o r \in Seq(T) /\ Len(l \o r) = Len(s) - 1
  <2>1. l \in Seq(T) /\ r \in Seq(T)
    BY <1>1, <1>2
  <2>2. l \o r \in Seq(T) /\ Len(l \o r) = Len(l) + Len(r)
    BY <2>1
  <2>3. Len(s) \in Nat /\ i \in Nat
    OBVIOUS
  <2> QED
    BY <1>1, <1>2, <2>2, <2>3
<1>5. ASSUME NEW j \in 1..(Len(s) - 1)
      PROVE  (l \o r)[j] = IF j < i THEN s[j] ELSE s[j + 1]
  <2>1. CASE j < i
    BY <1>1, <1>2, <2>1
  <2>2. CASE j >= i
    <3>1. (l \o r)[j] = r[j - (i - 1)]
      BY <1>1, <1>2, <2>2
    <3>2. j - (i - 1) \in 1..(Len(s) - i) /\ (j - (i - 1)) + i = j + 1
      BY <2>2
    <3> QED
      BY <1>2, <2>2, <3>1, <3>2
  <2>3. j < i \/ j >= i
    <3>1. Len(s) \in Nat
      OBVIOUS
    <3> QED
      BY <3>1
  <2> QED
    BY <2>1, <2>2, <2>3
<1> QED
  BY <1>3, <1>4, <1>5

\* A recovered djinn is set again, and nothing in the queue tells of it.
LEMMA RecoveredKeeps ==
    ASSUME DjinnInv, Quiet, NEW i \in DOMAIN queue, Recovered(i)
    PROVE  DjinnInv'
<1>1. PICK x \in Entry : x = queue[i]
  BY QuietFacts
<1>2. PICK a \in Allies, e \in Elements, d \in Djinn :
        a = x.owner /\ e = x.element /\ d = x.djinn
  BY DEF Entry
<1>3. PICK T : T = Set(a)[e] \cup {d}
  OBVIOUS
<1>4. /\ queue' = RemoveAt(queue, i) /\ UNCHANGED <<todo, torn>>
      /\ units' = [units EXCEPT ![a] = UnitOf(Have(a), With(Set(a), e, T))]
  BY <1>1, <1>2, <1>3 DEF Recovered, GameRuns, writerVars
<1>5. T \subseteq Have(a)[e]
  <2>1. d \in Have(a)[e]
    BY <1>1, <1>2, QuietFacts
  <2> QED
    BY <1>3, <2>1, QuietFacts DEF UnitsAgree
<1>6. /\ UnitsWhole' /\ UnitsAgree' /\ OneOwner' /\ EvenShares'
      /\ \A b \in Allies : Have(b)' = Have(b)
      /\ Set(a)'[e] = T
      /\ \A b \in Allies : \A f \in Elements :
           b # a \/ f # e => Set(b)'[f] = Set(b)[f]
  <2>1. UnitsWhole /\ UnitsAgree /\ OneOwner /\ EvenShares
    BY QuietFacts
  <2> QED
    BY <1>4, <1>5, <2>1, SetChanges
<1>7. /\ queue \in Seq(Entry) /\ queue' \in Seq(Entry)
      /\ Len(queue) \in Nat /\ i \in 1..Len(queue)
      /\ Len(queue') = Len(queue) - 1
      /\ \A j \in 1..(Len(queue) - 1) : queue'[j] = IF j < i THEN queue[j] ELSE queue[j + 1]
  BY <1>4, QuietFacts, Removed
<1>8. ASSUME NEW j \in DOMAIN queue'
      PROVE  \E k \in DOMAIN queue :
                k # i /\ queue'[j] = queue[k] /\ k = IF j < i THEN j ELSE j + 1
  BY <1>7
<1>9. ASSUME NEW j \in DOMAIN queue', NEW q \in Entry, queue'[j] = q
      PROVE  q.djinn \in Have(q.owner)'[q.element] \ Set(q.owner)'[q.element]
  <2>1. PICK k \in DOMAIN queue : k # i /\ queue[k] = q
    BY <1>8, <1>9
  <2>2. q.djinn \in Have(q.owner)[q.element] /\ q.djinn \notin Set(q.owner)[q.element]
    BY <2>1, QuietFacts
  <2>3. ~SameDjinn(q, x)
    BY <1>1, <2>1, QuietFacts
  <2>4. q.owner \in Allies /\ q.element \in Elements
    BY DEF Entry
  <2>5. q.djinn \in Have(q.owner)'[q.element]
    BY <1>6, <2>2, <2>4
  <2>6. q.djinn \notin Set(q.owner)'[q.element]
    BY <1>2, <1>3, <1>6, <2>2, <2>3, <2>4 DEF SameDjinn
  <2> QED
    BY <2>5, <2>6
<1>10. ASSUME NEW j \in DOMAIN queue', NEW k \in DOMAIN queue',
              SameDjinn(queue'[j], queue'[k])
       PROVE  j = k
  <2>1. PICK m \in DOMAIN queue : queue'[j] = queue[m] /\ m = IF j < i THEN j ELSE j + 1
    BY <1>8
  <2>2. PICK n \in DOMAIN queue : queue'[k] = queue[n] /\ n = IF k < i THEN k ELSE k + 1
    BY <1>8
  <2>3. m = n
    BY <1>10, <2>1, <2>2, QuietFacts
  <2> QED
    BY <1>7, <2>1, <2>2, <2>3
<1>11. ASSUME NEW b \in Allies, NEW f \in Elements, NEW c \in Djinn,
              c \in Have(b)'[f] \ Set(b)'[f]
       PROVE  \E j \in DOMAIN queue' : Tells(queue'[j], b, f, c)
  <2>1. c \in Have(b)[f] /\ c \notin Set(b)[f] /\ ~(b = a /\ f = e /\ c = d)
    BY <1>3, <1>6, <1>11
  <2>2. PICK k \in DOMAIN queue : Tells(queue[k], b, f, c)
    BY <2>1, QueueTells
  <2>3. k # i
    BY <1>1, <1>2, <2>1, <2>2 DEF Tells
  <2>4. PICK j : j = IF k < i THEN k ELSE k - 1
    OBVIOUS
  <2>5. j \in DOMAIN queue' /\ queue'[j] = queue[k]
    BY <1>7, <2>2, <2>3, <2>4
  <2> QED
    BY <2>2, <2>5
<1>12. QueueAgrees'
  BY <1>7, <1>9, <1>10, <1>11 DEF QueueAgrees
<1> QED
  BY <1>4, <1>6, <1>12, StaysQuiet

\* What an exchange leaves an ally.
LEMMA Exchanged ==
    ASSUME NEW f \in [Elements -> SUBSET Djinn], NEW g \in [Elements -> SUBSET Djinn],
           NEW out \in Elements \X Djinn, NEW in \in Elements \X Djinn
    PROVE  /\ Moved(f, g, out, in) \in [Elements -> SUBSET Djinn]
           /\ \A e \in Elements : \A d \in Djinn : d \in Moved(f, g, out, in)[e] <=>
                \/ d \in f[e] /\ ~(e = out[1] /\ d = out[2])
                \/ d \in g[e] /\ e = in[1] /\ d = in[2]
<1>1. /\ out = <<out[1], out[2]>> /\ in = <<in[1], in[2]>>
  OBVIOUS
<1>2. \A e, d : <<e, d>> = out <=> e = out[1] /\ d = out[2]
  BY <1>1
<1>3. \A e, d : <<e, d>> = in <=> e = in[1] /\ d = in[2]
  BY <1>1
<1>4. \A e \in Elements : f[e] \in SUBSET Djinn /\ g[e] \in SUBSET Djinn
  OBVIOUS
<1>5. \A e \in Elements : Moved(f, g, out, in)[e] =
        {d \in f[e] : <<e, d>> # out} \cup {d \in g[e] : <<e, d>> = in}
  BY DEF Moved
<1>6. \A e \in Elements :
        {d \in f[e] : <<e, d>> # out} \cup {d \in g[e] : <<e, d>> = in} \in SUBSET Djinn
  BY <1>4
<1>7. Moved(f, g, out, in) \in [Elements -> SUBSET Djinn]
  BY <1>6 DEF Moved
<1> QED
  BY <1>2, <1>3, <1>5, <1>7

\* An exchange leaves an ally as many djinn.
LEMMA HoldingExchanged ==
    ASSUME NEW f, NEW g, NEW out \in Elements \X Djinn, NEW in \in Elements \X Djinn,
           out[2] \in f[out[1]], in[2] \notin f[in[1]],
           \A e \in Elements : \A d \in Djinn : d \in g[e] <=>
             \/ d \in f[e] /\ ~(e = out[1] /\ d = out[2])
             \/ e = in[1] /\ d = in[2]
    PROVE  Cardinality(Holding(g)) = Cardinality(Holding(f))
<1>1. out \in Holding(f) /\ in \notin Holding(f)
  BY DEF Holding
<1>2. \A x, y \in Elements \X Djinn : x = y <=> x[1] = y[1] /\ x[2] = y[2]
  OBVIOUS
<1>3. \A x \in Elements \X Djinn : x[2] \in g[x[1]] <=>
        (x[2] \in f[x[1]] /\ x # out) \/ x = in
  BY <1>2
<1>4. Holding(g) = (Holding(f) \ {out}) \cup {in}
  BY <1>3 DEF Holding
<1>5. /\ IsFiniteSet(Holding(f) \ {out})
      /\ Cardinality(Holding(f) \ {out}) = Cardinality(Holding(f)) - 1
  BY <1>1, FiniteHoldings, FS_RemoveElement
<1>6. Cardinality(Holding(g)) = Cardinality(Holding(f) \ {out}) + 1
  BY <1>1, <1>4, <1>5, FS_AddElement
<1> QED
  BY <1>5, <1>6, FiniteHoldings

\* Two allies exchange two djinn, and the queue tells of the new owners.
LEMMA TradeKeeps ==
    ASSUME DjinnInv, Quiet, NEW a \in Allies, NEW b \in Allies,
           NEW x \in Elements \X Djinn, NEW y \in Elements \X Djinn, Trade(a, b, x, y)
    PROVE  DjinnInv'
<1> DEFINE D == [c \in Allies |-> IF c = a THEN Moved(Have(a), Have(b), x, y)
                                  ELSE IF c = b THEN Moved(Have(b), Have(a), y, x) ELSE Have(c)]
           S == [c \in Allies |-> IF c = a THEN Moved(Set(a), Set(b), x, y)
                                  ELSE IF c = b THEN Moved(Set(b), Set(a), y, x) ELSE Set(c)]
           Is(e, d, z) == e = z[1] /\ d = z[2]
           New(o, e, d) == IF o = a /\ Is(e, d, x) THEN b
                           ELSE IF o = b /\ Is(e, d, y) THEN a ELSE o
<1>1. /\ a # b /\ x[2] \in Have(a)[x[1]] /\ y[2] \in Have(b)[y[1]]
      /\ units' = [units EXCEPT
           ![a] = UnitOf(Moved(Have(a), Have(b), x, y), Moved(Set(a), Set(b), x, y)),
           ![b] = UnitOf(Moved(Have(b), Have(a), y, x), Moved(Set(b), Set(a), y, x))]
      /\ UNCHANGED <<todo, torn>>
  BY DEF Trade, Tradable, GameRuns, writerVars
<1>2. /\ units = [c \in Allies |-> UnitOf(Have(c), Set(c))]
      /\ \A c \in Allies : /\ Have(c) \in [Elements -> SUBSET Djinn]
                           /\ Set(c) \in [Elements -> SUBSET Djinn]
                           /\ \A e \in Elements : Set(c)[e] \subseteq Have(c)[e]
  BY QuietFacts, UnitsRead
<1>3. units' = [c \in Allies |-> UnitOf(D[c], S[c])]
  BY <1>1, <1>2
<1>4. \A c \in Allies :
        /\ D[c] = IF c = a THEN Moved(Have(a), Have(b), x, y)
                  ELSE IF c = b THEN Moved(Have(b), Have(a), y, x) ELSE Have(c)
        /\ S[c] = IF c = a THEN Moved(Set(a), Set(b), x, y)
                  ELSE IF c = b THEN Moved(Set(b), Set(a), y, x) ELSE Set(c)
  OBVIOUS
<1>5. /\ Moved(Have(a), Have(b), x, y) \in [Elements -> SUBSET Djinn]
      /\ Moved(Have(b), Have(a), y, x) \in [Elements -> SUBSET Djinn]
      /\ Moved(Set(a), Set(b), x, y) \in [Elements -> SUBSET Djinn]
      /\ Moved(Set(b), Set(a), y, x) \in [Elements -> SUBSET Djinn]
  BY <1>2, Exchanged
<1>6. D \in [Allies -> [Elements -> SUBSET Djinn]] /\ S \in [Allies -> [Elements -> SUBSET Djinn]]
  BY <1>2, <1>5
<1> HIDE DEF D, S
<1>7. ASSUME NEW f \in [Elements -> SUBSET Djinn], NEW g \in [Elements -> SUBSET Djinn],
             NEW out \in Elements \X Djinn, NEW in \in Elements \X Djinn,
             NEW e \in Elements, NEW d \in Djinn
      PROVE  d \in Moved(f, g, out, in)[e] <=>
               (d \in f[e] /\ ~Is(e, d, out)) \/ (d \in g[e] /\ Is(e, d, in))
  BY Exchanged
<1>8. /\ Have(a) \in [Elements -> SUBSET Djinn] /\ Have(b) \in [Elements -> SUBSET Djinn]
      /\ Set(a) \in [Elements -> SUBSET Djinn] /\ Set(b) \in [Elements -> SUBSET Djinn]
  BY <1>2
<1> HIDE DEF Is
<1>9. ASSUME NEW e \in Elements, NEW d \in Djinn, NEW c \in Allies
      PROVE  /\ d \in D[c][e] <=>
                  \/ d \in Have(c)[e] /\ ~(c = a /\ Is(e, d, x)) /\ ~(c = b /\ Is(e, d, y))
                  \/ c = a /\ d \in Have(b)[e] /\ Is(e, d, y)
                  \/ c = b /\ d \in Have(a)[e] /\ Is(e, d, x)
             /\ d \in S[c][e] <=>
                  \/ d \in Set(c)[e] /\ ~(c = a /\ Is(e, d, x)) /\ ~(c = b /\ Is(e, d, y))
                  \/ c = a /\ d \in Set(b)[e] /\ Is(e, d, y)
                  \/ c = b /\ d \in Set(a)[e] /\ Is(e, d, x)
  <2>1. CASE c = a
    <3>1. d \in Moved(Have(a), Have(b), x, y)[e] <=>
            (d \in Have(a)[e] /\ ~Is(e, d, x)) \/ (d \in Have(b)[e] /\ Is(e, d, y))
      BY <1>7, <1>8
    <3>2. d \in Moved(Set(a), Set(b), x, y)[e] <=>
            (d \in Set(a)[e] /\ ~Is(e, d, x)) \/ (d \in Set(b)[e] /\ Is(e, d, y))
      BY <1>7, <1>8
    <3>3. D[c] = Moved(Have(a), Have(b), x, y) /\ S[c] = Moved(Set(a), Set(b), x, y)
      BY <1>4, <2>1
    <3> QED
      BY <1>1, <2>1, <3>1, <3>2, <3>3
  <2>2. CASE c = b
    <3>1. d \in Moved(Have(b), Have(a), y, x)[e] <=>
            (d \in Have(b)[e] /\ ~Is(e, d, y)) \/ (d \in Have(a)[e] /\ Is(e, d, x))
      BY <1>7, <1>8
    <3>2. d \in Moved(Set(b), Set(a), y, x)[e] <=>
            (d \in Set(b)[e] /\ ~Is(e, d, y)) \/ (d \in Set(a)[e] /\ Is(e, d, x))
      BY <1>7, <1>8
    <3>3. D[c] = Moved(Have(b), Have(a), y, x) /\ S[c] = Moved(Set(b), Set(a), y, x)
      BY <1>1, <1>4, <2>2
    <3> QED
      BY <1>1, <2>2, <3>1, <3>2, <3>3
  <2>3. CASE c # a /\ c # b
    <3>1. D[c] = Have(c) /\ S[c] = Set(c)
      BY <1>4, <2>3
    <3> QED
      BY <2>3, <3>1
  <2> QED
    BY <2>1, <2>2, <2>3
<1>10. ASSUME NEW e \in Elements, NEW d \in Djinn, NEW o \in Allies
      PROVE  /\ New(o, e, d) \in Allies
             /\ d \in Have(o)[e] => d \in D[New(o, e, d)][e]
             /\ d \in Set(o)[e] => d \in S[New(o, e, d)][e]
  BY <1>1, <1>9
<1>11. ASSUME NEW e \in Elements, NEW d \in Djinn, NEW c \in Allies
      PROVE  /\ d \in D[c][e] => \E o \in Allies : d \in Have(o)[e] /\ c = New(o, e, d)
             /\ d \in S[c][e] => \E o \in Allies : d \in Set(o)[e] /\ c = New(o, e, d)
  BY <1>1, <1>9
<1> HIDE DEF New
<1>12. ASSUME NEW c \in Allies, NEW e \in Elements
       PROVE  S[c][e] \subseteq D[c][e]
  <2> SUFFICES ASSUME NEW d \in Djinn, d \in S[c][e]
               PROVE  d \in D[c][e]
    BY <1>6
  <2>1. PICK o \in Allies : d \in Set(o)[e] /\ c = New(o, e, d)
    BY <1>11
  <2>2. d \in Have(o)[e]
    BY <1>2, <2>1
  <2> QED
    BY <1>10, <2>1, <2>2
<1>13. UnitsWhole' /\ UnitsAgree' /\ \A c \in Allies : Have(c)' = D[c] /\ Set(c)' = S[c]
  BY <1>3, <1>6, <1>12, UnitsPut
<1>14. ASSUME NEW e \in Elements, NEW d \in Djinn, NEW o \in Allies, NEW p \in Allies,
              d \in Have(o)[e], d \in Have(p)[e]
       PROVE  o = p
  BY <1>14, QuietFacts DEF OneOwner
<1>15. OneOwner'
  <2> SUFFICES ASSUME NEW c \in Allies, NEW k \in Allies, NEW e \in Elements, NEW d \in Djinn,
                      d \in D[c][e], d \in D[k][e]
               PROVE  c = k
    BY <1>13 DEF OneOwner
  <2>1. PICK o \in Allies : d \in Have(o)[e] /\ c = New(o, e, d)
    BY <1>11
  <2>2. PICK p \in Allies : d \in Have(p)[e] /\ k = New(p, e, d)
    BY <1>11
  <2> QED
    BY <1>14, <2>1, <2>2
<1>16. PICK p \in Bijection(DOMAIN queue, DOMAIN queue) :
         queue' = [i \in DOMAIN queue |->
           [queue[p[i]] EXCEPT !.owner = NewOwner(queue[p[i]], a, b, x, y)]]
  BY DEF Trade
<1>17. /\ \A i \in DOMAIN queue : p[i] \in DOMAIN queue
       /\ \A i, j \in DOMAIN queue : p[i] = p[j] => i = j
       /\ \A k \in DOMAIN queue : \E i \in DOMAIN queue : p[i] = k
  BY <1>16 DEF Bijection, Injection, Surjection, IsInjective
<1>18. ASSUME NEW i \in DOMAIN queue
       PROVE  \E q \in Entry :
                /\ q = queue[p[i]]
                /\ q.owner \in Allies /\ q.element \in Elements /\ q.djinn \in Djinn
                /\ q.djinn \in Have(q.owner)[q.element] /\ q.djinn \notin Set(q.owner)[q.element]
                /\ queue'[i] = [owner |-> New(q.owner, q.element, q.djinn), element |-> q.element,
                                djinn |-> q.djinn, status |-> q.status]
                /\ queue'[i] \in Entry
  <2>1. PICK k \in DOMAIN queue : k = p[i]
    BY <1>17
  <2>2. PICK q \in Entry : q = queue[k]
    BY QuietFacts
  <2>3. q.owner \in Allies /\ q.element \in Elements /\ q.djinn \in Djinn
    BY DEF Entry
  <2>4. q.djinn \in Have(q.owner)[q.element] /\ q.djinn \notin Set(q.owner)[q.element]
    BY <2>2, QuietFacts
  <2>5. NewOwner(q, a, b, x, y) = New(q.owner, q.element, q.djinn)
    <3>1. \A z \in Elements \X Djinn : <<q.element, q.djinn>> = z <=> Is(q.element, q.djinn, z)
      BY DEF Is
    <3>2. ~(q.owner = a /\ q.owner = b)
      BY <1>1
    <3> QED
      BY <3>1, <3>2 DEF NewOwner, New
  <2>6. PICK o \in Allies : o = New(q.owner, q.element, q.djinn)
    BY <1>10, <2>3
  <2>7. queue'[i] = [q EXCEPT !.owner = o]
    BY <1>16, <2>1, <2>2, <2>5, <2>6
  <2>8. /\ queue'[i] = [owner |-> o, element |-> q.element,
                        djinn |-> q.djinn, status |-> q.status]
        /\ queue'[i] \in Entry
    BY <2>7 DEF Entry
  <2> QED
    BY <2>1, <2>2, <2>3, <2>4, <2>6, <2>8
<1>19. DOMAIN queue' = DOMAIN queue /\ queue' \in Seq(Entry)
  <2>1. PICK n \in Nat : DOMAIN queue = 1..n
    BY QuietFacts
  <2>2. queue' \in [1..n -> Entry]
    BY <1>16, <1>18, <2>1
  <2> QED
    BY <2>1, <2>2
<1>20. ASSUME NEW i \in DOMAIN queue', NEW r \in Entry, queue'[i] = r
       PROVE  r.djinn \in Have(r.owner)'[r.element] \ Set(r.owner)'[r.element]
  <2>1. PICK q \in Entry :
          /\ q.owner \in Allies /\ q.element \in Elements /\ q.djinn \in Djinn
          /\ q.djinn \in Have(q.owner)[q.element] /\ q.djinn \notin Set(q.owner)[q.element]
          /\ queue'[i] = [owner |-> New(q.owner, q.element, q.djinn), element |-> q.element,
                          djinn |-> q.djinn, status |-> q.status]
    BY <1>18, <1>19
  <2>2. PICK o \in Allies, e \in Elements, d \in Djinn, c \in Allies :
          /\ o = q.owner /\ e = q.element /\ d = q.djinn /\ c = New(o, e, d)
          /\ r.owner = c /\ r.element = e /\ r.djinn = d
    BY <1>10, <1>20, <2>1
  <2>3. d \in D[c][e]
    BY <1>10, <2>1, <2>2
  <2>4. d \notin S[c][e]
    <3> SUFFICES ASSUME d \in S[c][e] PROVE FALSE
      OBVIOUS
    <3>1. PICK u \in Allies : d \in Set(u)[e] /\ c = New(u, e, d)
      BY <1>11
    <3>2. d \in Have(u)[e] /\ d \in Have(o)[e] /\ d \notin Set(o)[e]
      BY <1>2, <2>1, <2>2, <3>1
    <3> QED
      BY <1>14, <3>1, <3>2
  <2> QED
    BY <1>13, <2>2, <2>3, <2>4
<1>21. ASSUME NEW i \in DOMAIN queue', NEW j \in DOMAIN queue', SameDjinn(queue'[i], queue'[j])
       PROVE  i = j
  <2>1. PICK q \in Entry :
          /\ q = queue[p[i]]
          /\ q.owner \in Allies /\ q.element \in Elements /\ q.djinn \in Djinn
          /\ q.djinn \in Have(q.owner)[q.element]
          /\ queue'[i].element = q.element /\ queue'[i].djinn = q.djinn
    BY <1>18, <1>19
  <2>2. PICK r \in Entry :
          /\ r = queue[p[j]]
          /\ r.owner \in Allies /\ r.element \in Elements /\ r.djinn \in Djinn
          /\ r.djinn \in Have(r.owner)[r.element]
          /\ queue'[j].element = r.element /\ queue'[j].djinn = r.djinn
    BY <1>18, <1>19
  <2>3. q.element = r.element /\ q.djinn = r.djinn
    BY <1>21, <2>1, <2>2 DEF SameDjinn
  <2>4. q.owner = r.owner
    BY <1>14, <2>1, <2>2, <2>3
  <2>5. p[i] \in DOMAIN queue /\ p[j] \in DOMAIN queue /\ SameDjinn(queue[p[i]], queue[p[j]])
    BY <1>17, <1>19, <2>1, <2>2, <2>3, <2>4 DEF SameDjinn
  <2> QED
    BY <1>17, <1>19, <2>5, QuietFacts
<1>22. ASSUME NEW c \in Allies, NEW e \in Elements, NEW d \in Djinn,
              d \in Have(c)'[e] \ Set(c)'[e]
       PROVE  \E i \in DOMAIN queue' : Tells(queue'[i], c, e, d)
  <2>1. d \in D[c][e] /\ d \notin S[c][e]
    BY <1>13, <1>22
  <2>2. PICK o \in Allies : d \in Have(o)[e] /\ c = New(o, e, d)
    BY <1>11, <2>1
  <2>3. d \notin Set(o)[e]
    BY <1>10, <2>1, <2>2
  <2>4. PICK k \in DOMAIN queue : Tells(queue[k], o, e, d)
    BY <2>2, <2>3, QueueTells
  <2>5. PICK i \in DOMAIN queue : p[i] = k
    BY <1>17
  <2>6. PICK q \in Entry :
          /\ q = queue[p[i]]
          /\ queue'[i] = [owner |-> New(q.owner, q.element, q.djinn), element |-> q.element,
                          djinn |-> q.djinn, status |-> q.status]
    BY <1>18
  <2>7. q.owner = o /\ q.element = e /\ q.djinn = d
    BY <2>4, <2>5, <2>6 DEF Tells
  <2>8. Tells(queue'[i], c, e, d)
    BY <2>2, <2>6, <2>7 DEF Tells
  <2> QED
    BY <1>19, <2>8
<1>23. QueueAgrees'
  BY <1>19, <1>20, <1>21, <1>22 DEF QueueAgrees
<1>24. EvenShares'
  <2> SUFFICES ASSUME NEW c \in Allies
               PROVE  Cardinality(Holding(D[c])) = Cardinality(Holding(Have(c)))
    BY <1>13, QuietFacts DEF EvenShares
  <2>1. x[1] \in Elements /\ x[2] \in Djinn /\ y[1] \in Elements /\ y[2] \in Djinn
    OBVIOUS
  <2>2. x[2] \notin Have(b)[x[1]] /\ y[2] \notin Have(a)[y[1]]
    BY <1>1, <1>14, <2>1
  <2>3. CASE c = a
    <3>1. \A e \in Elements : \A d \in Djinn : d \in D[c][e] <=>
            \/ d \in Have(c)[e] /\ ~(e = x[1] /\ d = x[2])
            \/ e = y[1] /\ d = y[2]
      BY <1>1, <1>9, <2>3 DEF Is
    <3> QED
      BY <1>1, <2>2, <2>3, <3>1, HoldingExchanged
  <2>4. CASE c = b
    <3>1. \A e \in Elements : \A d \in Djinn : d \in D[c][e] <=>
            \/ d \in Have(c)[e] /\ ~(e = y[1] /\ d = y[2])
            \/ e = x[1] /\ d = x[2]
      BY <1>1, <1>9, <2>4 DEF Is
    <3> QED
      BY <1>1, <2>2, <2>4, <3>1, HoldingExchanged
  <2>5. CASE c # a /\ c # b
    BY <1>4, <2>5
  <2> QED
    BY <2>3, <2>4, <2>5
<1> QED
  BY <1>1, <1>13, <1>15, <1>23, <1>24, StaysQuiet

\* While the game is undisturbed, its steps happen in quiet moments only.
LEMMA GameStepKeeps ==
    ASSUME DjinnInv, Undisturbed, GameStep
    PROVE  DjinnInv'
<1>1. CASE \E a \in Allies, e \in Elements, d \in Djinn : ToStandby(a, e, d)
  <2>1. Quiet
    BY <1>1 DEF ToStandby, GameRuns
  <2> QED
    BY <1>1, <2>1, ToStandbyKeeps
<1>2. CASE \E a, b \in Allies, x, y \in Elements \X Djinn : Trade(a, b, x, y)
  <2>1. Quiet
    BY <1>2 DEF Trade, GameRuns
  <2> QED
    BY <1>2, <2>1, TradeKeeps
<1>3. CASE \E i \in DOMAIN queue : Summoned(i) \/ Recovered(i)
  <2>1. PICK i \in DOMAIN queue : Summoned(i) \/ Recovered(i)
    BY <1>3
  <2>2. CASE Summoned(i)
    <3>1. Quiet
      BY <2>2 DEF Summoned, GameRuns
    <3> QED
      BY <2>2, <3>1, SummonedKeeps
  <2>3. CASE Recovered(i)
    <3>1. Quiet
      BY <2>3 DEF Recovered, GameRuns
    <3> QED
      BY <2>3, <3>1, RecoveredKeeps
  <2> QED
    BY <2>1, <2>2, <2>3
<1> QED
  BY <1>1, <1>2, <1>3 DEF GameStep

----------------------------------------------------------------------------
(* The writer.                                                               *)

\* What the writer puts into the Units is what the game would have there.
LEMMA WantedFacts ==
    ASSUME NEW owner, NEW a
    PROVE  /\ [e \in Elements |-> byte_flipper(Bytes(Number(Share(owner, a)[e])))]
                = Wanted(owner, a).djinn_have
           /\ Wanted(owner, a).djinn_set = Wanted(owner, a).djinn_have
           /\ Wanted(owner, a).djinn_qty_total
                = [e \in Elements |-> count_unallocated(Wanted(owner, a).djinn_have[e])]
           /\ Wanted(owner, a).djinn_qty_set = Wanted(owner, a).djinn_qty_total
<1>1. PICK f \in [Elements -> SUBSET Djinn] : f = Share(owner, a)
  BY ShareTyped
<1>2. \A e \in Elements : /\ byte_flipper(Bytes(Number(f[e]))) = GameWord[f[e]]
                          /\ count_unallocated(GameWord[f[e]]) = Cardinality(f[e])
  BY WordFacts
<1>3. /\ Wanted(owner, a).djinn_have = [e \in Elements |-> GameWord[f[e]]]
      /\ Wanted(owner, a).djinn_set = [e \in Elements |-> GameWord[f[e]]]
      /\ Wanted(owner, a).djinn_qty_total = [e \in Elements |-> Cardinality(f[e])]
      /\ Wanted(owner, a).djinn_qty_set = [e \in Elements |-> Cardinality(f[e])]
  BY <1>1 DEF Wanted, UnitOf
<1> QED
  BY <1>1, <1>2, <1>3

\* The writer begins with nothing written, and the queue empty.
LEMMA RandomizeKeeps ==
    ASSUME DjinnInv, QueueEmpty, NEW owner \in Sharings, Randomize(owner)
    PROVE  DjinnInv'
<1>1. owner \in Sharings
  OBVIOUS
<1>2. /\ todo = 0 /\ queue = <<>> /\ todo' = NWrites
      /\ units' = units /\ queue' = queue /\ torn' = torn
  BY DEF Randomize, Fields, NWrites, memoryVars
<1>3. NWrites \in Nat /\ NWrites > 0
  BY DjinnAssumption DEF NWrites
<1>4. alloc' = [a \in Allies |-> Wanted(owner, a).djinn_have]
  <2>1. alloc' = [a \in Allies |-> [e \in Elements |->
                    byte_flipper(Bytes(Number(Share(owner, a)[e])))]]
    BY DEF Randomize
  <2>2. \A a \in Allies : [e \in Elements |-> byte_flipper(Bytes(Number(Share(owner, a)[e])))]
                            = Wanted(owner, a).djinn_have
    BY WantedFacts
  <2> QED
    BY <2>1, <2>2, Zenon
<1>5. Written(owner)'
  <2>1. ASSUME NEW a \in Allies, NEW k \in 1..4 PROVE ~(4 * a + k <= NWrites - todo')
    BY <1>2, <1>3, DjinnAssumption DEF Allies
  <2> QED
    BY <1>4, <2>1 DEF Written, Wanted, Share, ShareOf, UnitOf
<1>6. UnitsWhole'
  BY <1>2 DEF DjinnInv, UnitsWhole
<1>7. ~Quiet' /\ queue' = <<>>
  BY <1>2, <1>3 DEF Quiet
<1>8. todo' \in 0..NWrites' /\ torn' \in BOOLEAN
  BY <1>2, <1>3 DEF DjinnInv, NWrites
<1> QED
  BY <1>1, <1>5, <1>6, <1>7, <1>8 DEF DjinnInv

\* A write puts what the sharing wants into one field of one Unit, the next one
\* when the fields of the Units are counted from 1; the rest stays as it is.
LEMMA OneFieldWritten ==
    ASSUME DjinnInv, write_djinn, NEW owner, Written(owner)
    PROVE  \E a \in Allies, k \in 1..4 :
             /\ 4 * a + k = NWrites - todo + 1
             /\ UnitsWhole'
             /\ units'[a][Fields[k]] = Wanted(owner, a)[Fields[k]]
             /\ \A b \in Allies, j \in 1..4 :
                  b # a \/ j # k => units'[b][Fields[j]] = units[b][Fields[j]]
<1> DEFINE n == NWrites - todo
           a == n \div 4
           k == (n % 4) + 1
<1>1. NAllies \in Nat /\ todo \in 1..NWrites /\ n \in 0..(NWrites - 1) /\ NWrites = 4 * NAllies
  BY DjinnAssumption DEF DjinnInv, write_djinn, NWrites
<1>2. a \in Allies /\ k \in 1..4 /\ 4 * a + k = n + 1
  BY <1>1 DEF Allies
<1>3. units' = [units EXCEPT ![a][Fields[k]] =
        IF Fields[k] \in {"djinn_have", "djinn_set"} THEN alloc[a]
        ELSE [e \in Elements |-> count_unallocated(alloc[a][e])]]
  <2>1. Len(Fields) = 4
    BY DEF Fields
  <2> QED
    BY <2>1 DEF write_djinn, WriteField, NWrites
<1>4. alloc[a] = Wanted(owner, a).djinn_have
  BY <1>2 DEF Written
<1> DEFINE w == Wanted(owner, a)
<1>5. /\ w["djinn_have"] = alloc[a]
      /\ w["djinn_set"] = alloc[a]
      /\ w["djinn_qty_total"] = [e \in Elements |-> count_unallocated(alloc[a][e])]
      /\ w["djinn_qty_set"] = [e \in Elements |-> count_unallocated(alloc[a][e])]
  <2>1. /\ w.djinn_set = w.djinn_have
        /\ w.djinn_qty_total = [e \in Elements |-> count_unallocated(w.djinn_have[e])]
        /\ w.djinn_qty_set = w.djinn_qty_total
    BY WantedFacts, Zenon
  <2>2. alloc[a] = w.djinn_have
    BY <1>4
  <2> HIDE DEF w, a
  <2>3. w.djinn_qty_total = [e \in Elements |-> count_unallocated(alloc[a][e])]
    BY <2>1, <2>2, Zenon
  <2> QED
    BY <2>1, <2>2, <2>3
<1> HIDE DEF a, k, n
<1>6. (IF Fields[k] \in {"djinn_have", "djinn_set"} THEN alloc[a]
       ELSE [e \in Elements |-> count_unallocated(alloc[a][e])]) = w[Fields[k]]
  <2> HIDE DEF w
  <2>1. CASE k = 1
    BY <1>5, <2>1 DEF Fields
  <2>2. CASE k = 2
    BY <1>5, <2>2 DEF Fields
  <2>3. CASE k = 3
    BY <1>5, <2>3 DEF Fields
  <2>4. CASE k = 4
    BY <1>5, <2>4 DEF Fields
  <2> QED
    BY <1>2, <2>1, <2>2, <2>3, <2>4
<1>7. PICK v : v = w[Fields[k]] /\ units' = [units EXCEPT ![a][Fields[k]] = v]
  BY <1>3, <1>6, Zenon
<1> HIDE DEF w
<1>8. /\ units = [b \in Allies |-> units[b]]
      /\ \A b \in Allies :
           units[b] = [djinn_have |-> units[b].djinn_have, djinn_set |-> units[b].djinn_set,
                       djinn_qty_total |-> units[b].djinn_qty_total,
                       djinn_qty_set |-> units[b].djinn_qty_set]
  BY DEF DjinnInv, UnitsWhole
<1>9. /\ units' = [b \in Allies |-> units'[b]]
      /\ \A b \in Allies : b # a => units'[b] = units[b]
      /\ units'[a] = [units[a] EXCEPT ![Fields[k]] = v]
  BY <1>2, <1>7, <1>8
<1>10. /\ units'[a] = [djinn_have |-> units'[a].djinn_have, djinn_set |-> units'[a].djinn_set,
                      djinn_qty_total |-> units'[a].djinn_qty_total,
                      djinn_qty_set |-> units'[a].djinn_qty_set]
      /\ units'[a][Fields[k]] = v
      /\ \A j \in 1..4 : j # k => units'[a][Fields[j]] = units[a][Fields[j]]
  <2>1. PICK h, s, t, q : units[a] = [djinn_have |-> h, djinn_set |-> s,
                                      djinn_qty_total |-> t, djinn_qty_set |-> q]
    BY <1>2, <1>8
  <2>2. /\ Fields[1] = "djinn_have" /\ Fields[2] = "djinn_set"
        /\ Fields[3] = "djinn_qty_total" /\ Fields[4] = "djinn_qty_set"
    BY DEF Fields
  <2>3. CASE k = 1
    BY <1>9, <2>1, <2>2, <2>3
  <2>4. CASE k = 2
    BY <1>9, <2>1, <2>2, <2>4
  <2>5. CASE k = 3
    BY <1>9, <2>1, <2>2, <2>5
  <2>6. CASE k = 4
    BY <1>9, <2>1, <2>2, <2>6
  <2> QED
    BY <1>2, <2>3, <2>4, <2>5, <2>6
<1>11. UnitsWhole'
  BY <1>8, <1>9, <1>10 DEF UnitsWhole
<1>12. /\ units'[a][Fields[k]] = w[Fields[k]]
       /\ \A b \in Allies, j \in 1..4 :
            b # a \/ j # k => units'[b][Fields[j]] = units[b][Fields[j]]
  BY <1>7, <1>9, <1>10
<1>13. 4 * a + k = NWrites - todo + 1
  BY <1>2 DEF n
<1>14. units'[a][Fields[k]] = Wanted(owner, a)[Fields[k]]
  BY <1>12 DEF w
<1> QED
  BY <1>2, <1>11, <1>12, <1>13, <1>14

\* Units that show a sharing, with an empty queue, are consistent.
LEMMA SharedOut ==
    ASSUME NEW owner \in Sharings,
           units' = [a \in Allies |-> Wanted(owner, a)], queue' = <<>>
    PROVE  UnitsWhole' /\ UnitsAgree' /\ OneOwner' /\ EvenShares' /\ QueueAgrees'
<1> DEFINE D == [a \in Allies |-> Share(owner, a)]
<1>1. \A a \in Allies : Share(owner, a) \in [Elements -> SUBSET Djinn]
  BY ShareTyped
<1>2. D \in [Allies -> [Elements -> SUBSET Djinn]] /\ \A a \in Allies : D[a] = Share(owner, a)
  BY <1>1
<1>3. units' = [a \in Allies |-> UnitOf(D[a], D[a])]
  BY <1>2 DEF Wanted
<1>4. \A a \in Allies, e \in Elements : D[a][e] \subseteq D[a][e]
  OBVIOUS
<1> HIDE DEF D
<1>5. /\ UnitsWhole' /\ UnitsAgree'
      /\ \A a \in Allies : Have(a)' = Share(owner, a) /\ Set(a)' = Share(owner, a)
  <2>1. UnitsWhole' /\ UnitsAgree' /\ \A a \in Allies : Have(a)' = D[a] /\ Set(a)' = D[a]
    BY <1>2, <1>3, <1>4, UnitsPut
  <2> QED
    BY <1>2, <2>1
<1>6. OneOwner'
  <2> SUFFICES ASSUME NEW a \in Allies, NEW b \in Allies, NEW e \in Elements, NEW d \in Djinn,
                      d \in Have(a)'[e], d \in Have(b)'[e]
               PROVE  a = b
    BY DEF OneOwner
  <2>1. d \in Share(owner, a)[e] /\ d \in Share(owner, b)[e]
    BY <1>5
  <2>2. owner[<<e, d>>] = a
    BY <2>1, ShareHas
  <2>3. owner[<<e, d>>] = b
    BY <2>1, ShareHas
  <2> QED
    BY <2>2, <2>3
<1>7. QueueAgrees'
  BY <1>5 DEF QueueAgrees
<1>8. EvenShares'
  BY <1>5, ShareIsEven, SharingsAreSaves DEF EvenShares
<1> QED
  BY <1>5, <1>6, <1>7, <1>8

\* The last write makes the memory consistent; the ones before it keep what has
\* been written.
LEMMA WriteKeeps ==
    ASSUME DjinnInv, write_djinn
    PROVE  DjinnInv'
<1>1. todo \in 1..NWrites /\ todo' = todo - 1 /\ queue = <<>> /\ queue' = <<>>
  BY DEF DjinnInv, write_djinn, NWrites, Quiet
<1>2. PICK owner \in Sharings : Written(owner)
  <2>1. todo > 0
    BY <1>1, DjinnAssumption DEF NWrites
  <2> QED
    BY <2>1, Zenon DEF DjinnInv
<1>3. PICK c \in Allies, k \in 1..4 :
        /\ 4 * c + k = NWrites - todo + 1
        /\ UnitsWhole'
        /\ units'[c][Fields[k]] = Wanted(owner, c)[Fields[k]]
        /\ \A b \in Allies, j \in 1..4 :
             b # c \/ j # k => units'[b][Fields[j]] = units[b][Fields[j]]
  BY <1>2, OneFieldWritten
<1>4. ASSUME NEW b \in Allies, NEW j \in 1..4, 4 * b + j <= NWrites - todo'
      PROVE  units'[b][Fields[j]] = Wanted(owner, b)[Fields[j]]
  <2>1. 4 * b + j <= NWrites - todo \/ (b = c /\ j = k)
    <3>1. b \in Int /\ c \in Int /\ j \in 1..4 /\ k \in 1..4 /\ todo \in Int /\ NWrites \in Int
      BY <1>1, DjinnAssumption DEF Allies, NWrites
    <3>2. 4 * b + j <= NWrites - todo + 1 /\ 4 * c + k = NWrites - todo + 1
      BY <1>1, <1>3, <1>4, <3>1
    <3>3. (4 * b + j = 4 * c + k) => (b = c /\ j = k)
      BY <3>1
    <3> QED
      BY <3>1, <3>2, <3>3
  <2>2. CASE b = c /\ j = k
    BY <1>3, <2>2
  <2>3. CASE 4 * b + j <= NWrites - todo /\ ~(b = c /\ j = k)
    <3>1. units[b][Fields[j]] = Wanted(owner, b)[Fields[j]]
      BY <1>2, <2>3 DEF Written
    <3> QED
      BY <1>3, <2>3, <3>1
  <2> QED
    BY <2>1, <2>2, <2>3
<1>5. todo' \in 0..NWrites' /\ torn' \in BOOLEAN
  <2>1. torn' = (torn /\ todo # 1)
    BY DEF write_djinn
  <2> QED
    BY <1>1, <2>1, DjinnAssumption DEF NWrites
<1>6. CASE todo = 1
  <2>1. ASSUME NEW b \in Allies, NEW j \in 1..4
        PROVE  units'[b][Fields[j]] = Wanted(owner, b)[Fields[j]]
    <3>1. 4 * b + j <= NWrites - todo'
      BY <1>1, <1>6, DjinnAssumption DEF Allies, NWrites
    <3> QED
      BY <1>4, <3>1
  <2>2. units' = [b \in Allies |-> Wanted(owner, b)]
    <3>1. ASSUME NEW b \in Allies PROVE units'[b] = Wanted(owner, b)
      <4>1. /\ Fields[1] = "djinn_have" /\ Fields[2] = "djinn_set"
            /\ Fields[3] = "djinn_qty_total" /\ Fields[4] = "djinn_qty_set"
        BY DEF Fields
      <4>2. PICK w : w = Wanted(owner, b)
        OBVIOUS
      <4>3. w = [djinn_have |-> w.djinn_have, djinn_set |-> w.djinn_set,
                 djinn_qty_total |-> w.djinn_qty_total, djinn_qty_set |-> w.djinn_qty_set]
        BY <4>2 DEF Wanted, UnitOf
      <4>4. /\ units'[b].djinn_have = w.djinn_have /\ units'[b].djinn_set = w.djinn_set
            /\ units'[b].djinn_qty_total = w.djinn_qty_total
            /\ units'[b].djinn_qty_set = w.djinn_qty_set
        BY <2>1, <4>1, <4>2
      <4>5. units'[b] = [djinn_have |-> units'[b].djinn_have, djinn_set |-> units'[b].djinn_set,
                         djinn_qty_total |-> units'[b].djinn_qty_total,
                         djinn_qty_set |-> units'[b].djinn_qty_set]
        BY <1>3 DEF UnitsWhole
      <4> QED
        BY <4>2, <4>3, <4>4, <4>5
    <3>2. units' = [b \in Allies |-> units'[b]]
      BY <1>3 DEF UnitsWhole
    <3> QED
      BY <3>1, <3>2
  <2>3. UnitsAgree' /\ OneOwner' /\ EvenShares' /\ QueueAgrees'
    BY <1>1, <2>2, SharedOut
  <2>4. Quiet' /\ ~(todo > 0)'
    <3>1. torn' <=> FALSE
      BY <1>6 DEF write_djinn
    <3>2. todo' = 0
      BY <1>1, <1>6
    <3> QED
      BY <3>1, <3>2 DEF Quiet
  <2> QED
    BY <1>3, <1>5, <2>3, <2>4 DEF DjinnInv
<1>7. CASE todo # 1
  <2>1. alloc' = alloc
    BY <1>7 DEF write_djinn
  <2>2. Written(owner)'
    BY <1>2, <1>4, <2>1 DEF Written, Wanted, Share, ShareOf, UnitOf
  <2>3. ~Quiet'
    BY <1>1, <1>7 DEF Quiet
  <2> QED
    BY <1>1, <1>2, <1>3, <1>5, <2>2, <2>3 DEF DjinnInv
<1> QED
  BY <1>6, <1>7

\* A writer that dies leaves its half written Units, and the queue empty.
LEMMA DeathKeeps ==
    ASSUME DjinnInv, RandomizerDies
    PROVE  DjinnInv'
<1>1. /\ queue' = <<>> /\ todo' = 0 /\ torn' = TRUE /\ UnitsWhole'
  BY DEF RandomizerDies, memoryVars, DjinnInv, Quiet, NWrites, UnitsWhole
<1>2. todo' \in 0..NWrites'
  BY <1>1, DjinnAssumption DEF NWrites
<1> QED
  BY <1>1, <1>2 DEF DjinnInv, Quiet

\* What the readers do leaves the game and the writer alone.
LEMMA UntouchedKeeps ==
    ASSUME DjinnInv, UNCHANGED <<units, queue, alloc, todo, torn>>
    PROVE  DjinnInv'
<1>1. UnitsWhole' <=> UnitsWhole
  BY DEF UnitsWhole
<1>2. \A a : Have(a)' = Have(a) /\ Set(a)' = Set(a)
  BY DEF Have, Set
<1>3. (UnitsAgree' <=> UnitsAgree) /\ (OneOwner' <=> OneOwner) /\ (EvenShares' <=> EvenShares)
  BY <1>2 DEF UnitsAgree, OneOwner, EvenShares, UnitOf
<1>4. QueueAgrees => QueueAgrees'
  BY <1>2 DEF QueueAgrees, SameDjinn, Tells
<1>5. \A owner : Written(owner) => Written(owner)'
  BY DEF Written, Wanted, Share, ShareOf, UnitOf, NWrites
<1> QED
  BY <1>1, <1>3, <1>4, <1>5 DEF DjinnInv, Quiet, NWrites

----------------------------------------------------------------------------
(* The theorem.                                                              *)

\* While the game and the readers pause for the randomizer, and it is run only
\* when every djinn is set, the invariant holds always.
THEOREM MemoryInvariance ==
    ASSUME Undisturbed, QueueEmpty
    PROVE  Spec => []DjinnInv
<1>1. Init => DjinnInv
  BY DjinnInitInv DEF Init
<1>2. DjinnInv /\ [Next]_vars => DjinnInv'
  <2> SUFFICES ASSUME DjinnInv, [Next]_vars PROVE DjinnInv'
    OBVIOUS
  <2>1. CASE GameStep
    BY <2>1, GameStepKeeps
  <2>2. CASE \E owner \in Sharings : Randomize(owner)
    BY <2>2, RandomizeKeeps
  <2>3. CASE write_djinn
    BY <2>3, WriteKeeps
  <2>4. CASE RandomizerDies
    BY <2>4, DeathKeeps
  <2>5. CASE get_unit_data \/ FindDjinn \/ ReadQueue \/ Finish \/ PrintNames \/ UNCHANGED vars
    <3>1. UNCHANGED <<units, queue, alloc, todo, torn>>
      BY <2>5 DEF get_unit_data, FindDjinn, ReadQueue, Finish, PrintNames, vars,
                  memoryVars, writerVars
    <3> QED
      BY <3>1, UntouchedKeeps
  <2> QED
    BY <2>1, <2>2, <2>3, <2>4, <2>5 DEF Next
<1> QED
  BY <1>1, <1>2, PTL DEF Spec

\* MemoryConsistent: when no randomizer is at work, and none has died since the
\* last complete run, no djinn of the game has two owners, set djinn are owned,
\* and the words and counts of every Unit fit each other.
THEOREM MemoryConsistentCorrect ==
    ASSUME Undisturbed, QueueEmpty
    PROVE  Spec => []MemoryConsistent
<1>1. DjinnInv => MemoryConsistent
  <2> SUFFICES ASSUME DjinnInv, Quiet PROVE MemoryConsistent
    BY DEF MemoryConsistent
  <2> DEFINE have == [a \in Allies |-> Have(a)]
             set == [a \in Allies |-> Set(a)]
  <2>1. ASSUME NEW e \in Elements, NEW d \in Djinn
        PROVE  Cardinality({a \in Allies : d \in have[a][e]}) <= 1
    <3>1. PICK T : T = {a \in Allies : d \in Have(a)[e]}
      OBVIOUS
    <3>2. Cardinality(T) <= 1
      <4>1. CASE T = {}
        <5>1. Cardinality(T) = 0
          BY <4>1, FS_EmptySet
        <5> QED
          BY <5>1
      <4>2. CASE T # {}
        <5>1. PICK o \in Allies : d \in Have(o)[e]
          BY <3>1, <4>2
        <5>2. \A b \in Allies : d \in Have(b)[e] <=> b = o
          BY <5>1, QuietFacts DEF OneOwner
        <5>3. T = {o}
          BY <3>1, <5>2
        <5>4. Cardinality(T) = 1
          BY <5>3, FS_Singleton
        <5> QED
          BY <5>4
      <4> QED
        BY <4>1, <4>2
    <3>3. {a \in Allies : d \in have[a][e]} = T
      BY <3>1
    <3> QED
      BY <3>2, <3>3
  <2>2. \A a \in Allies : have[a] = Have(a) /\ set[a] = Set(a)
    OBVIOUS
  <2>3. \A a \in Allies, e \in Elements : have[a][e] \subseteq Djinn /\ set[a][e] \subseteq have[a][e]
    BY <2>2, QuietFacts DEF UnitsAgree
  <2>4. \A a \in Allies : units[a] = UnitOf(have[a], set[a])
    BY <2>2, QuietFacts DEF UnitsAgree
  <2> QED
    BY <2>1, <2>3, <2>4 DEF MemoryConsistent
<1> QED
  BY <1>1, MemoryInvariance, PTL

----------------------------------------------------------------------------
(* The search for the djinn of one word.                                     *)

Below(B, m) == {c \in B : c < m}

\* The numbers below the next one.
LEMMA BelowNext ==
    ASSUME NEW B \in SUBSET (0..7), NEW m \in Nat
    PROVE  \A c : c \in Below(B, m + 1) <=> c \in Below(B, m) \/ (c = m /\ m \in B)
<1>1. \A c \in B : c \in Int /\ (c < m + 1 <=> c < m \/ c = m)
  OBVIOUS
<1>2. \A n, c : c \in Below(B, n) <=> c \in B /\ c < n
  BY DEF Below
<1> QED
  BY <1>1, <1>2

LEMMA BelowFacts ==
    ASSUME NEW B \in SUBSET (0..7), NEW m \in Nat
    PROVE  /\ IsFiniteSet(B) /\ Cardinality(B) \in Nat
           /\ IsFiniteSet(Below(B, m)) /\ Cardinality(Below(B, m)) \in Nat
           /\ m \in B => Cardinality(Below(B, m + 1)) = Cardinality(Below(B, m)) + 1
           /\ m \notin B => Below(B, m + 1) = Below(B, m)
<1>1. IsFiniteSet(0..7)
  <2>1. 0 \in Int /\ 7 \in Int
    OBVIOUS
  <2> QED
    BY <2>1, FS_Interval, Zenon
<1>2. Below(B, m) \subseteq 0..7
  BY DEF Below
<1>3. /\ IsFiniteSet(B) /\ Cardinality(B) \in Nat
      /\ IsFiniteSet(Below(B, m)) /\ Cardinality(Below(B, m)) \in Nat
  BY <1>1, <1>2, FS_Subset, FS_CardinalityType
<1>4. ASSUME m \in B PROVE Cardinality(Below(B, m + 1)) = Cardinality(Below(B, m)) + 1
  <2>1. Below(B, m + 1) = Below(B, m) \cup {m}
    BY <1>4, BelowNext
  <2>2. m \notin Below(B, m)
    BY DEF Below
  <2> QED
    BY <1>3, <2>1, <2>2, FS_AddElement
<1>5. m \notin B => Below(B, m + 1) = Below(B, m)
  BY BelowNext
<1> QED
  BY <1>3, <1>4, <1>5

\* A greater bit has a higher rank.
LEMMA RanksGrow ==
    ASSUME NEW B \in SUBSET (0..7), NEW x \in B
    PROVE  /\ Cardinality(Below(B, x)) < Cardinality(B)
           /\ \A y \in B : x < y => Cardinality(Below(B, x)) < Cardinality(Below(B, y))
<1>1. x \in Nat
  OBVIOUS
<1>2. x \in Nat /\ Cardinality(Below(B, x + 1)) = Cardinality(Below(B, x)) + 1
  BY <1>1, BelowFacts
<1>3. Below(B, x + 1) \subseteq B
  BY DEF Below
<1>4. Cardinality(Below(B, x + 1)) <= Cardinality(B)
  BY <1>3, BelowFacts, FS_Subset
<1>5. ASSUME NEW y \in B, x < y
      PROVE  Cardinality(Below(B, x + 1)) <= Cardinality(Below(B, y))
  <2>1. y \in Nat
    OBVIOUS
  <2>2. \A c \in B : c \in Int /\ (c < x + 1 => c < y)
    BY <1>1, <1>5, <2>1
  <2>3. Below(B, x + 1) \subseteq Below(B, y)
    BY <2>2, Zenon DEF Below
  <2> QED
    BY <2>1, <2>3, BelowFacts, FS_Subset
<1>6. \A y \in Nat : Cardinality(Below(B, y)) \in Nat /\ Cardinality(B) \in Nat
  BY BelowFacts
<1>7. \A y \in B : y \in Nat
  OBVIOUS
<1> QED
  BY <1>2, <1>4, <1>5, <1>6, <1>7

\* The search is what its recursion solves.
LEMMA SearchSolved ==
    ASSUME NEW bits, NEW qty
    PROVE  \E h : /\ h[0] = <<>>
                  /\ \A d \in 0..29 : h[d + 1] = Try(h[d], bits, qty, d)
                  /\ First(bits, qty) = h[30]
<1> DEFINE Step(h, d) == IF d = 0 THEN <<>> ELSE Try(h[d - 1], bits, qty, d - 1)
           UpTo(h, n) == \A d \in 0..n : h[d] = Step(h, d)
           Solved == {n \in Nat : \E h : UpTo(h, n)}
           Right(h) == h = [d \in 0..30 |-> Step(h, d)]
           H == CHOOSE h : Right(h)
<1>1. 0 \in Solved
  <2> DEFINE g == [d \in 0..0 |-> <<>>]
  <2>1. UpTo(g, 0)
    OBVIOUS
  <2> QED
    BY <2>1
<1>2. ASSUME NEW n \in Nat, n \in Solved PROVE n + 1 \in Solved
  <2>1. PICK h : UpTo(h, n)
    BY <1>2
  <2> DEFINE g == [d \in 0..(n + 1) |-> Step(h, d)]
  <2>2. ASSUME NEW d \in 0..(n + 1) PROVE g[d] = Step(g, d)
    <3>1. CASE d = 0
      BY <3>1
    <3>2. CASE d # 0
      <4>1. d - 1 \in 0..n /\ d - 1 \in 0..(n + 1)
        BY <3>2
      <4>2. g[d - 1] = h[d - 1]
        BY <2>1, <4>1
      <4> QED
        BY <3>2, <4>2
    <3> QED
      BY <3>1, <3>2
  <2>3. UpTo(g, n + 1)
    BY <2>2
  <2> HIDE DEF UpTo, g
  <2> QED
    BY <2>3
<1>3. 30 \in Solved
  <2> HIDE DEF Solved
  <2> QED
    BY <1>1, <1>2, SetInduction
<1>4. PICK f : UpTo(f, 30)
  BY <1>3
<1> DEFINE g == [d \in 0..30 |-> f[d]]
<1>5. ASSUME NEW d \in 0..30 PROVE g[d] = Step(g, d)
  <2>1. f[d] = Step(f, d)
    BY <1>4
  <2>2. d # 0 => d - 1 \in 0..30
    OBVIOUS
  <2> QED
    BY <2>1, <2>2
<1>6. Right(g)
  BY <1>5
<1>7. Right(H)
  BY <1>6
<1>8. First(bits, qty) = H[30]
  BY DEF First
<1> HIDE DEF H
<1>9. H[0] = <<>>
  BY <1>7
<1>10. ASSUME NEW d \in 0..29 PROVE H[d + 1] = Try(H[d], bits, qty, d)
  <2>1. d + 1 \in 0..30 /\ d + 1 # 0 /\ (d + 1) - 1 = d
    OBVIOUS
  <2>2. H[d + 1] = Step(H, d + 1)
    BY <1>7, <2>1
  <2> QED
    BY <2>1, <2>2
<1> QED
  BY <1>8, <1>9, <1>10

\* The search for as many djinn as there are bits meets each of them once, in
\* their order.
LEMMA SearchMeetsAll ==
    ASSUME NEW B \in SUBSET (0..7), NEW q, q = Cardinality(B)
    PROVE  \E s \in Seq(B) :
             /\ s = First(B, q)
             /\ Len(s) = q
             /\ \A i, j \in 1..Len(s) : i < j => s[i] < s[j]
             /\ \A d \in B : \E i \in 1..Len(s) : s[i] = d
<1>1. PICK h : /\ h[0] = <<>>
               /\ \A d \in 0..29 : h[d + 1] = Try(h[d], B, q, d)
               /\ First(B, q) = h[30]
  BY SearchSolved
<1> DEFINE Right(s, n) ==
             /\ s \in Seq(Nat)
             /\ Len(s) = Cardinality(Below(B, n))
             /\ \A i \in 1..Len(s) : s[i] \in Below(B, n)
             /\ \A i, j \in 1..Len(s) : i < j => s[i] < s[j]
             /\ \A d \in Below(B, n) : \E i \in 1..Len(s) : s[i] = d
           Known == {n \in Nat : n <= 30 => Right(h[n], n)}
<1>2. \A d \in B : ~(d < 0) /\ d < 30
  OBVIOUS
<1>3. 0 \in Known
  <2>1. Below(B, 0) = {}
    BY <1>2, Zenon DEF Below
  <2>2. Cardinality(Below(B, 0)) = 0
    BY <2>1, FS_EmptySet
  <2>3. Right(<<>>, 0)
    BY <2>1, <2>2
  <2> QED
    BY <1>1, <2>3
<1>4. ASSUME NEW n \in Nat, n \in Known PROVE n + 1 \in Known
  <2> HIDE DEF Right
  <2> SUFFICES ASSUME n + 1 <= 30 PROVE Right(h[n + 1], n + 1)
    OBVIOUS
  <2>1. PICK s : s = h[n]
    OBVIOUS
  <2>2. Right(s, n) /\ n \in 0..29
    BY <1>4, <2>1
  <2> HIDE DEF Known
  <2> USE DEF Right
  <2>3. h[n + 1] = Try(s, B, q, n)
    BY <1>1, <2>1, <2>2
  <2>4. CASE n \notin B
    <3>1. Below(B, n + 1) = Below(B, n)
      BY <2>4, BelowFacts
    <3>2. h[n + 1] = s
      BY <2>3, <2>4 DEF Try
    <3> QED
      BY <2>2, <3>1, <3>2
  <2>5. CASE n \in B
    <3>1. Cardinality(Below(B, n)) < q
      BY <2>5, RanksGrow
    <3>2. h[n + 1] = Append(s, n)
      BY <2>2, <2>3, <2>5, <3>1 DEF Try
    <3>3. \A c : c \in Below(B, n + 1) <=> c \in Below(B, n) \/ c = n
      BY <2>5, BelowNext
    <3>4. PICK l \in Nat : l = Len(s)
      BY <2>2
    <3>5. PICK t : t = Append(s, n)
      OBVIOUS
    <3>6. /\ t \in Seq(Nat) /\ Len(t) = l + 1 /\ t[l + 1] = n
          /\ \A i \in 1..l : t[i] = s[i]
      BY <2>2, <3>4, <3>5
    <3>7. Len(t) = Cardinality(Below(B, n + 1))
      BY <2>2, <2>5, <3>4, <3>6, BelowFacts
    <3>8. \A i \in 1..(l + 1) : i \in 1..l \/ i = l + 1
      OBVIOUS
    <3>9. \A i \in 1..Len(t) : t[i] \in Below(B, n + 1)
      BY <2>2, <3>3, <3>4, <3>6, <3>8
    <3>10. ASSUME NEW i \in 1..(l + 1), NEW j \in 1..(l + 1), i < j PROVE t[i] < t[j]
      <4>1. i \in 1..l
        BY <3>10
      <4>2. CASE j \in 1..l
        BY <2>2, <3>4, <3>6, <3>10, <4>1, <4>2
      <4>3. CASE j = l + 1
        <5>1. s[i] \in Below(B, n)
          BY <2>2, <3>4, <4>1
        <5>2. s[i] < n
          BY <5>1 DEF Below
        <5> QED
          BY <3>6, <4>1, <4>3, <5>2
      <4> QED
        BY <3>8, <4>2, <4>3
    <3>11. ASSUME NEW d \in Below(B, n + 1) PROVE \E i \in 1..(l + 1) : t[i] = d
      <4>1. CASE d = n
        <5>1. l + 1 \in 1..(l + 1)
          OBVIOUS
        <5> QED
          BY <3>6, <4>1, <5>1
      <4>2. CASE d \in Below(B, n)
        <5>1. PICK i \in 1..l : s[i] = d
          BY <2>2, <3>4, <4>2
        <5>2. i \in 1..(l + 1) /\ t[i] = d
          BY <3>6, <5>1
        <5> QED
          BY <5>2
      <4> QED
        BY <3>3, <4>1, <4>2
    <3> QED
      BY <3>2, <3>5, <3>6, <3>7, <3>9, <3>10, <3>11
  <2> QED
    BY <2>4, <2>5
<1>5. 30 \in Known
  <2> HIDE DEF Known
  <2> QED
    BY <1>3, <1>4, SetInduction
<1>6. Below(B, 30) = B
  BY <1>2, Zenon DEF Below
<1>7. PICK s : s = h[30]
  OBVIOUS
<1>8. Right(s, 30)
  BY <1>5, <1>7
<1>9. /\ s \in Seq(Nat) /\ Len(s) = q
      /\ \A i \in 1..Len(s) : s[i] \in B
      /\ \A i, j \in 1..Len(s) : i < j => s[i] < s[j]
      /\ \A d \in B : \E i \in 1..Len(s) : s[i] = d
  BY <1>6, <1>8
<1> HIDE DEF Right, Known
<1>10. s \in Seq(B)
  <2>1. PICK n \in Nat : n = Len(s)
    BY <1>9
  <2>2. s \in [1..n -> B]
    BY <1>9, <2>1
  <2> QED
    BY <2>1, <2>2
<1> QED
  BY <1>1, <1>7, <1>9, <1>10

\* What is found in a word of the copy: all of its djinn.
LEMMA WordSearched ==
    ASSUME NEW D \in Havings, Copied(D), NEW a \in Allies, NEW e \in Elements
    PROVE  /\ ~SearchFails(HaveBits(a, e), Qty(a, e))
           /\ Lists(Found(a, e), [f \in Elements |-> IF f = e THEN D[a][e] ELSE {}])
           /\ \A i \in DOMAIN Found(a, e) :
                Found(a, e)[i].element = e /\ Found(a, e)[i].status = 0
<1>1. PICK B \in SUBSET Djinn : B = D[a][e]
  BY DEF Havings
<1>2. B \in SUBSET (0..7) /\ \A d \in Djinn : d \in Nat
  BY DjinnAssumption DEF Djinn
<1>3. HaveBits(a, e) = B
  <2>1. Bits[Number(B)] = B /\ Number(B) \in 0..255
    BY <1>2, NumberBits
  <2>2. djinn_to_x86(GameWord[B]) = Number(B)
    <3>1. PICK n \in 0..255 : n = Number(B)
      BY <2>1
    <3>2. GameWord[B] = <<0, 0, n>>
      BY <3>1, WordFacts
    <3>3. djinn_to_x86(<<0, 0, n>>) = n
      BY DEF djinn_to_x86
    <3> QED
      BY <3>1, <3>2, <3>3
  <2> QED
    BY <1>1, <2>1, <2>2 DEF HaveBits, Copied
<1>4. PICK q \in Nat : q = Cardinality(B)
  BY <1>2, BelowFacts
<1>5. Qty(a, e) = q
  BY <1>1, <1>4 DEF Qty, Copied
<1>6. PICK b \in Seq(B) :
        /\ b = First(B, q) /\ Len(b) = q
        /\ \A i, j \in 1..q : i < j => b[i] < b[j]
        /\ \A d \in B : \E i \in 1..q : b[i] = d
  BY <1>2, <1>4, SearchMeetsAll
<1>7. ~SearchFails(HaveBits(a, e), Qty(a, e))
  BY <1>3, <1>5, <1>6 DEF SearchFails
<1>8. PICK s : s = Found(a, e)
  OBVIOUS
<1>9. s = [i \in 1..q |-> [element |-> e, status |-> 0, id |-> 2^b[i]]]
  BY <1>3, <1>5, <1>6, <1>8 DEF Found
<1>10. /\ DOMAIN s = 1..q
       /\ \A i \in 1..q : /\ s[i].element = e /\ s[i].status = 0 /\ s[i].id = 2^b[i]
                          /\ b[i] \in B /\ b[i] \in Djinn
  BY <1>6, <1>9
<1>11. s \in Seq(Item)
  <2>1. ASSUME NEW i \in 1..q
        PROVE  [element |-> e, status |-> 0, id |-> 2^b[i]] \in Item
    <3>1. PICK d \in Djinn : d = b[i]
      BY <1>10
    <3>2. 2^d \in {2^c : c \in Djinn}
      BY Zenon
    <3>3. PICK k \in {2^c : c \in Djinn} : k = 2^b[i]
      BY <3>1, <3>2
    <3> QED
      BY <3>3 DEF Item
  <2> QED
    BY <1>9, <2>1
<1>12. InOrder(s)
  <2> SUFFICES ASSUME NEW i \in 1..q, NEW j \in 1..q, i < j
               PROVE  s[i].element = s[j].element /\ s[i].id < s[j].id
    BY <1>10 DEF InOrder
  <2>1. PICK c \in Djinn, d \in Djinn : c = b[i] /\ d = b[j] /\ c < d
    BY <1>6, <1>10
  <2>2. 2^c < 2^d
    BY <2>1, BinaryIds
  <2> QED
    BY <1>10, <2>1, <2>2
<1>13. ASSUME NEW f \in Elements, NEW d \in Djinn
       PROVE  (d \in IF f = e THEN D[a][e] ELSE {})
                 <=> \E i \in DOMAIN s : s[i].element = f /\ s[i].id = 2^d
  <2>1. CASE f # e
    BY <1>10, <2>1
  <2>2. CASE f = e
    <3>1. ASSUME d \in B PROVE \E i \in DOMAIN s : s[i].element = f /\ s[i].id = 2^d
      <4>1. PICK i \in 1..q : b[i] = d
        BY <1>6, <3>1
      <4> QED
        BY <1>10, <2>2, <4>1
    <3>2. ASSUME NEW i \in DOMAIN s, s[i].id = 2^d PROVE d \in B
      <4>1. PICK c \in Djinn : c = b[i] /\ c \in B /\ 2^c = 2^d
        BY <1>10, <3>2
      <4>2. Shifts[2^c] = c /\ Shifts[2^d] = d
        BY BinaryIds
      <4> QED
        BY <4>1, <4>2
    <3> QED
      BY <1>1, <2>2, <3>1, <3>2
  <2> QED
    BY <2>1, <2>2
<1>14. Lists(s, [f \in Elements |-> IF f = e THEN D[a][e] ELSE {}])
  BY <1>11, <1>12, <1>13 DEF Lists
<1> QED
  BY <1>7, <1>8, <1>10, <1>14

----------------------------------------------------------------------------
(* The lists of the elements, joined.                                        *)

\* A list goes on with one of later elements.
LEMMA ListGoesOn ==
    ASSUME NEW s, NEW t, NEW f, NEW g, NEW h, Lists(s, f), Lists(t, g),
           \A i \in DOMAIN s, j \in DOMAIN t : s[i].element < t[j].element,
           \A e \in Elements, d \in Djinn : d \in h[e] <=> d \in f[e] \/ d \in g[e]
    PROVE  Lists(s \o t, h)
<1>1. s \in Seq(Item) /\ t \in Seq(Item) /\ InOrder(s) /\ InOrder(t)
  BY DEF Lists
<1>2. \A e \in Elements, d \in Djinn :
        d \in g[e] <=> \E i \in DOMAIN t : t[i].element = e /\ t[i].id = 2^d
  <2>1. Lists(t, g)
    OBVIOUS
  <2> QED
    BY <2>1 DEF Lists
<1>3. PICK l, m \in Nat : l = Len(s) /\ m = Len(t)
  BY <1>1
<1>4. PICK u : u = s \o t
  OBVIOUS
<1>5. /\ u \in Seq(Item) /\ DOMAIN u = 1..(l + m) /\ DOMAIN s = 1..l /\ DOMAIN t = 1..m
      /\ \A i \in 1..l : u[i] = s[i]
      /\ \A i \in (l + 1)..(l + m) : u[i] = t[i - l] /\ i - l \in 1..m
  BY <1>1, <1>3, <1>4
<1>6. \A i \in 1..m : i + l \in 1..(l + m) /\ u[i + l] = t[i]
  <2>1. ASSUME NEW i \in 1..m
        PROVE  i + l \in 1..(l + m) /\ i + l \in (l + 1)..(l + m) /\ (i + l) - l = i
    OBVIOUS
  <2> QED
    BY <1>5, <2>1
<1>7. InOrder(u)
  <2> SUFFICES ASSUME NEW i \in 1..(l + m), NEW j \in 1..(l + m), i < j
               PROVE  \/ u[i].element < u[j].element
                      \/ u[i].element = u[j].element /\ u[i].id < u[j].id
    BY <1>5 DEF InOrder
  <2>1. CASE j \in 1..l
    <3>1. i \in 1..l
      BY <2>1
    <3> QED
      BY <1>1, <1>5, <2>1, <3>1 DEF InOrder
  <2>2. CASE i \in 1..l /\ j \in (l + 1)..(l + m)
    BY <1>5, <2>2
  <2>3. CASE i \in (l + 1)..(l + m)
    <3>1. j \in (l + 1)..(l + m) /\ i - l < j - l
      BY <2>3
    <3>2. PICK x \in 1..m, y \in 1..m : u[i] = t[x] /\ u[j] = t[y] /\ x < y
      BY <1>5, <2>3, <3>1
    <3>3. \/ t[x].element < t[y].element
          \/ t[x].element = t[y].element /\ t[x].id < t[y].id
      BY <1>1, <1>5, <3>2 DEF InOrder
    <3> QED
      BY <3>2, <3>3
  <2> QED
    BY <2>1, <2>2, <2>3
<1>8. ASSUME NEW e \in Elements, NEW d \in Djinn
      PROVE  d \in h[e] <=> \E i \in DOMAIN u : u[i].element = e /\ u[i].id = 2^d
  <2>1. ASSUME d \in h[e] PROVE \E i \in DOMAIN u : u[i].element = e /\ u[i].id = 2^d
    <3>1. CASE d \in f[e]
      <4>1. PICK i \in 1..l : s[i].element = e /\ s[i].id = 2^d
        BY <1>5, <3>1 DEF Lists
      <4>2. i \in 1..(l + m)
        OBVIOUS
      <4> QED
        BY <1>5, <4>1, <4>2
    <3>2. CASE d \in g[e]
      <4>1. PICK i \in 1..m : t[i].element = e /\ t[i].id = 2^d
        BY <1>2, <1>5, <3>2
      <4>2. i + l \in 1..(l + m) /\ u[i + l] = t[i]
        BY <1>6
      <4> QED
        BY <1>5, <4>1, <4>2
    <3> QED
      BY <2>1, <3>1, <3>2
  <2>2. ASSUME NEW i \in DOMAIN u, u[i].element = e, u[i].id = 2^d PROVE d \in h[e]
    <3>1. CASE i \in 1..l
      <4>1. d \in f[e]
        BY <1>5, <2>2, <3>1 DEF Lists
      <4> QED
        BY <4>1
    <3>2. CASE i \in (l + 1)..(l + m)
      <4>1. PICK x \in 1..m : u[i] = t[x]
        BY <1>5, <3>2
      <4>2. d \in g[e]
        BY <1>2, <1>5, <2>2, <4>1
      <4> QED
        BY <4>2
    <3> QED
      BY <1>5, <3>1, <3>2
  <2> QED
    BY <2>1, <2>2
<1>9. Lists(u, h)
  BY <1>5, <1>7, <1>8 DEF Lists
<1> QED
  BY <1>4, <1>9

\* The djinn of f of the elements below n.
Upto(f, n) == [e \in Elements |-> IF e < n THEN f[e] ELSE {}]

\* The joined lists are of all the djinn of an ally, none of them told of yet.
LEMMA AllySearched ==
    ASSUME NEW D \in Havings, Copied(D), NEW a \in Allies, NEW s,
           s = FlattenSeq([e \in 1..NElements |-> Found(a, e - 1)])
    PROVE  Lists(s, D[a]) /\ \A i \in DOMAIN s : s[i].status = 0
<1> DEFINE seqs == [e \in 1..NElements |-> Found(a, e - 1)]
           Right(F, n) == /\ Lists(F, Upto(D[a], n))
                          /\ \A i \in DOMAIN F : F[i].status = 0 /\ F[i].element < n
<1>1. /\ NElements \in Nat /\ NElements > 0 /\ Len(seqs) = NElements
      /\ \A e \in Elements : e \in Nat /\ e + 1 \in 1..NElements /\ seqs[e + 1] = Found(a, e)
  BY DjinnAssumption DEF Elements
<1>2. PICK F : /\ F = [i \in 1..NElements |-> FlattenStep(seqs, F, i)]
               /\ s = F[NElements]
  BY <1>1, FlattenSolved
<1> HIDE DEF seqs
<1>3. ASSUME NEW e \in Elements
      PROVE  /\ Lists(Found(a, e), [f \in Elements |-> IF f = e THEN D[a][e] ELSE {}])
             /\ \A i \in DOMAIN Found(a, e) :
                  Found(a, e)[i].element = e /\ Found(a, e)[i].status = 0
  BY WordSearched
<1> DEFINE Known == {n \in Nat : n + 1 \in 1..NElements => Right(F[n + 1], n + 1)}
<1>4. 0 \in Known
  <2>1. 0 \in Elements /\ 1 \in 1..NElements
    BY <1>1 DEF Elements
  <2>2. F[1] = Found(a, 0)
    BY <1>1, <1>2, <2>1 DEF FlattenStep
  <2>3. \A e \in Elements : e < 1 <=> e = 0
    BY <1>1
  <2>4. Upto(D[a], 1) = [f \in Elements |-> IF f = 0 THEN D[a][0] ELSE {}]
    BY <2>3 DEF Upto
  <2>5. PICK t : t = Found(a, 0)
    OBVIOUS
  <2>6. /\ Lists(t, Upto(D[a], 1))
        /\ \A i \in DOMAIN t : t[i].status = 0 /\ t[i].element = 0
    BY <1>3, <2>1, <2>4, <2>5
  <2>7. Right(F[1], 1)
    BY <2>2, <2>5, <2>6
  <2> QED
    BY <2>7
<1>5. ASSUME NEW n \in Nat, n \in Known PROVE n + 1 \in Known
  <2> SUFFICES ASSUME n + 2 \in 1..NElements PROVE Right(F[n + 2], n + 2)
    OBVIOUS
  <2>1. n + 1 \in Elements /\ n + 1 \in 1..NElements
    BY <1>1 DEF Elements
  <2>2. Right(F[n + 1], n + 1)
    BY <1>5, <2>1
  <2>3. F[n + 2] = F[n + 1] \o Found(a, n + 1)
    <3>1. n + 2 # 1 /\ (n + 2) - 1 = n + 1 /\ (n + 1) + 1 = n + 2
      OBVIOUS
    <3>2. F[n + 2] = F[n + 1] \o seqs[n + 2]
      BY <1>2, <3>1 DEF FlattenStep
    <3> QED
      BY <1>1, <2>1, <3>1, <3>2
  <2> HIDE DEF Known
  <2>4. PICK t : t = Found(a, n + 1)
    OBVIOUS
  <2>5. PICK u : u = F[n + 1]
    OBVIOUS
  <2>6. /\ Lists(t, [f \in Elements |-> IF f = n + 1 THEN D[a][n + 1] ELSE {}])
        /\ \A i \in DOMAIN t : t[i].element = n + 1 /\ t[i].status = 0
    BY <1>3, <2>1, <2>4
  <2>7. /\ Lists(u, Upto(D[a], n + 1))
        /\ \A i \in DOMAIN u : u[i].status = 0 /\ u[i].element < n + 1
    BY <2>2, <2>5
  <2> HIDE DEF Right
  <2>8. \A i \in DOMAIN u, j \in DOMAIN t : u[i].element < t[j].element
    BY <2>6, <2>7
  <2>9. \A e \in Elements, d \in Djinn :
          d \in Upto(D[a], n + 2)[e] <=>
            \/ d \in Upto(D[a], n + 1)[e]
            \/ d \in [f \in Elements |-> IF f = n + 1 THEN D[a][n + 1] ELSE {}][e]
    <3>1. \A e \in Elements : e < n + 2 <=> e < n + 1 \/ e = n + 1
      BY <1>1
    <3> QED
      BY <3>1 DEF Upto
  <2>10. Lists(u \o t, Upto(D[a], n + 2))
    BY <2>6, <2>7, <2>8, <2>9, ListGoesOn
  <2>11. ASSUME NEW i \in DOMAIN (u \o t)
         PROVE  (u \o t)[i].status = 0 /\ (u \o t)[i].element < n + 2
    <3>1. u \in Seq(Item) /\ t \in Seq(Item)
      BY <2>6, <2>7 DEF Lists
    <3>2. (\E j \in DOMAIN u : (u \o t)[i] = u[j]) \/ (\E j \in DOMAIN t : (u \o t)[i] = t[j])
      BY <3>1
    <3>3. CASE \E j \in DOMAIN u : (u \o t)[i] = u[j]
      <4>1. PICK j \in DOMAIN u : (u \o t)[i] = u[j]
        BY <3>3
      <4>2. u[j] \in Item
        BY <3>1
      <4>3. u[j].element \in Int
        BY <4>2 DEF Item, Elements
      <4>4. u[j].status = 0 /\ u[j].element < n + 1
        BY <2>7
      <4>5. u[j].element < n + 2
        BY <4>3, <4>4
      <4> QED
        BY <4>1, <4>4, <4>5
    <3>4. CASE \E j \in DOMAIN t : (u \o t)[i] = t[j]
      BY <2>6, <3>4
    <3> QED
      BY <3>2, <3>3, <3>4
  <2> QED
    BY <2>3, <2>4, <2>5, <2>10, <2>11 DEF Right
<1>6. Right(s, NElements)
  <2>1. NElements - 1 \in Nat /\ (NElements - 1) + 1 = NElements
    BY <1>1
  <2> HIDE DEF Known
  <2>2. NElements - 1 \in Known
    BY <1>4, <1>5, <2>1, SetInduction
  <2> USE DEF Known
  <2> HIDE DEF Right
  <2> QED
    BY <1>1, <1>2, <2>1, <2>2
<1>7. Upto(D[a], NElements) = D[a]
  <2>1. \A e \in Elements : e < NElements
    BY <1>1 DEF Elements
  <2>2. D[a] \in [Elements -> SUBSET Djinn]
    BY DEF Havings
  <2> QED
    BY <2>1, <2>2 DEF Upto
<1> QED
  BY <1>6, <1>7

----------------------------------------------------------------------------
(* What the lists are like.                                                  *)

\* An even share fits into the places of a list.
LEMMA PlacesSuffice ==
    EvenShare \in Nat /\ Places \in Nat /\ EvenShare <= Places
<1>1. PICK p \in Nat, n \in Nat \ {0} : p = NElements * NDjinn /\ n = NAllies
  <2>1. NElements \in Nat /\ NDjinn \in Nat /\ NAllies \in Nat \ {0}
    BY DjinnAssumption
  <2>2. NElements * NDjinn \in Nat
    BY <2>1
  <2> QED
    BY <2>1, <2>2
<1>2. p % n = 0 /\ Places \in Nat /\ Places * n >= p
  BY <1>1, DjinnAssumption, PlacesAssumption
<1>3. PICK q \in Nat : q = p \div n
  OBVIOUS
<1>4. p = n * q
  BY <1>2, <1>3
<1>5. q <= Places
  BY <1>2, <1>4
<1> QED
  BY <1>1, <1>2, <1>3, <1>5 DEF EvenShare

\* A djinn of a list, and that no other place of the list has it.
LEMMA ListFacts ==
    ASSUME NEW f, NEW s, Lists(s, f)
    PROVE  /\ s \in Seq(Item) /\ Len(s) \in Nat /\ DOMAIN s = 1..Len(s)
           /\ \A i \in DOMAIN s :
                /\ s[i].element \in Elements /\ Shifts[s[i].id] \in Djinn
                /\ s[i].id = 2^Shifts[s[i].id]
                /\ Shifts[s[i].id] \in f[s[i].element]
           /\ \A i, j \in DOMAIN s :
                s[i].element = s[j].element /\ Shifts[s[i].id] = Shifts[s[j].id] => i = j
<1>1. s \in Seq(Item) /\ Len(s) \in Nat /\ DOMAIN s = 1..Len(s) /\ InOrder(s)
  BY DEF Lists
<1>2. ASSUME NEW i \in DOMAIN s
      PROVE  \E d \in Djinn : /\ s[i].element \in Elements /\ s[i].id = 2^d
                              /\ Shifts[s[i].id] = d /\ s[i].id \in Int
  <2>1. PICK item \in Item : item = s[i]
    BY <1>1
  <2>2. PICK d \in Djinn : item.element \in Elements /\ item.id = 2^d
    BY DEF Item
  <2>3. Shifts[2^d] = d /\ 2^d \in Int
    BY BinaryIds
  <2> QED
    BY <2>1, <2>2, <2>3
<1>3. ASSUME NEW i \in DOMAIN s PROVE Shifts[s[i].id] \in f[s[i].element]
  <2>1. PICK d \in Djinn : s[i].element \in Elements /\ s[i].id = 2^d /\ Shifts[s[i].id] = d
    BY <1>2
  <2>2. d \in f[s[i].element]
    BY <2>1 DEF Lists
  <2> QED
    BY <2>1, <2>2
<1>4. ASSUME NEW i \in DOMAIN s, NEW j \in DOMAIN s, i < j
      PROVE  ~(s[i].element = s[j].element /\ s[i].id = s[j].id)
  <2>1. \/ s[i].element < s[j].element
        \/ s[i].element = s[j].element /\ s[i].id < s[j].id
    BY <1>1, <1>4 DEF InOrder
  <2>2. /\ s[i].element \in Int /\ s[i].id \in Int
        /\ s[j].element \in Int /\ s[j].id \in Int
    BY <1>2 DEF Elements
  <2> QED
    BY <2>1, <2>2
<1>5. ASSUME NEW i \in DOMAIN s, NEW j \in DOMAIN s,
             s[i].element = s[j].element, Shifts[s[i].id] = Shifts[s[j].id]
      PROVE  i = j
  <2>1. i \in Int /\ j \in Int
    BY <1>1
  <2>2. s[i].id = s[j].id
    BY <1>2, <1>5
  <2>3. ~(i < j) /\ ~(j < i)
    BY <1>4, <1>5, <2>2
  <2> QED
    BY <2>1, <2>3
<1> QED
  BY <1>1, <1>2, <1>3, <1>5

\* A list is as long as an even share at most.
LEMMA ListFits ==
    ASSUME NEW D \in Havings, Shared(D), NEW a \in Allies, NEW s, Lists(s, D[a])
    PROVE  Len(s) <= Places
<1> DEFINE g == [i \in 1..Len(s) |-> <<s[i].element, Shifts[s[i].id]>>]
<1>1. /\ Len(s) \in Nat /\ DOMAIN s = 1..Len(s)
      /\ \A i \in DOMAIN s :
           /\ s[i].element \in Elements /\ Shifts[s[i].id] \in Djinn
           /\ Shifts[s[i].id] \in D[a][s[i].element]
      /\ \A i, j \in DOMAIN s :
           s[i].element = s[j].element /\ Shifts[s[i].id] = Shifts[s[j].id] => i = j
  BY ListFacts
<1>2. g \in [1..Len(s) -> Holding(D[a])]
  <2>1. \A i \in 1..Len(s) : <<s[i].element, Shifts[s[i].id]>> \in Holding(D[a])
    BY <1>1 DEF Holding
  <2> QED
    BY <2>1
<1>3. \A i, j \in 1..Len(s) : g[i] = g[j] => i = j
  BY <1>1
<1>4. g \in Injection(1..Len(s), Holding(D[a]))
  BY <1>2, <1>3 DEF Injection, IsInjective
<1> HIDE DEF g
<1>5. Cardinality(1..Len(s)) <= Cardinality(Holding(D[a]))
  BY <1>4, FiniteHoldings, FS_Injection
<1>6. Cardinality(1..Len(s)) = Len(s)
  <2>1. PICK n \in Nat : n = Len(s)
    BY <1>1
  <2>2. 1 \in Int /\ n \in Int
    OBVIOUS
  <2>3. Cardinality(1..n) = IF 1 > n THEN 0 ELSE n - 1 + 1
    BY <2>2, FS_Interval
  <2> QED
    BY <2>1, <2>3
<1>7. Cardinality(Holding(D[a])) \in Nat /\ Cardinality(Holding(D[a])) <= EvenShare
  BY FiniteHoldings DEF Shared
<1> QED
  BY <1>1, <1>5, <1>6, <1>7, PlacesSuffice

\* A name's place in the table is that of one djinn.
LEMMA NamesOnce ==
    ASSUME NEW e \in Elements, NEW d \in Djinn, NEW f \in Elements, NEW c \in Djinn
    PROVE  /\ d + NDjinn * e < NElements * NDjinn
           /\ d + NDjinn * e = c + NDjinn * f => e = f /\ d = c
<1>1. NDjinn \in Nat \ {0} /\ NElements \in Nat \ {0}
  BY DjinnAssumption
<1>2. e \in 0..(NElements - 1) /\ f \in 0..(NElements - 1) /\ d \in 0..(NDjinn - 1) /\ c \in 0..(NDjinn - 1)
  BY DEF Elements, Djinn
<1>3. NDjinn * e \in Nat /\ NDjinn * f \in Nat /\ NElements * NDjinn \in Nat
  BY <1>1, <1>2
<1>4. ASSUME NEW x \in Nat, NEW y \in Nat, x < y
      PROVE  NDjinn * x + NDjinn <= NDjinn * y
  <2>1. x + 1 <= y /\ NDjinn * (x + 1) = NDjinn * x + NDjinn
    BY <1>1, <1>4
  <2>2. NDjinn * (x + 1) <= NDjinn * y
    BY <1>1, <2>1
  <2> QED
    BY <2>1, <2>2
<1>5. NDjinn * e + NDjinn <= NDjinn * NElements
  BY <1>1, <1>2, <1>4
<1>6. NDjinn * NElements = NElements * NDjinn
  BY <1>1
<1>7. d + NDjinn * e < NElements * NDjinn
  BY <1>1, <1>2, <1>3, <1>5, <1>6
<1>8. ASSUME d + NDjinn * e = c + NDjinn * f PROVE e = f /\ d = c
  <2>1. ~(e < f)
    <3> SUFFICES ASSUME e < f PROVE FALSE
      OBVIOUS
    <3>1. NDjinn * e + NDjinn <= NDjinn * f
      BY <1>2, <1>4
    <3> QED
      BY <1>1, <1>2, <1>3, <1>8, <3>1
  <2>2. ~(f < e)
    <3> SUFFICES ASSUME f < e PROVE FALSE
      OBVIOUS
    <3>1. NDjinn * f + NDjinn <= NDjinn * e
      BY <1>2, <1>4
    <3> QED
      BY <1>1, <1>2, <1>3, <1>8, <3>1
  <2>3. e = f
    BY <1>2, <2>1, <2>2
  <2> QED
    BY <1>2, <1>3, <1>8, <2>3
<1> QED
  BY <1>7, <1>8


----------------------------------------------------------------------------
(* The queue.                                                                *)

\* What the queue of a quiet moment says of a djinn not told of yet.
LEMMA StatusRead ==
    ASSUME DjinnInv, Quiet, NEW a \in Allies, NEW item \in Item, item.status = 0
    PROVE  /\ StatusOf(a, item) \in {0, RECOVERY, STANDBY}
           /\ \A d \in Have(a)[item.element] : item.id = 2^d =>
                (StatusOf(a, item) = 0 <=> d \in Set(a)[item.element])
<1> DEFINE entries == {i \in DOMAIN queue : IsFor(queue[i], a, item)}
<1>1. item.element \in Elements
  BY DEF Item
<1>2. Have(a)[item.element] \subseteq Djinn
  BY <1>1, QuietFacts DEF UnitsAgree
<1>3. CASE entries = {}
  <2>1. StatusOf(a, item) = 0
    BY <1>3 DEF StatusOf
  <2>2. ASSUME NEW d \in Have(a)[item.element], item.id = 2^d, d \notin Set(a)[item.element]
        PROVE  FALSE
    <3>1. PICK i \in DOMAIN queue : Tells(queue[i], a, item.element, d)
      BY <1>1, <1>2, <2>2, QueueTells
    <3> QED
      BY <1>3, <2>2, <3>1 DEF Tells, IsFor
  <2> QED
    BY <2>1, <2>2
<1>4. CASE entries # {}
  <2>1. PICK i \in DOMAIN queue : IsFor(queue[i], a, item)
    BY <1>4
  <2>2. /\ queue \in Seq(Entry) /\ queue[i] \in Entry
        /\ queue[i].djinn \notin Set(queue[i].owner)[queue[i].element]
        /\ \A j \in DOMAIN queue : SameDjinn(queue[j], queue[i]) => j = i
    BY QuietFacts
  <2>3. entries = {i}
    <3>1. ASSUME NEW j \in entries PROVE j = i
      <4>1. PICK q \in Entry, r \in Entry : q = queue[i] /\ r = queue[j]
        BY <2>2
      <4>2. /\ q.owner = r.owner /\ q.element = r.element
            /\ q.djinn \in Djinn /\ r.djinn \in Djinn /\ 2^q.djinn = 2^r.djinn
        BY <2>1, <4>1 DEF Entry, IsFor
      <4>3. q.djinn = r.djinn
        BY <4>2, BinaryIds
      <4> QED
        BY <2>2, <4>1, <4>2, <4>3 DEF SameDjinn
    <3> QED
      BY <2>1, <3>1
  <2>4. Max(entries) = i
    <3>1. i \in Nat
      BY <2>2
    <3>2. PICK T : T = {i}
      OBVIOUS
    <3>3. Max(T) \in T
      BY <3>1, <3>2 DEF Max
    <3> QED
      BY <2>3, <3>2, <3>3
  <2>5. StatusOf(a, item) = queue[i].status
    BY <1>4, <2>4 DEF StatusOf
  <2>6. queue[i].status \in {STANDBY, RECOVERY}
    BY <2>2 DEF Entry
  <2>7. ASSUME NEW d \in Have(a)[item.element], item.id = 2^d
        PROVE  d \notin Set(a)[item.element]
    <3>1. PICK q \in Entry : q = queue[i]
      BY <2>2
    <3>2. q.djinn \in Djinn /\ d \in Djinn /\ 2^q.djinn = 2^d
      BY <1>2, <2>1, <2>7, <3>1 DEF Entry, IsFor
    <3>3. q.djinn = d
      BY <3>2, BinaryIds
    <3> QED
      BY <2>1, <2>2, <3>1, <3>3 DEF IsFor
  <2> QED
    BY <2>5, <2>6, <2>7 DEF STANDBY, RECOVERY
<1> QED
  BY <1>3, <1>4

\* A list whose djinn have got another status is a list of the same djinn.
LEMMA ListRetold ==
    ASSUME NEW s, NEW f, Lists(s, f), NEW t, DOMAIN t = DOMAIN s,
           \A i \in DOMAIN s : \E x \in {0, RECOVERY, STANDBY} :
               t[i] = [element |-> s[i].element, status |-> x, id |-> s[i].id],
           t = [i \in DOMAIN s |-> t[i]]
    PROVE  Lists(t, f)
<1>1. /\ s \in Seq(Item) /\ Len(s) \in Nat /\ DOMAIN s = 1..Len(s) /\ InOrder(s)
      /\ \A i \in DOMAIN s : s[i] \in Item
  BY ListFacts DEF Lists
<1>2. \A i \in DOMAIN s : t[i].element = s[i].element /\ t[i].id = s[i].id
  OBVIOUS
<1>3. ASSUME NEW i \in DOMAIN s PROVE t[i] \in Item
  <2>1. PICK k \in {2^d : d \in Djinn} : s[i].id = k /\ s[i].element \in Elements
    BY <1>1 DEF Item
  <2> QED
    BY <2>1 DEF Item
<1>4. t \in Seq(Item)
  <2>1. PICK n \in Nat : n = Len(s)
    BY <1>1
  <2>2. t \in [1..n -> Item]
    BY <1>1, <1>3, <2>1
  <2> QED
    BY <2>1, <2>2
<1>5. InOrder(t)
  BY <1>1, <1>2 DEF InOrder
<1>6. \A e \in Elements, d \in Djinn :
        d \in f[e] <=> \E i \in DOMAIN s : s[i].element = e /\ s[i].id = 2^d
  BY DEF Lists
<1>7. \A e \in Elements, d \in Djinn :
        d \in f[e] <=> \E i \in DOMAIN t : t[i].element = e /\ t[i].id = 2^d
  BY <1>2, <1>6
<1> QED
  BY <1>4, <1>5, <1>7 DEF Lists

----------------------------------------------------------------------------
(* The reader.                                                               *)

\* The copy is of a quiet moment's Units.
LEMMA CopyKeeps ==
    ASSUME DjinnInv, ReaderInv, Undisturbed, get_unit_data
    PROVE  ReaderInv'
<1>1. /\ rpc = "idle" /\ rpc' = "find" /\ Quiet /\ allies_raw' = units
      /\ UNCHANGED <<units, queue, alloc, todo, torn, export_djinn>>
  BY DEF get_unit_data, memoryVars, writerVars
<1>2. UnitsWhole /\ UnitsAgree /\ OneOwner /\ EvenShares
  BY <1>1, QuietFacts
<1>3. PICK D \in Havings : \A a \in Allies : D[a] = Have(a)
  <2>1. \A a \in Allies : Have(a) \in [Elements -> SUBSET Djinn]
    BY <1>2, UnitsRead
  <2>2. [a \in Allies |-> Have(a)] \in Havings
    BY <2>1 DEF Havings
  <2> QED
    BY <2>2
<1>4. Shared(D)
  <2>1. ASSUME NEW a \in Allies, NEW b \in Allies, NEW e \in Elements, NEW d \in Djinn,
               d \in Have(a)[e], d \in Have(b)[e]
        PROVE  a = b
    BY <1>2, <2>1 DEF OneOwner
  <2>2. \A a \in Allies : Cardinality(Holding(Have(a))) <= EvenShare
    BY <1>2 DEF EvenShares
  <2> QED
    BY <1>3, <2>1, <2>2 DEF Shared
<1>5. Copied(D)'
  <2>1. ASSUME NEW a \in Allies, NEW e \in Elements
        PROVE  /\ units[a].djinn_have[e] = GameWord[D[a][e]]
               /\ units[a].djinn_qty_total[e] = Cardinality(D[a][e])
    <3>1. units[a] = UnitOf(D[a], Set(a))
      BY <1>2, <1>3 DEF UnitsAgree
    <3> QED
      BY <3>1 DEF UnitOf
  <2> QED
    BY <1>1, <2>1 DEF Copied
<1>6. Quiet'
  BY <1>1 DEF Quiet
<1>7. /\ export_djinn' = [a \in Allies |-> export_djinn'[a]]
      /\ \A a \in Allies : export_djinn'[a] = <<>>
  BY <1>1 DEF ReaderInv
<1> QED
  BY <1>1, <1>3, <1>4, <1>5, <1>6, <1>7 DEF ReaderInv

\* The search does not fail, and lists all the djinn of the copy.
LEMMA FindKeeps ==
    ASSUME ReaderInv, FindDjinn
    PROVE  ReaderInv'
<1>1. rpc = "find" /\ UNCHANGED <<units, queue, alloc, todo, torn, allies_raw>>
  BY DEF FindDjinn, memoryVars, writerVars
<1>2. PICK D \in Havings : Shared(D) /\ Copied(D)
  BY <1>1 DEF ReaderInv
<1>3. ~\E a \in Allies, e \in Elements : SearchFails(HaveBits(a, e), Qty(a, e))
  BY <1>2, WordSearched
<1>4. /\ rpc' = "queue"
      /\ export_djinn' = [a \in Allies |-> FlattenSeq([e \in 1..NElements |-> Found(a, e - 1)])]
  BY <1>3 DEF FindDjinn
<1>5. ASSUME NEW a \in Allies
      PROVE  /\ Lists(export_djinn'[a], D[a])
             /\ \A i \in DOMAIN export_djinn'[a] : export_djinn'[a][i].status = 0
  <2>1. PICK s : s = FlattenSeq([e \in 1..NElements |-> Found(a, e - 1)])
    OBVIOUS
  <2>2. Lists(s, D[a]) /\ \A i \in DOMAIN s : s[i].status = 0
    BY <1>2, <2>1, AllySearched
  <2>3. export_djinn'[a] = s
    BY <1>4, <2>1
  <2> QED
    BY <2>2, <2>3
<1>6. Quiet' /\ Copied(D)'
  BY <1>1, <1>2 DEF ReaderInv, Quiet, Copied
<1>7. export_djinn' = [a \in Allies |-> export_djinn'[a]]
  BY <1>4
<1> QED
  BY <1>2, <1>4, <1>5, <1>6, <1>7 DEF ReaderInv

\* What ReadQueue makes of the lists.
LEMMA QueueRead ==
    ASSUME DjinnInv, ReaderInv, ReadQueue
    PROVE  /\ rpc = "queue" /\ rpc' = "done" /\ Quiet
           /\ UNCHANGED <<units, queue, alloc, todo, torn>>
           /\ export_djinn' = [a \in Allies |-> export_djinn'[a]]
           /\ \A a \in Allies :
                /\ DOMAIN export_djinn'[a] = DOMAIN export_djinn[a]
                /\ export_djinn'[a] = [i \in DOMAIN export_djinn[a] |-> export_djinn'[a][i]]
                /\ \A i \in DOMAIN export_djinn[a] :
                     /\ export_djinn[a][i] \in Item /\ export_djinn[a][i].status = 0
                     /\ export_djinn'[a][i] = [element |-> export_djinn[a][i].element,
                                               status |-> StatusOf(a, export_djinn[a][i]),
                                               id |-> export_djinn[a][i].id]
<1>1. /\ rpc = "queue" /\ rpc' = "done"
      /\ UNCHANGED <<units, queue, alloc, todo, torn>>
      /\ export_djinn' = [a \in Allies |-> [i \in DOMAIN export_djinn[a] |->
           [export_djinn[a][i] EXCEPT !.status = StatusOf(a, export_djinn[a][i])]]]
  BY DEF ReadQueue, memoryVars, writerVars
<1>2. Quiet
  BY <1>1 DEF ReaderInv
<1>3. ASSUME NEW a \in Allies, NEW i \in DOMAIN export_djinn[a]
      PROVE  /\ export_djinn[a][i] \in Item /\ export_djinn[a][i].status = 0
             /\ export_djinn'[a][i] = [element |-> export_djinn[a][i].element,
                                       status |-> StatusOf(a, export_djinn[a][i]),
                                       id |-> export_djinn[a][i].id]
  <2>1. export_djinn[a] \in Seq(Item) /\ export_djinn[a][i].status = 0
    BY <1>1 DEF ReaderInv, Lists
  <2>2. PICK item \in Item : item = export_djinn[a][i]
    BY <2>1
  <2>3. PICK x : x = StatusOf(a, item)
    OBVIOUS
  <2>4. [item EXCEPT !.status = x] = [element |-> item.element, status |-> x, id |-> item.id]
    BY DEF Item
  <2>5. export_djinn'[a][i] = [item EXCEPT !.status = x]
    BY <1>1, <2>2, <2>3
  <2> QED
    BY <2>1, <2>2, <2>3, <2>4, <2>5
<1>4. /\ export_djinn' = [a \in Allies |-> export_djinn'[a]]
      /\ \A a \in Allies :
           /\ DOMAIN export_djinn'[a] = DOMAIN export_djinn[a]
           /\ export_djinn'[a] = [i \in DOMAIN export_djinn[a] |-> export_djinn'[a][i]]
  BY <1>1
<1> QED
  BY <1>1, <1>2, <1>3, <1>4

\* The statuses are filled in, and the lists are of the same djinn as before.
LEMMA QueueKeeps ==
    ASSUME DjinnInv, ReaderInv, ReadQueue
    PROVE  ReaderInv'
<1>1. /\ rpc = "queue" /\ rpc' = "done" /\ Quiet
      /\ export_djinn' = [a \in Allies |-> export_djinn'[a]]
  BY QueueRead
<1>2. PICK D \in Havings : Shared(D) /\ \A a \in Allies : Lists(export_djinn[a], D[a])
  BY <1>1 DEF ReaderInv
<1>3. ASSUME NEW a \in Allies PROVE Lists(export_djinn'[a], D[a])
  <2>1. PICK s, t : s = export_djinn[a] /\ t = export_djinn'[a]
    OBVIOUS
  <2>2. /\ Lists(s, D[a]) /\ DOMAIN t = DOMAIN s /\ t = [i \in DOMAIN s |-> t[i]]
        /\ \A i \in DOMAIN s :
             /\ s[i] \in Item /\ s[i].status = 0
             /\ t[i] = [element |-> s[i].element, status |-> StatusOf(a, s[i]), id |-> s[i].id]
    BY <1>2, <2>1, QueueRead
  <2>3. \A i \in DOMAIN s : StatusOf(a, s[i]) \in {0, RECOVERY, STANDBY}
    BY <1>1, <2>2, StatusRead
  <2>4. \A i \in DOMAIN s : \E x \in {0, RECOVERY, STANDBY} :
          t[i] = [element |-> s[i].element, status |-> x, id |-> s[i].id]
    BY <2>2, <2>3
  <2>5. Lists(t, D[a])
    BY <2>2, <2>4, ListRetold
  <2> QED
    BY <2>1, <2>5
<1> QED
  BY <1>1, <1>2, <1>3 DEF ReaderInv

\* The lists are given up.
LEMMA FinishKeeps ==
    ASSUME Finish
    PROVE  ReaderInv'
<1>1. rpc' = "idle" /\ export_djinn' = [a \in Allies |-> <<>>]
  BY DEF Finish
<1>2. export_djinn' = [a \in Allies |-> export_djinn'[a]] /\ \A a \in Allies : export_djinn'[a] = <<>>
  BY <1>1
<1> QED
  BY <1>1, <1>2 DEF ReaderInv

\* Every listed djinn has a name in the table.
LEMMA ListedInTable ==
    ASSUME NEW f, NEW s, Lists(s, f), NEW i \in DOMAIN s
    PROVE  InTable(s[i])
<1>1. PICK e \in Elements, d \in Djinn : e = s[i].element /\ d = Shifts[s[i].id]
  BY ListFacts
<1>2. d + NDjinn * e < NElements * NDjinn
  BY NamesOnce
<1> QED
  BY <1>1, <1>2 DEF InTable, djinn_get_name

\* The lists are given up, or a list has fewer djinn than are printed of it.
LEMMA PrintKeeps ==
    ASSUME ReaderInv, PrintNames
    PROVE  ReaderInv'
<1>1. rpc = "done"
  BY DEF PrintNames
<1>2. CASE rpc' = "idle" /\ export_djinn' = [a \in Allies |-> <<>>]
  <2>1. export_djinn' = [a \in Allies |-> export_djinn'[a]] /\ \A a \in Allies : export_djinn'[a] = <<>>
    BY <1>2
  <2> QED
    BY <1>2, <2>1 DEF ReaderInv
<1>3. CASE ~(rpc' = "idle" /\ export_djinn' = [a \in Allies |-> <<>>])
  <2>1. rpc' = "crashed" /\ export_djinn' = export_djinn
    BY <1>3 DEF PrintNames
  <2>2. PICK a \in Allies, i \in 1..Printed :
          i \in DOMAIN export_djinn[a] => ~InTable(export_djinn[a][i])
    BY <1>3 DEF PrintNames
  <2>3. PICK D \in Havings : Shared(D) /\ \A b \in Allies : Lists(export_djinn[b], D[b])
    BY <1>1 DEF ReaderInv
  <2>4. i \notin DOMAIN export_djinn[a]
    BY <2>2, <2>3, ListedInTable
  <2>5. Len(export_djinn[a]) < Printed
    <3>1. Len(export_djinn[a]) \in Nat /\ DOMAIN export_djinn[a] = 1..Len(export_djinn[a])
      BY <2>3, ListFacts
    <3> QED
      BY <2>2, <2>4, <3>1, PlacesAssumption
  <2> QED
    BY <2>1, <2>3, <2>5 DEF ReaderInv
<1> QED
  BY <1>2, <1>3

\* Others' steps keep what the reader holds, as long as no writer begins under it.
LEMMA OthersKeep ==
    ASSUME ReaderInv, UNCHANGED readerVars, rpc \in {"find", "queue"} => Quiet'
    PROVE  ReaderInv'
<1>1. UNCHANGED <<rpc, allies_raw, export_djinn>>
  BY DEF readerVars
<1>2. \A D : Copied(D)' <=> Copied(D)
  BY <1>1 DEF Copied
<1> QED
  BY <1>1, <1>2 DEF ReaderInv


----------------------------------------------------------------------------
(* The reader's theorems.                                                    *)

QueueBounded == Len(queue) <= MaxQueue

LEMMA QueueStaysBounded ==
    ASSUME DjinnInv, Undisturbed, QueueBounded, GameStep
    PROVE  QueueBounded'
<1>1. CASE \E a \in Allies, e \in Elements, d \in Djinn : ToStandby(a, e, d)
  <2>1. PICK new : queue' = Append(queue, new) /\ Quiet /\ Len(queue) < MaxQueue
    BY <1>1 DEF ToStandby, GameRuns
  <2>2. queue \in Seq(Entry)
    BY <2>1, QuietFacts
  <2>3. Len(queue') = Len(queue) + 1 /\ Len(queue) \in Nat
    BY <2>1, <2>2
  <2> QED
    BY <2>1, <2>3, DjinnAssumption DEF QueueBounded
<1>2. CASE \E a, b \in Allies, x, y \in Elements \X Djinn : Trade(a, b, x, y)
  <2>1. PICK g : queue' = [i \in DOMAIN queue |-> g[i]] /\ Quiet
    <3>1. PICK a \in Allies, b \in Allies, x \in Elements \X Djinn, y \in Elements \X Djinn :
            Trade(a, b, x, y)
      BY <1>2
    <3>2. PICK p : queue' = [i \in DOMAIN queue |->
                     [queue[p[i]] EXCEPT !.owner = NewOwner(queue[p[i]], a, b, x, y)]]
      BY <3>1 DEF Trade
    <3>3. queue' = [i \in DOMAIN queue |-> queue'[i]]
      BY <3>2
    <3>4. Quiet
      BY <3>1 DEF Trade, GameRuns
    <3> QED
      BY <3>3, <3>4
  <2>2. PICK n \in Nat : DOMAIN queue = 1..n /\ Len(queue) = n
    BY <2>1, QuietFacts
  <2>3. Len(queue') = n
    BY <2>1, <2>2
  <2> QED
    BY <2>2, <2>3 DEF QueueBounded
<1>3. CASE \E i \in DOMAIN queue : Summoned(i) \/ Recovered(i)
  <2>1. PICK i \in DOMAIN queue : Summoned(i) \/ Recovered(i)
    BY <1>3
  <2>2. Quiet
    BY <2>1 DEF Summoned, Recovered, GameRuns
  <2>3. queue \in Seq(Entry) /\ i \in 1..Len(queue) /\ Len(queue) \in Nat
    BY <2>2, QuietFacts
  <2>4. CASE Summoned(i)
    <3>1. Len(queue') = Len(queue)
      BY <2>3, <2>4 DEF Summoned
    <3> QED
      BY <3>1 DEF QueueBounded
  <2>5. CASE Recovered(i)
    <3>1. Len(queue') = Len(queue) - 1
      BY <2>3, <2>5, Removed DEF Recovered
    <3> QED
      BY <2>3, <3>1, DjinnAssumption DEF QueueBounded
  <2> QED
    BY <2>1, <2>4, <2>5
<1> QED
  BY <1>1, <1>2, <1>3 DEF GameStep

\* What holds always when the game and the reader pause for the randomizer, and
\* it is run only when every djinn is set.
ExportInv == DjinnInv /\ QueueBounded /\ ReaderInv

\* The invariant of the memory and of the reader together.
THEOREM ExportInvariance ==
    ASSUME Undisturbed, QueueEmpty
    PROVE  Spec => []ExportInv
<1>1. Init => QueueBounded /\ ReaderInv
  <2> SUFFICES ASSUME Init PROVE QueueBounded /\ ReaderInv
    OBVIOUS
  <2>1. /\ queue = <<>> /\ rpc = "idle"
        /\ export_djinn = [a \in Allies |-> <<>>]
    BY DEF Init, MemoryInit
  <2>2. /\ export_djinn = [a \in Allies |-> export_djinn[a]]
        /\ \A a \in Allies : export_djinn[a] = <<>>
    BY <2>1
  <2> QED
    BY <2>1, <2>2, DjinnAssumption DEF QueueBounded, ReaderInv
<1>2. DjinnInv /\ QueueBounded /\ ReaderInv /\ [Next]_vars => QueueBounded' /\ ReaderInv'
  <2> SUFFICES ASSUME DjinnInv, QueueBounded, ReaderInv, [Next]_vars
               PROVE  QueueBounded' /\ ReaderInv'
    OBVIOUS
  <2>1. CASE ~Using /\ GameStep /\ UNCHANGED readerVars
    <3>1. UNCHANGED <<todo, torn>>
      BY <2>1 DEF GameStep, ToStandby, Trade, Summoned, Recovered, GameRuns, writerVars
    <3>2. rpc \in {"find", "queue"} => Quiet'
      BY <3>1 DEF ReaderInv, Quiet
    <3> QED
      BY <2>1, <3>2, QueueStaysBounded, OthersKeep
  <2>2. CASE /\ IF Undisturbed THEN ~Reading ELSE ~Using
             /\ \E owner \in Sharings : Randomize(owner)
             /\ UNCHANGED readerVars
    <3>1. rpc = "idle" /\ queue' = queue
      BY <2>2 DEF Reading, Randomize, memoryVars
    <3>2. QueueBounded'
      BY <3>1 DEF QueueBounded
    <3> QED
      BY <2>2, <3>1, <3>2, OthersKeep
  <2>3. CASE ~Using /\ (write_djinn \/ RandomizerDies) /\ UNCHANGED readerVars
    <3>1. todo > 0 /\ queue' = queue
      BY <2>3 DEF write_djinn, RandomizerDies, memoryVars
    <3>2. rpc \notin {"find", "queue"}
      BY <3>1 DEF ReaderInv, Quiet
    <3>3. QueueBounded'
      BY <3>1 DEF QueueBounded
    <3> QED
      BY <2>3, <3>2, <3>3, OthersKeep
  <2>4. CASE get_unit_data \/ FindDjinn \/ ReadQueue \/ Finish \/ PrintNames
    <3>1. QueueBounded'
      BY <2>4 DEF get_unit_data, FindDjinn, ReadQueue, Finish, PrintNames, memoryVars,
                  QueueBounded
    <3> QED
      BY <2>4, <3>1, CopyKeeps, FindKeeps, QueueKeeps, FinishKeeps, PrintKeeps
  <2>5. CASE UNCHANGED vars
    <3>1. UNCHANGED <<todo, torn, queue>> /\ UNCHANGED readerVars
      BY <2>5 DEF vars, readerVars
    <3>2. rpc \in {"find", "queue"} => Quiet'
      BY <3>1 DEF ReaderInv, Quiet
    <3> QED
      BY <3>1, <3>2, OthersKeep DEF QueueBounded
  <2> QED
    BY <2>1, <2>2, <2>3, <2>4, <2>5 DEF Next
<1>3. Spec => []DjinnInv
  BY MemoryInvariance
<1> QED
  BY <1>1, <1>2, <1>3, PTL DEF Spec, ExportInv

\* ExportTypeOK: no list is longer than its places and no queue than its bound,
\* and every item is one of an element, a number and a status that there are.
THEOREM ExportTypeCorrect ==
    ASSUME Undisturbed, QueueEmpty
    PROVE  Spec => []ExportTypeOK
<1>1. ExportInv => ExportTypeOK
  <2> SUFFICES ASSUME ExportInv PROVE ExportTypeOK
    OBVIOUS
  <2>1. ASSUME NEW a \in Allies
        PROVE  export_djinn[a] \in Seq(Item) /\ Len(export_djinn[a]) <= Places
    <3>1. CASE rpc \in {"idle", "find"}
      <4>1. export_djinn[a] = <<>>
        BY <3>1 DEF ExportInv, ReaderInv
      <4> QED
        BY <4>1, PlacesAssumption
    <3>2. CASE rpc \in {"queue", "done", "crashed"}
      <4>1. PICK D \in Havings : Shared(D) /\ Lists(export_djinn[a], D[a])
        BY <3>2 DEF ExportInv, ReaderInv
      <4> QED
        BY <4>1, ListFits, ListFacts
    <3> QED
      BY <3>1, <3>2 DEF ExportInv, ReaderInv
  <2>2. /\ export_djinn = [a \in Allies |-> export_djinn[a]]
        /\ rpc \in {"idle", "find", "queue", "done", "crashed"}
    BY DEF ExportInv, ReaderInv
  <2>3. export_djinn \in [Allies -> Seq(Item)]
    BY <2>1, <2>2
  <2>4. todo \in 0..(NAllies * Len(Fields))
    BY DEF ExportInv, DjinnInv, NWrites, Fields
  <2> QED
    BY <2>1, <2>2, <2>3, <2>4 DEF ExportTypeOK, ExportInv, QueueBounded
<1> QED
  BY <1>1, ExportInvariance, PTL

\* SearchNeverFails: the assert behind the search for a djinn never ends the
\* process.
THEOREM SearchNeverFailsCorrect ==
    ASSUME Undisturbed, QueueEmpty
    PROVE  Spec => []SearchNeverFails
<1>1. ExportInv => SearchNeverFails
  BY DEF ExportInv, ReaderInv, SearchNeverFails
<1> QED
  BY <1>1, ExportInvariance, PTL

\* ExportComplete: the lists are of exactly the djinn that the Units of the copy
\* give to each ally, each once, by element and number.
THEOREM ExportCompleteCorrect ==
    ASSUME Undisturbed, QueueEmpty
    PROVE  Spec => []ExportComplete
<1>1. ExportInv => ExportComplete
  <2> SUFFICES ASSUME ExportInv, rpc = "queue", NEW a \in Allies
               PROVE  LET list == export_djinn[a] IN
                      /\ \A e \in Elements :
                           {list[i].id : i \in {j \in DOMAIN list : list[j].element = e}}
                              = {2^d : d \in Owned(allies_raw[a].djinn_have[e])}
                      /\ \A i, j \in DOMAIN list : i < j =>
                           \/ list[i].element < list[j].element
                           \/ /\ list[i].element = list[j].element
                              /\ list[i].id < list[j].id
    BY DEF ExportComplete
  <2>1. PICK D \in Havings : Copied(D) /\ \A b \in Allies : Lists(export_djinn[b], D[b])
    BY DEF ExportInv, ReaderInv
  <2>2. PICK list : list = export_djinn[a]
    OBVIOUS
  <2>3. Lists(list, D[a])
    BY <2>1, <2>2
  <2>4. ASSUME NEW e \in Elements
        PROVE  {list[i].id : i \in {j \in DOMAIN list : list[j].element = e}}
                 = {2^d : d \in Owned(allies_raw[a].djinn_have[e])}
    <3>1. PICK B \in SUBSET Djinn : B = D[a][e]
      BY DEF Havings
    <3>2. Owned(allies_raw[a].djinn_have[e]) = B
      BY <2>1, <3>1, WordFacts DEF Copied
    <3>3. \A d \in Djinn : d \in B <=> \E i \in DOMAIN list : list[i].element = e /\ list[i].id = 2^d
      BY <2>3, <3>1 DEF Lists
    <3>4. \A i \in DOMAIN list : \E d \in Djinn : list[i].id = 2^d
      BY <2>3, ListFacts
    <3> QED
      BY <3>2, <3>3, <3>4
  <2>5. InOrder(list)
    BY <2>3 DEF Lists
  <2> QED
    BY <2>2, <2>4, <2>5 DEF InOrder
<1> QED
  BY <1>1, ExportInvariance, PTL

\* NamesDiffer: complete lists never show the same name twice, be it in one list
\* or in those of two allies; and only a list that is shorter than what is printed
\* of it makes oneshot read a name beyond the table.
THEOREM NamesDifferCorrect ==
    ASSUME Undisturbed, QueueEmpty
    PROVE  Spec => []NamesDiffer
<1>1. ExportInv => NamesDiffer
  <2>1. ExportInv /\ rpc = "crashed" => \E a \in Allies : Len(export_djinn[a]) < Printed
    BY DEF ExportInv, ReaderInv
  <2> SUFFICES ASSUME ExportInv, rpc = "done" PROVE NamesDiffer
    BY <2>1 DEF NamesDiffer
  <2> DEFINE shown == {x \in Allies \X (1..Places) : x[2] <= Len(export_djinn[x[1]])}
             name(x) == djinn_get_name(export_djinn[x[1]][x[2]])
  <2>2. PICK D \in Havings : Shared(D) /\ \A a \in Allies : Lists(export_djinn[a], D[a])
    BY DEF ExportInv, ReaderInv
  <2>3. ASSUME NEW x \in shown
        PROVE  \E a \in Allies, i \in 1..Places, e \in Elements, d \in Djinn :
                 /\ x = <<a, i>> /\ i \in DOMAIN export_djinn[a] /\ d \in D[a][e]
                 /\ e = export_djinn[a][i].element /\ d = Shifts[export_djinn[a][i].id]
                 /\ name(x) = d + NDjinn * e
    <3>1. PICK a \in Allies, i \in 1..Places : x = <<a, i>> /\ i <= Len(export_djinn[a])
      OBVIOUS
    <3>2. Lists(export_djinn[a], D[a])
      BY <2>2
    <3>3. Len(export_djinn[a]) \in Nat /\ DOMAIN export_djinn[a] = 1..Len(export_djinn[a])
      BY <3>2, ListFacts
    <3>4. i \in DOMAIN export_djinn[a]
      BY <3>1, <3>3, PlacesAssumption
    <3>5. PICK e \in Elements, d \in Djinn :
            /\ d \in D[a][e]
            /\ e = export_djinn[a][i].element /\ d = Shifts[export_djinn[a][i].id]
      BY <3>2, <3>4, ListFacts
    <3>6. name(x) = d + NDjinn * e
      BY <3>1, <3>5 DEF djinn_get_name
    <3> QED
      BY <3>1, <3>4, <3>5, <3>6
  <2> HIDE DEF shown, name
  <2>4. ASSUME NEW x \in shown, NEW y \in shown, name(x) = name(y) PROVE x = y
    <3>1. PICK a \in Allies, i \in 1..Places, e \in Elements, d \in Djinn :
            /\ x = <<a, i>> /\ i \in DOMAIN export_djinn[a] /\ d \in D[a][e]
            /\ e = export_djinn[a][i].element /\ d = Shifts[export_djinn[a][i].id]
            /\ name(x) = d + NDjinn * e
      BY <2>3
    <3>2. PICK b \in Allies, j \in 1..Places, f \in Elements, c \in Djinn :
            /\ y = <<b, j>> /\ j \in DOMAIN export_djinn[b] /\ c \in D[b][f]
            /\ f = export_djinn[b][j].element /\ c = Shifts[export_djinn[b][j].id]
            /\ name(y) = c + NDjinn * f
      BY <2>3
    <3>3. e = f /\ d = c
      <4>1. d + NDjinn * e = c + NDjinn * f
        BY <2>4, <3>1, <3>2
      <4> QED
        BY <4>1, NamesOnce
    <3>4. a = b
      BY <2>2, <3>1, <3>2, <3>3 DEF Shared
    <3>5. Lists(export_djinn[a], D[a])
      BY <2>2
    <3>6. i = j
      BY <3>1, <3>2, <3>3, <3>4, <3>5, ListFacts
    <3> QED
      BY <3>1, <3>2, <3>4, <3>6
  <2> QED
    BY <2>4 DEF NamesDiffer, shown, name
<1> QED
  BY <1>1, ExportInvariance, PTL

\* StatusTellsSet: the status that the queue gives to a listed djinn its ally still
\* has is 0 if and only if the djinn is set.
THEOREM StatusTellsSetCorrect ==
    ASSUME Undisturbed, QueueEmpty
    PROVE  Spec => StatusTellsSet
<1> DEFINE Told == rpc = "queue" /\ rpc' = "done" =>
                     \A a \in Allies : \A i \in DOMAIN export_djinn'[a] :
                         LET item == export_djinn'[a][i] IN
                         \A d \in Have(a)[item.element] : item.id = 2^d =>
                             (item.status = 0 <=> d \in Set(a)[item.element])
<1>1. ExportInv /\ [Next]_vars => [Told]_vars
  <2> SUFFICES ASSUME ExportInv, [Next]_vars, rpc = "queue", rpc' = "done",
                      NEW a \in Allies, NEW i \in DOMAIN export_djinn'[a]
               PROVE  LET item == export_djinn'[a][i] IN
                      \A d \in Have(a)[item.element] : item.id = 2^d =>
                          (item.status = 0 <=> d \in Set(a)[item.element])
    OBVIOUS
  <2>1. ReadQueue
    BY DEF Next, readerVars, get_unit_data, FindDjinn, Finish, PrintNames, vars
  <2>2. /\ Quiet /\ i \in DOMAIN export_djinn[a]
        /\ export_djinn[a][i] \in Item /\ export_djinn[a][i].status = 0
        /\ export_djinn'[a][i] = [element |-> export_djinn[a][i].element,
                                  status |-> StatusOf(a, export_djinn[a][i]),
                                  id |-> export_djinn[a][i].id]
    BY <2>1, QueueRead DEF ExportInv
  <2>3. PICK old \in Item : old = export_djinn[a][i] /\ old.status = 0
    BY <2>2
  <2>4. \A d \in Have(a)[old.element] : old.id = 2^d =>
          (StatusOf(a, old) = 0 <=> d \in Set(a)[old.element])
    BY <2>2, <2>3, StatusRead DEF ExportInv
  <2> QED
    BY <2>2, <2>3, <2>4
<1>2. Spec => []ExportInv
  BY ExportInvariance
<1> HIDE DEF Told
<1>3. Spec => [][Told]_vars
  BY <1>1, <1>2, PTL DEF Spec
<1> QED
  BY <1>3 DEF StatusTellsSet, Told

=============================================================================
