----------------------- MODULE DjinnRandomizerProofs -----------------------
(* The sharing out of the djinn is exact for every number of allies, of      *)
(* elements and of djinn: none is lost, none is given twice, and every ally  *)
(* ends with as many as the others.                                          *)
EXTENDS DjinnRandomizer, FiniteSetTheorems, TLAPS

Owned(a) == UNION {djinn_alloc[a][e] \X {e} : e \in Elements}

\* Every ally ends with the same number of djinn, be there as many elements as
\* allies or not.
EveryAllyFull ==
    pc = "done" => \A a \in Allies : Cardinality(Owned(a)) = DJINN_MAX

\* A call in the middle of its work has something left to assign.
CallHasWork == pc \in {"draw", "id"} => left > 0

\* The calls end with the last one.
CallsCounted == pc = "done" => draw = Draws

IInv == TypeOK /\ CallHasWork /\ CallsCounted /\ EachDjinnOnce

\* What the calls that have returned gave ally a, and the one under way.
Given(a) ==
    (IF draw >= 2 * a + 2 THEN 2 * Slot ELSE IF draw = 2 * a + 1 THEN Slot ELSE 0)
      + (IF draw > 2 * NAllies + a THEN 1 ELSE 0)
UnderWay(a) ==
    IF pc \in {"draw", "id"} /\ a = Ally(draw) THEN Qty(draw) - left ELSE 0

\* Every ally has what the calls gave him.
SharesCounted ==
    \A a \in Allies :
        /\ IsFiniteSet(Owned(a))
        /\ Cardinality(Owned(a)) = Given(a) + UnderWay(a)

\* A call for an ally, and for at least one and at most Slot djinn.
LEMMA CallsTyped ==
    ASSUME NEW k \in 0..Draws, k < Draws
    PROVE  Ally(k) \in Allies /\ Qty(k) \in 1..Slot
  BY RandomizerAssumption DEF Ally, Allies, Qty, Draws

LEMMA InitInv == Init => IInv
<1> SUFFICES ASSUME Init PROVE IInv
  OBVIOUS
<1>1. TypeOK
  BY RandomizerAssumption DEF Init, TypeOK, Draws, Elements, Djinn, DJINN_MAX, Allies
<1>2. CallHasWork /\ CallsCounted
  BY DEF Init, CallHasWork, CallsCounted
<1>3. EachDjinnOnce
  BY DEF Init, EachDjinnOnce
<1>4. QED
  BY <1>1, <1>2, <1>3 DEF IInv

\* The searches and the draws of rand() move nothing.
LEMMA SearchInv ==
    ASSUME IInv,
           \/ \E r \in Elements : StartElement(r)
           \/ NextElement
           \/ TakeElement
           \/ \E r \in Djinn : StartDjinn(r)
           \/ NextDjinn
    PROVE  IInv'
<1> USE DEF IInv
<1>1. UNCHANGED <<draw, djinn_pool, djinn_alloc>>
  BY DEF StartElement, NextElement, TakeElement, StartDjinn, NextDjinn
<1>2. EachDjinnOnce'
  BY <1>1 DEF EachDjinnOnce
<1>3. ASSUME NEW r \in Elements, StartElement(r) PROVE TypeOK' /\ CallHasWork' /\ CallsCounted'
  BY <1>3 DEF StartElement, TypeOK, CallHasWork, CallsCounted
<1>4. CASE NextElement
  <2>1. (element + 1) % NElements \in Elements
    BY RandomizerAssumption DEF TypeOK, Elements
  <2>2. QED
    BY <1>2, <1>4, <2>1 DEF NextElement, TypeOK, CallHasWork, CallsCounted
<1>5. CASE TakeElement
  <2>1. Qty(draw) \in 1..Slot
    BY <1>5, CallsTyped DEF TakeElement, TypeOK
  <2>2. QED
    BY <1>2, <1>5, <2>1, RandomizerAssumption 
       DEF TakeElement, TypeOK, CallHasWork, CallsCounted
<1>6. ASSUME NEW r \in Djinn, StartDjinn(r) PROVE TypeOK' /\ CallHasWork' /\ CallsCounted'
  BY <1>6 DEF StartDjinn, TypeOK, CallHasWork, CallsCounted
<1>7. CASE NextDjinn
  <2>1. (id + 1) % DJINN_MAX \in Djinn
    BY RandomizerAssumption DEF TypeOK, Djinn, DJINN_MAX
  <2>2. QED
    BY <1>2, <1>7, <2>1 DEF NextDjinn, TypeOK, CallHasWork, CallsCounted
<1>8. QED
  BY <1>2, <1>3, <1>4, <1>5, <1>6, <1>7

\* An assignment moves one djinn from the pool to one ally.
LEMMA AssignInv ==
    ASSUME IInv, AssignDjinn
    PROVE  IInv'
<1> DEFINE ally == Ally(draw)
<1> USE DEF IInv, AssignDjinn
<1>1. /\ draw \in 0..Draws
      /\ draw < Draws
      /\ left \in 1..Slot
      /\ id \in Djinn
      /\ element \in Elements
      /\ djinn_pool \in [Elements -> SUBSET Djinn]
      /\ djinn_alloc \in [Allies -> [Elements -> SUBSET Djinn]]
  BY RandomizerAssumption DEF TypeOK, CallHasWork
<1>2. ally \in Allies
  BY <1>1, CallsTyped
<1> HIDE DEF ally
<1>3. /\ djinn_pool' = [djinn_pool EXCEPT ![element] = @ \ {id}]
      /\ djinn_alloc' = [djinn_alloc EXCEPT ![ally][element] = @ \cup {id}]
  BY DEF ally
<1>4. /\ djinn_pool' \in [Elements -> SUBSET Djinn]
      /\ djinn_alloc' \in [Allies -> [Elements -> SUBSET Djinn]]
  <2>1. djinn_pool[element] \ {id} \in SUBSET Djinn
    BY <1>1
  <2>2. djinn_pool' \in [Elements -> SUBSET Djinn]
    BY <1>1, <1>3, <2>1
  <2>3. djinn_alloc[ally] \in [Elements -> SUBSET Djinn]
    BY <1>1, <1>2
  <2>4. [djinn_alloc[ally] EXCEPT ![element] = @ \cup {id}]
          \in [Elements -> SUBSET Djinn]
    <3>1. djinn_alloc[ally][element] \cup {id} \in SUBSET Djinn
      BY <1>1, <2>3
    <3>2. QED
      BY <1>1, <2>3, <3>1
  <2>5. djinn_alloc' =
          [djinn_alloc EXCEPT ![ally] = [djinn_alloc[ally] EXCEPT ![element] = @ \cup {id}]]
    BY <1>1, <1>2, <1>3
  <2>6. djinn_alloc' \in [Allies -> [Elements -> SUBSET Djinn]]
    BY <1>1, <1>2, <2>4, <2>5
  <2>7. QED
    BY <2>2, <2>6
<1>5. TypeOK'
  <2>1. draw' \in 0..Draws /\ left' \in 0..Slot /\ (pc' # "done" => draw' < Draws)
    BY <1>1, RandomizerAssumption DEF Draws
  <2>2. pc' \in {"call", "draw", "done"}
    OBVIOUS
  <2>3. QED
    BY <1>1, <1>4, <2>1, <2>2 DEF TypeOK
<1>6. CallHasWork' /\ CallsCounted'
  BY <1>1, RandomizerAssumption DEF CallHasWork, CallsCounted, Draws
<1>7. EachDjinnOnce'
  <2> SUFFICES ASSUME NEW e \in Elements, NEW d \in Djinn
               PROVE  /\ d \in djinn_pool'[e] => \A a \in Allies : d \notin djinn_alloc'[a][e]
                      /\ d \notin djinn_pool'[e] => \E a \in Allies : d \in djinn_alloc'[a][e]
                      /\ \A a, b \in Allies :
                           d \in djinn_alloc'[a][e] /\ d \in djinn_alloc'[b][e] => a = b
    BY DEF EachDjinnOnce
  <2>1. /\ d \in djinn_pool[e] => \A a \in Allies : d \notin djinn_alloc[a][e]
        /\ d \notin djinn_pool[e] => \E a \in Allies : d \in djinn_alloc[a][e]
        /\ \A a, b \in Allies :
             d \in djinn_alloc[a][e] /\ d \in djinn_alloc[b][e] => a = b
    BY DEF EachDjinnOnce
  <2>2. CASE e = element /\ d = id
    <3>1. d \notin djinn_pool'[e]
      BY <1>1, <1>3, <2>2
    <3>2. \A a \in Allies : d \in djinn_alloc'[a][e] <=> a = ally
      BY <1>1, <1>2, <1>3, <2>1, <2>2
    <3>3. QED
      BY <1>2, <3>1, <3>2
  <2>3. CASE ~(e = element /\ d = id)
    <3>1. d \in djinn_pool'[e] <=> d \in djinn_pool[e]
      BY <1>1, <1>3, <2>3
    <3>2. \A a \in Allies : d \in djinn_alloc'[a][e] <=> d \in djinn_alloc[a][e]
      BY <1>1, <1>2, <1>3, <2>3
    <3>3. QED
      BY <2>1, <3>1, <3>2
  <2>4. QED
    BY <2>2, <2>3
<1>8. QED
  BY <1>5, <1>6, <1>7

\* The inductive invariant of the draws.
THEOREM Invariance == Spec => []IInv
<1>1. IInv /\ [Next]_vars => IInv'
  <2> SUFFICES ASSUME IInv, [Next]_vars PROVE IInv'
    OBVIOUS
  <2>1. CASE Next
    BY <2>1, SearchInv, AssignInv DEF Next
  <2>2. CASE UNCHANGED vars
    BY <2>2 DEF vars, IInv, TypeOK, CallHasWork, CallsCounted, EachDjinnOnce
  <2>3. QED
    BY <2>1, <2>2
<1>2. QED
  BY InitInv, <1>1, PTL DEF Spec

\* The counters of the draws stay within the calls, elements and djinn there are.
THEOREM TypeCorrect == Spec => []TypeOK
<1>1. IInv => TypeOK
  BY DEF IInv
<1>2. QED
  BY Invariance, <1>1, PTL

\* No djinn is given to two allies, and none is lost.
THEOREM EachDjinnOnceCorrect == Spec => []EachDjinnOnce
<1>1. IInv => EachDjinnOnce
  BY DEF IInv
<1>2. QED
  BY Invariance, <1>1, PTL

----------------------------------------------------------------------------
\* What an ally owns, djinn by djinn.
LEMMA OwnedMembers ==
    ASSUME NEW a
    PROVE  \A x : x \in Owned(a) <=>
                \E e \in Elements : \E d \in djinn_alloc[a][e] : x = <<d, e>>
BY DEF Owned

\* A call gives one djinn more than it has still to assign before.
LEMMA AssignCounts ==
    ASSUME IInv, AssignDjinn, NEW a \in Allies
    PROVE  Given(a)' + UnderWay(a)' =
             Given(a) + UnderWay(a) + (IF a = Ally(draw) THEN 1 ELSE 0)
<1> USE RandomizerAssumption
<1>1. /\ draw \in Nat /\ draw < Draws /\ left \in Nat /\ left > 0
      /\ pc = "id" /\ a \in Nat /\ a < NAllies /\ NAllies \in Nat /\ Slot \in Nat
  BY DEF IInv, TypeOK, CallHasWork, AssignDjinn, Draws, Allies
<1>2. CASE left > 1
  <2>1. draw' = draw /\ left' = left - 1 /\ pc' = "draw"
    BY <1>1, <1>2 DEF AssignDjinn
  <2>2. Qty(draw) \in Int
    BY DEF Qty
  <2> QED
    BY <1>1, <2>1, <2>2 DEF Given, UnderWay
<1>3. CASE left = 1
  <2>1. draw' = draw + 1 /\ pc' \notin {"draw", "id"}
    BY <1>1, <1>3 DEF AssignDjinn
  <2>2. UnderWay(a)' = 0
    BY <2>1 DEF UnderWay
  <2>3. UnderWay(a) = IF a = Ally(draw) THEN Qty(draw) - 1 ELSE 0
    BY <1>1, <1>3 DEF UnderWay
  <2>4. Given(a)' = Given(a) + IF a = Ally(draw) THEN Qty(draw) ELSE 0
    <3>1. CASE draw < 2 * NAllies
      <4>1. a = Ally(draw) <=> draw = 2 * a \/ draw = 2 * a + 1
        BY <1>1, <3>1 DEF Ally
      <4>2. Qty(draw) = Slot
        BY <3>1 DEF Qty
      <4> QED
        BY <1>1, <2>1, <3>1, <4>1, <4>2 DEF Given
    <3>2. CASE draw >= 2 * NAllies
      <4>1. a = Ally(draw) <=> draw = 2 * NAllies + a
        BY <1>1, <3>2 DEF Ally
      <4>2. Qty(draw) = 1
        BY <1>1, <3>2 DEF Qty
      <4> QED
        BY <1>1, <2>1, <3>2, <4>1, <4>2 DEF Given
    <3> QED
      BY <1>1, <3>1, <3>2
  <2> QED
    BY <1>1, <2>2, <2>3, <2>4 DEF Given, Qty
<1> QED
  BY <1>1, <1>2, <1>3

\* Every step keeps the count of the shares.
LEMMA SharesStep ==
    ASSUME IInv, SharesCounted, [Next]_vars
    PROVE  SharesCounted'
<1> SUFFICES ASSUME NEW a \in Allies
             PROVE  /\ IsFiniteSet(Owned(a))'
                    /\ Cardinality(Owned(a))' = Given(a)' + UnderWay(a)'
  BY DEF SharesCounted
<1>1. IsFiniteSet(Owned(a)) /\ Cardinality(Owned(a)) = Given(a) + UnderWay(a)
  BY DEF SharesCounted
<1>2. CASE AssignDjinn
  <2>1. /\ id \in djinn_pool[element] /\ element \in Elements /\ id \in Djinn
        /\ djinn_alloc \in [Allies -> [Elements -> SUBSET Djinn]]
        /\ djinn_alloc' = [djinn_alloc EXCEPT ![Ally(draw)][element] = @ \cup {id}]
    BY <1>2 DEF IInv, TypeOK, AssignDjinn
  <2>2. Ally(draw) \in Allies
    BY <1>2, CallsTyped DEF IInv, TypeOK, AssignDjinn
  <2>3. CASE a = Ally(draw)
    <3>1. \A e \in Elements : djinn_alloc'[a][e] =
            IF e = element THEN djinn_alloc[a][e] \cup {id} ELSE djinn_alloc[a][e]
      BY <2>1, <2>2, <2>3
    <3>2. \A x : x \in Owned(a)' <=> x \in Owned(a) \/ x = <<id, element>>
      <4>1. \A x : x \in Owned(a)' <=>
              \E e \in Elements : \E d \in djinn_alloc'[a][e] : x = <<d, e>>
        BY DEF Owned
      <4>2. \A x : (\E e \in Elements : \E d \in djinn_alloc'[a][e] : x = <<d, e>>) <=>
              \/ \E e \in Elements : \E d \in djinn_alloc[a][e] : x = <<d, e>>
              \/ x = <<id, element>>
        BY <2>1, <3>1, Zenon
      <4> QED
        BY <4>1, <4>2, OwnedMembers
    <3>3. Owned(a)' = Owned(a) \cup {<<id, element>>}
      BY <3>2
    <3>4. <<id, element>> \notin Owned(a)
      <4>1. id \notin djinn_alloc[a][element]
        BY <2>1 DEF IInv, EachDjinnOnce
      <4> QED
        BY <4>1, OwnedMembers
    <3>5. IsFiniteSet(Owned(a))' /\ Cardinality(Owned(a))' = Cardinality(Owned(a)) + 1
      BY <1>1, <3>3, <3>4, FS_AddElement
    <3> QED
      BY <1>1, <1>2, <2>3, <3>5, AssignCounts
  <2>4. CASE a # Ally(draw)
    <3>1. \A e \in Elements : djinn_alloc'[a][e] = djinn_alloc[a][e]
      BY <2>1, <2>2, <2>4
    <3>2. Owned(a)' = Owned(a)
      <4>1. \A e \in Elements : djinn_alloc'[a][e] \X {e} = djinn_alloc[a][e] \X {e}
        BY <3>1
      <4> QED
        BY <4>1, Zenon DEF Owned
    <3>3. Given(a)' + UnderWay(a)' = Given(a) + UnderWay(a) + 0
      BY <1>2, <2>4, AssignCounts
    <3>4. Cardinality(Owned(a)) \in Nat
      BY <1>1, FS_CardinalityType
    <3> QED
      BY <1>1, <3>2, <3>3, <3>4
  <2> QED
    BY <2>3, <2>4
<1>3. CASE \/ \E r \in Elements : StartElement(r)
           \/ NextElement
           \/ TakeElement
           \/ \E r \in Djinn : StartDjinn(r)
           \/ NextDjinn
           \/ UNCHANGED vars
  <2>1. UNCHANGED <<draw, djinn_alloc>>
    BY <1>3 DEF StartElement, NextElement, TakeElement, StartDjinn, NextDjinn, vars
  <2>2. Owned(a)' = Owned(a) /\ Given(a)' = Given(a)
    BY <2>1 DEF Owned, Given
  <2>3. UnderWay(a)' = UnderWay(a)
    <3>1. CASE TakeElement
      BY <2>1, <3>1, RandomizerAssumption DEF TakeElement, UnderWay, Qty
    <3>2. CASE ~TakeElement
      <4>1. UNCHANGED left /\ (pc' \in {"draw", "id"} <=> pc \in {"draw", "id"})
        BY <1>3, <3>2 DEF StartElement, NextElement, StartDjinn, NextDjinn, vars
      <4> QED
        BY <2>1, <4>1 DEF UnderWay
    <3> QED
      BY <3>1, <3>2
  <2> QED
    BY <1>1, <2>2, <2>3
<1> QED
  BY <1>2, <1>3 DEF Next

\* EveryAllyFull: at the end every ally has his two full slots and a single
\* djinn.
THEOREM EveryAllyFullCorrect == Spec => []EveryAllyFull
<1>1. Init => SharesCounted
  <2> SUFFICES ASSUME Init, NEW a \in Allies
               PROVE  /\ IsFiniteSet(Owned(a))
                      /\ Cardinality(Owned(a)) = Given(a) + UnderWay(a)
    BY DEF SharesCounted
  <2>1. Owned(a) = {}
    BY DEF Init, Owned
  <2>2. Given(a) = 0 /\ UnderWay(a) = 0
    BY RandomizerAssumption DEF Init, Given, UnderWay, Allies
  <2> QED
    BY <2>1, <2>2, FS_EmptySet
<1>2. IInv /\ SharesCounted => EveryAllyFull
  <2> SUFFICES ASSUME IInv, SharesCounted, pc = "done", NEW a \in Allies
               PROVE  Cardinality(Owned(a)) = DJINN_MAX
    BY DEF EveryAllyFull
  <2>1. draw = 3 * NAllies /\ a \in Nat /\ a < NAllies /\ NAllies \in Nat /\ Slot \in Nat
    BY RandomizerAssumption DEF IInv, CallsCounted, Draws, Allies
  <2>2. Given(a) = DJINN_MAX /\ UnderWay(a) = 0
    BY <2>1 DEF Given, UnderWay, DJINN_MAX
  <2> QED
    BY <2>1, <2>2 DEF SharesCounted, DJINN_MAX
<1>3. IInv /\ SharesCounted /\ [Next]_vars => SharesCounted'
  BY SharesStep
<1> QED
  BY Invariance, <1>1, <1>2, <1>3, PTL DEF Spec

----------------------------------------------------------------------------
(* Why the searches end: the djinn left in the pools, counted in two ways.   *)

\* The djinn nobody has, of all elements together.
Pool == {x \in Djinn \X Elements : x[1] \in djinn_pool[x[2]]}

\* Djinn that the calls that have returned took, and the one under way.
Taken ==
    IF draw <= 2 * NAllies THEN Slot * draw ELSE Slot * (2 * NAllies) + draw - 2 * NAllies
Taking == IF pc \in {"draw", "id"} THEN Qty(draw) - left ELSE 0

\* All djinn are in the pools, but for those taken.
PoolCounted ==
    /\ IsFiniteSet(Pool)
    /\ Cardinality(Pool) + Taken + Taking = NElements * DJINN_MAX

\* While slots are drawn, each pool is as it was, or a slot or two short of that,
\* not counting what the call under way has taken.
Before(e) == Cardinality(djinn_pool[e]) + (IF e = element THEN Taking ELSE 0)
SlotsWhole ==
    draw < 2 * NAllies =>
        \A e \in Elements : Before(e) \in {2 * Slot + 1, Slot + 1, 1, 0}

\* The call under way has the rest of its djinn in the pool it draws from.
LeftFits == pc \in {"draw", "id"} => Cardinality(djinn_pool[element]) >= left

PoolInv == PoolCounted /\ SlotsWhole /\ LeftFits

\* The pools are finite.
LEMMA PoolsFinite ==
    ASSUME TypeOK, NEW e \in Elements
    PROVE  IsFiniteSet(djinn_pool[e]) /\ Cardinality(djinn_pool[e]) \in Nat
<1>1. IsFiniteSet(Djinn)
  BY RandomizerAssumption, FS_Interval DEF Djinn, DJINN_MAX
<1>2. djinn_pool[e] \in SUBSET Djinn
  BY DEF TypeOK
<1> QED
  BY <1>1, <1>2, FS_Subset, FS_CardinalityType

LEMMA PoolInitInv == Init => PoolInv
<1> SUFFICES ASSUME Init PROVE PoolInv
  OBVIOUS
<1> USE RandomizerAssumption
<1>1. IsFiniteSet(Djinn) /\ Cardinality(Djinn) = 2 * Slot + 1
  BY FS_Interval DEF Djinn, DJINN_MAX
<1>2. IsFiniteSet(Elements) /\ Cardinality(Elements) = NElements
  BY FS_Interval DEF Elements
<1>3. Pool = Djinn \X Elements
  BY DEF Init, Pool
<1>4. IsFiniteSet(Pool) /\ Cardinality(Pool) = (2 * Slot + 1) * NElements
  BY <1>1, <1>2, <1>3, FS_Product
<1>5. Taken = 0 /\ Taking = 0
  BY DEF Init, Taken, Taking
<1>6. PoolCounted
  BY <1>4, <1>5 DEF PoolCounted, DJINN_MAX
<1>7. SlotsWhole
  BY <1>1, <1>5 DEF SlotsWhole, Before, Init
<1>8. LeftFits
  BY DEF LeftFits, Init
<1> QED
  BY <1>6, <1>7, <1>8 DEF PoolInv

\* A draw takes one djinn out of one pool.
LEMMA AssignPool ==
    ASSUME IInv, PoolInv, AssignDjinn
    PROVE  PoolInv'
<1> USE RandomizerAssumption DEF IInv, PoolInv
<1>1. /\ draw \in Nat /\ draw < Draws /\ left \in Nat /\ left > 0 /\ pc = "id"
      /\ id \in djinn_pool[element] /\ element \in Elements /\ id \in Djinn
      /\ djinn_pool \in [Elements -> SUBSET Djinn]
      /\ djinn_pool' = [djinn_pool EXCEPT ![element] = @ \ {id}]
      /\ element' = element /\ NAllies \in Nat /\ Slot \in Nat
  BY DEF TypeOK, CallHasWork, AssignDjinn, Draws
<1>2. \A e \in Elements : djinn_pool'[e] =
        IF e = element THEN djinn_pool[e] \ {id} ELSE djinn_pool[e]
  BY <1>1
<1>3. \A e \in Elements : IsFiniteSet(djinn_pool[e]) /\ Cardinality(djinn_pool[e]) \in Nat
  BY PoolsFinite
<1>4. Cardinality(djinn_pool'[element]) = Cardinality(djinn_pool[element]) - 1
  BY <1>1, <1>2, <1>3, FS_RemoveElement
<1>5. IsFiniteSet(Pool)' /\ Cardinality(Pool)' = Cardinality(Pool) - 1
  <2>1. <<id, element>> \in Pool
    BY <1>1 DEF Pool
  <2>2. Pool' = Pool \ {<<id, element>>}
    BY <1>1, <1>2 DEF Pool
  <2> QED
    BY <2>1, <2>2, FS_RemoveElement DEF PoolCounted
<1>6. CASE left > 1
  <2>1. draw' = draw /\ left' = left - 1 /\ pc' = "draw"
    BY <1>1, <1>6 DEF AssignDjinn
  <2>2. Qty(draw) \in Int
    BY DEF Qty
  <2>3. Taken' = Taken /\ Taking' = Taking + 1 /\ Taking \in Int
    BY <1>1, <2>1, <2>2 DEF Taken, Taking, Qty
  <2>4. Cardinality(Pool) \in Nat /\ Taken \in Int
    BY <1>1, FS_CardinalityType DEF PoolCounted, Taken
  <2>5. PoolCounted'
    <3>1. Cardinality(Pool)' + Taken' = Cardinality(Pool) + Taken - 1
      BY <1>5, <2>3, <2>4
    <3>2. Cardinality(Pool) + Taken \in Int /\ Taking \in Int
      BY <2>3, <2>4
    <3>3. Cardinality(Pool)' + Taken' + Taking' = Cardinality(Pool) + Taken + Taking
      BY <2>3, <2>4, <3>1, <3>2, Z3
    <3> QED
      BY <1>5, <3>3 DEF PoolCounted
  <2>6. \A e \in Elements : Before(e)' = Before(e)
    BY <1>1, <1>2, <1>3, <1>4, <2>3 DEF Before
  <2>7. SlotsWhole'
    BY <2>1, <2>6 DEF SlotsWhole
  <2>8. LeftFits'
    BY <1>1, <1>3, <1>4, <2>1 DEF LeftFits
  <2> QED
    BY <2>5, <2>7, <2>8
<1>7. CASE left = 1
  <2>1. draw' = draw + 1 /\ pc' \notin {"draw", "id"}
    BY <1>1, <1>7 DEF AssignDjinn
  <2>2. Taking' = 0 /\ Taking = Qty(draw) - 1 /\ Qty(draw) \in Int
    BY <1>1, <1>7, <2>1 DEF Taking, Qty
  <2>3. Taken' = Taken + Qty(draw) /\ Taken \in Int
    <3>1. Slot * (draw + 1) = Slot * draw + Slot
      BY <1>1
    <3>2. Slot * draw \in Int /\ Slot * (2 * NAllies) \in Int
      BY <1>1
    <3>3. CASE draw < 2 * NAllies
      BY <1>1, <2>1, <3>1, <3>2, <3>3 DEF Taken, Qty
    <3>4. CASE draw = 2 * NAllies
      BY <1>1, <2>1, <3>2, <3>4 DEF Taken, Qty
    <3>5. CASE draw > 2 * NAllies
      BY <1>1, <2>1, <3>2, <3>5 DEF Taken, Qty
    <3> QED
      BY <1>1, <3>3, <3>4, <3>5
  <2>4. Cardinality(Pool) \in Nat
    BY FS_CardinalityType DEF PoolCounted
  <2>5. PoolCounted'
    BY <1>5, <2>2, <2>3, <2>4 DEF PoolCounted
  <2>6. SlotsWhole'
    <3> SUFFICES ASSUME draw + 1 < 2 * NAllies, NEW e \in Elements
                 PROVE  Before(e)' \in {2 * Slot + 1, Slot + 1, 1, 0}
      BY <2>1 DEF SlotsWhole
    <3>1. Before(e) \in {2 * Slot + 1, Slot + 1, 1, 0} /\ Qty(draw) = Slot
      BY <1>1 DEF SlotsWhole, Qty
    <3>2. CASE e # element
      BY <1>1, <1>2, <3>1, <3>2 DEF Before
    <3>3. CASE e = element
      <4>1. Before(e)' = Before(e) - Slot /\ Before(e) >= Slot
        BY <1>1, <1>3, <1>4, <1>7, <2>2, <3>1, <3>3 DEF Before, LeftFits
      <4> QED
        BY <1>1, <3>1, <4>1
    <3> QED
      BY <3>2, <3>3
  <2>7. LeftFits'
    BY <2>1 DEF LeftFits
  <2> QED
    BY <2>5, <2>6, <2>7
<1> QED
  BY <1>1, <1>6, <1>7

\* The searches leave the pools alone, and a call takes only what it can fill.
LEMMA SearchPool ==
    ASSUME IInv, PoolInv,
           \/ \E r \in Elements : StartElement(r)
           \/ NextElement
           \/ TakeElement
           \/ \E r \in Djinn : StartDjinn(r)
           \/ NextDjinn
           \/ UNCHANGED vars
    PROVE  PoolInv'
<1> USE DEF PoolInv
<1>1. UNCHANGED <<draw, djinn_pool>>
  BY DEF StartElement, NextElement, TakeElement, StartDjinn, NextDjinn, vars
<1>2. Taking' = Taking /\ (Taking = 0 \/ element' = element)
  <2>1. CASE TakeElement
    BY <1>1, <2>1, RandomizerAssumption DEF TakeElement, Taking, Qty
  <2>2. CASE StartDjinn(id') \/ NextDjinn \/ UNCHANGED vars
    BY <2>2 DEF StartDjinn, NextDjinn, vars, Taking, Qty
  <2>3. CASE StartElement(element') \/ NextElement
    BY <2>3 DEF StartElement, NextElement, Taking
  <2> QED
    BY <2>1, <2>2, <2>3 DEF StartElement, StartDjinn
<1>3. PoolCounted'
  BY <1>1, <1>2 DEF PoolCounted, Pool, Taken
<1>4. SlotsWhole'
  BY <1>1, <1>2 DEF SlotsWhole, Before
<1>5. LeftFits'
  BY DEF StartElement, NextElement, TakeElement, StartDjinn, NextDjinn, vars, LeftFits,
         count_unallocated
<1> QED
  BY <1>3, <1>4, <1>5

\* What is left is more than one djinn for each element while slots are drawn,
\* and at least one after that.
LEMMA PoolLarge ==
    ASSUME IInv, PoolInv, pc = "element"
    PROVE  /\ draw < 2 * NAllies => Cardinality(Pool) > NElements
           /\ Cardinality(Pool) > 0
<1> USE RandomizerAssumption
<1>1. /\ draw \in Nat /\ draw < 3 * NAllies
      /\ Slot \in Nat /\ Slot > 0 /\ NAllies \in Nat /\ NElements \in Nat
      /\ NAllies > 0 /\ NAllies <= NElements
  BY DEF IInv, TypeOK, Draws
<1>2. /\ Cardinality(Pool) \in Nat
      /\ Cardinality(Pool) + Taken = NElements * (2 * Slot + 1)
  <2>1. Cardinality(Pool) \in Nat /\ Taken \in Int
    BY <1>1, FS_CardinalityType DEF PoolInv, PoolCounted, Taken
  <2>2. Taking = 0
    BY DEF Taking
  <2> QED
    BY <2>1, <2>2 DEF PoolInv, PoolCounted, DJINN_MAX
<1>3. NElements * (2 * Slot + 1) = 2 * (Slot * NElements) + NElements
  BY <1>1
<1>4. Slot * NAllies <= Slot * NElements
  <2>1. Slot * (NElements - NAllies) >= 0
    BY <1>1
  <2>2. Slot * (NElements - NAllies) = Slot * NElements - Slot * NAllies
    BY <1>1
  <2> QED
    BY <1>1, <2>1, <2>2
<1>5. Slot * NElements \in Nat /\ Slot * NAllies \in Nat
  BY <1>1
<1>6. ASSUME draw < 2 * NAllies PROVE Cardinality(Pool) > NElements
  <2>1. Taken <= Slot * (2 * NAllies - 1) /\ Taken \in Int
    <3>1. Slot * (2 * NAllies - 1 - draw) >= 0
      BY <1>1, <1>6
    <3>2. Slot * (2 * NAllies - 1 - draw) = Slot * (2 * NAllies - 1) - Slot * draw
      BY <1>1
    <3>3. Taken = Slot * draw /\ Slot * draw \in Int
      BY <1>1, <1>6 DEF Taken
    <3> QED
      BY <1>1, <3>1, <3>2, <3>3
  <2>2. Slot * (2 * NAllies - 1) = 2 * (Slot * NAllies) - Slot
    BY <1>1
  <2> QED
    BY <1>1, <1>2, <1>3, <1>4, <1>5, <2>1, <2>2
<1>7. ASSUME draw >= 2 * NAllies PROVE Cardinality(Pool) > 0
  <2>1. Taken = 2 * (Slot * NAllies) + (draw - 2 * NAllies)
    BY <1>1, <1>7 DEF Taken
  <2> QED
    BY <1>1, <1>2, <1>3, <1>4, <1>5, <1>7, <2>1
<1> QED
  BY <1>1, <1>2, <1>6, <1>7

\* Pools of one djinn at most hold no more djinn than there are elements.
LEMMA SmallPools ==
    ASSUME TypeOK, \A e \in Elements : Cardinality(djinn_pool[e]) <= 1
    PROVE  Cardinality(Pool) <= NElements
<1>1. IsFiniteSet(Elements) /\ Cardinality(Elements) = NElements
  BY RandomizerAssumption, FS_Interval DEF Elements
<1>2. \A e \in Elements : \A c, d \in djinn_pool[e] : c = d
  <2> SUFFICES ASSUME NEW e \in Elements, NEW c \in djinn_pool[e], NEW d \in djinn_pool[e]
               PROVE  c = d
    OBVIOUS
  <2>1. IsFiniteSet(djinn_pool[e]) /\ Cardinality(djinn_pool[e]) \in Nat
    BY PoolsFinite
  <2>2. Cardinality(djinn_pool[e]) # 0
    BY <2>1, FS_EmptySet
  <2>3. Cardinality(djinn_pool[e]) = 1
    BY <2>1, <2>2
  <2> QED
    BY <2>1, <2>3, FS_Singleton
<1> DEFINE elementOf == [x \in Pool |-> x[2]]
<1>3. elementOf \in [Pool -> Elements]
  BY DEF Pool
<1>4. ASSUME NEW x \in Pool, NEW y \in Pool, elementOf[x] = elementOf[y] PROVE x = y
  <2>1. x = <<x[1], x[2]>> /\ y = <<y[1], y[2]>> /\ x[2] = y[2]
    BY <1>4 DEF Pool
  <2>2. x[1] = y[1]
    BY <1>2, <2>1 DEF Pool
  <2> QED
    BY <2>1, <2>2
<1>5. elementOf \in Injection(Pool, Elements)
  BY <1>3, <1>4 DEF Injection, IsInjective
<1> HIDE DEF elementOf
<1> QED
  BY <1>1, <1>5, FS_Injection

\* The pools are always what the calls have left of them.
THEOREM PoolInvariance == Spec => [](IInv /\ PoolInv)
<1>1. IInv /\ PoolInv /\ [Next]_vars => PoolInv'
  BY AssignPool, SearchPool DEF Next
<1> QED
  BY Invariance, PoolInitInv, <1>1, PTL DEF Spec

\* Neither of the two searches looks for what is not there.
THEOREM SearchesSucceedCorrect == Spec => []SearchesSucceed
<1>1. IInv /\ PoolInv => SearchesSucceed
  <2> SUFFICES ASSUME IInv, PoolInv PROVE SearchesSucceed
    OBVIOUS
  <2>1. ASSUME pc = "element"
        PROVE  \E e \in Elements : Cardinality(djinn_pool[e]) >= Qty(draw)
    <3>1. /\ TypeOK /\ draw \in Nat /\ Slot \in Nat /\ Slot > 0 /\ NAllies \in Nat
          /\ NElements \in Nat /\ Qty(draw) \in Nat
      BY RandomizerAssumption DEF IInv, TypeOK, Qty
    <3>2. SUFFICES ASSUME \A e \in Elements : Cardinality(djinn_pool[e]) < Qty(draw)
                   PROVE  FALSE
      BY <3>1, PoolsFinite
    <3>3. CASE draw < 2 * NAllies
      <4>1. \A e \in Elements : Cardinality(djinn_pool[e]) <= 1
        <5> SUFFICES ASSUME NEW e \in Elements PROVE Cardinality(djinn_pool[e]) <= 1
          OBVIOUS
        <5>1. Cardinality(djinn_pool[e]) \in Nat
          BY <3>1, PoolsFinite
        <5>2. Before(e) = Cardinality(djinn_pool[e])
          BY <2>1, <5>1 DEF Before, Taking
        <5>3. Cardinality(djinn_pool[e]) \in {2 * Slot + 1, Slot + 1, 1, 0}
          BY <3>3, <5>2 DEF PoolInv, SlotsWhole
        <5>4. Cardinality(djinn_pool[e]) < Slot
          BY <3>2, <3>3 DEF Qty
        <5> QED
          BY <3>1, <5>1, <5>3, <5>4
      <4>2. Cardinality(Pool) \in Nat
        BY FS_CardinalityType DEF PoolInv, PoolCounted
      <4> QED
        BY <2>1, <3>1, <3>3, <4>1, <4>2, SmallPools, PoolLarge
    <3>4. CASE draw >= 2 * NAllies
      <4>1. \A e \in Elements : djinn_pool[e] = {}
        <5> SUFFICES ASSUME NEW e \in Elements PROVE djinn_pool[e] = {}
          OBVIOUS
        <5>1. IsFiniteSet(djinn_pool[e]) /\ Cardinality(djinn_pool[e]) \in Nat
          BY <3>1, PoolsFinite
        <5>2. Cardinality(djinn_pool[e]) = 0
          BY <3>1, <3>2, <3>4, <5>1 DEF Qty
        <5> QED
          BY <5>1, <5>2, FS_EmptySet
      <4>2. Pool = {}
        BY <4>1 DEF Pool
      <4>3. Cardinality(Pool) = 0
        BY <4>2, FS_EmptySet
      <4> QED
        BY <2>1, <4>3, PoolLarge
    <3> QED
      BY <3>1, <3>3, <3>4
  <2>2. pc \in {"draw", "id"} => Cardinality(djinn_pool[element]) >= left
    BY DEF PoolInv, LeftFits
  <2> QED
    BY <2>1, <2>2 DEF SearchesSucceed, count_unallocated
<1> QED
  BY PoolInvariance, <1>1, PTL

----------------------------------------------------------------------------
(* What the writer gets.                                                     *)

\* As many allies as elements leave nothing in the pools.
LEMMA PoolUsedUp ==
    ASSUME IInv, PoolInv, pc = "done", NAllies = NElements
    PROVE  \A e \in Elements, d \in Djinn : d \notin djinn_pool[e]
<1> USE RandomizerAssumption
<1>1. draw = 3 * NAllies /\ NAllies \in Nat /\ NAllies > 0 /\ Slot \in Nat /\ Slot > 0
  BY DEF IInv, CallsCounted, Draws
<1>2. Taking = 0
  BY DEF Taking
<1>3. Taken = Slot * (2 * NAllies) + NAllies
  BY <1>1 DEF Taken
<1>4. NElements * DJINN_MAX = Slot * (2 * NAllies) + NAllies
  BY <1>1 DEF DJINN_MAX
<1>5. PICK t \in Nat : t = Slot * (2 * NAllies) + NAllies
  <2>1. Slot * (2 * NAllies) + NAllies \in Nat
    BY <1>1
  <2> QED
    BY <2>1
<1>6. IsFiniteSet(Pool) /\ Cardinality(Pool) \in Nat /\ Cardinality(Pool) + t + 0 = t
  BY <1>2, <1>3, <1>4, <1>5, FS_CardinalityType DEF PoolInv, PoolCounted
<1>7. Cardinality(Pool) = 0
  BY <1>6
<1>8. Pool = {}
  BY <1>6, <1>7, FS_EmptySet
<1>9. \A e \in Elements, d \in Djinn : <<d, e>> \notin Pool
  BY <1>8
<1> QED
  BY <1>9 DEF Pool

\* The writer's module counts as this one does.
LEMMA SameCardinality == \A S : Memory!Cardinality(S) = Cardinality(S)
BY Zenon DEF Cardinality, Memory!Cardinality

\* ResultIsSharing: as many allies as elements share all djinn out evenly, and
\* what the writer starts from is such a sharing.
THEOREM ResultIsSharingCorrect == Spec => []ResultIsSharing
<1>1. IInv /\ PoolInv /\ EveryAllyFull => ResultIsSharing
  <2> SUFFICES ASSUME IInv, PoolInv, EveryAllyFull, pc = "done", NAllies = NElements
               PROVE  \E owner \in Memory!Sharings :
                        djinn_alloc = [a \in Allies |-> Memory!Share(owner, a)]
    BY DEF ResultIsSharing
  <2> DEFINE owner == [x \in Elements \X Djinn |->
                         CHOOSE a \in Allies : x[2] \in djinn_alloc[a][x[1]]]
             Of(a) == {x \in Elements \X Djinn : owner[x] = a}
  <2>1. ASSUME NEW e \in Elements, NEW d \in Djinn
        PROVE  /\ owner[<<e, d>>] \in Allies
               /\ \A a \in Allies : owner[<<e, d>>] = a <=> d \in djinn_alloc[a][e]
    <3>1. \E a \in Allies : d \in djinn_alloc[a][e]
      BY PoolUsedUp DEF IInv, EachDjinnOnce
    <3>2. \A a, b \in Allies : d \in djinn_alloc[a][e] /\ d \in djinn_alloc[b][e] => a = b
      BY DEF IInv, EachDjinnOnce
    <3>3. PICK x : x = <<e, d>>
      OBVIOUS
    <3>4. x \in Elements \X Djinn /\ x[1] = e /\ x[2] = d
      BY <3>3
    <3>5. owner[x] = CHOOSE a \in Allies : x[2] \in djinn_alloc[a][x[1]]
      BY <3>4
    <3> HIDE DEF owner
    <3>6. owner[x] \in Allies /\ x[2] \in djinn_alloc[owner[x]][x[1]]
      BY <3>1, <3>4, <3>5
    <3> QED
      BY <3>2, <3>3, <3>4, <3>6
  <2>2. owner \in [Elements \X Djinn -> Allies]
    <3>1. ASSUME NEW x \in Elements \X Djinn PROVE owner[x] \in Allies
      <4>1. PICK e \in Elements, d \in Djinn : x = <<e, d>>
        OBVIOUS
      <4> HIDE DEF owner
      <4> QED
        BY <2>1, <4>1
    <3> QED
      BY <3>1
  <2> HIDE DEF owner
  <2>3. ASSUME NEW a \in Allies PROVE Cardinality(Of(a)) = DJINN_MAX
    <3> DEFINE f == [x \in Of(a) |-> <<x[2], x[1]>>]
    <3>1. \A e \in Elements, d \in Djinn : <<e, d>> \in Of(a) <=> d \in djinn_alloc[a][e]
      BY <2>1
    <3>2. \A e \in Elements : djinn_alloc[a][e] \subseteq Djinn
      BY DEF IInv, TypeOK
    <3>3. \A x \in Of(a) : \E e \in Elements, d \in Djinn : x = <<e, d>>
      OBVIOUS
    <3> HIDE DEF Of
    <3>4. f \in [Of(a) -> Owned(a)]
      <4>1. ASSUME NEW x \in Of(a) PROVE <<x[2], x[1]>> \in Owned(a)
        BY <3>1, <3>3, OwnedMembers
      <4> QED
        BY <4>1
    <3>5. \A x, y \in Of(a) : f[x] = f[y] => x = y
      BY <3>3
    <3>6. \A z \in Owned(a) : \E x \in Of(a) : f[x] = z
      <4> SUFFICES ASSUME NEW z \in Owned(a) PROVE \E x \in Of(a) : f[x] = z
        OBVIOUS
      <4>1. PICK e \in Elements : \E d \in djinn_alloc[a][e] : z = <<d, e>>
        BY OwnedMembers
      <4>2. PICK d \in djinn_alloc[a][e] : z = <<d, e>>
        BY <4>1
      <4>3. d \in Djinn /\ <<e, d>> \in Of(a)
        BY <3>1, <3>2
      <4> QED
        BY <4>2, <4>3
    <3>7. f \in Bijection(Of(a), Owned(a))
      BY <3>4, <3>5, <3>6 DEF Bijection, Injection, Surjection, IsInjective
    <3> HIDE DEF f
    <3>8. Cardinality(Owned(a)) = DJINN_MAX
      BY DEF EveryAllyFull
    <3>9. IsFiniteSet(Of(a))
      <4>1. IsFiniteSet(Elements) /\ IsFiniteSet(Djinn)
        BY FS_Interval, RandomizerAssumption DEF Elements, Djinn, DJINN_MAX
      <4>2. IsFiniteSet(Elements \X Djinn)
        BY <4>1, FS_Product
      <4>3. Of(a) \subseteq Elements \X Djinn
        BY DEF Of
      <4> QED
        BY <4>2, <4>3, FS_Subset
    <3> QED
      BY <3>7, <3>8, <3>9, FS_Bijection DEF ExistsBijection
  <2>4. (NElements * DJINN_MAX) \div NAllies = DJINN_MAX
    <3>1. PICK m \in Nat, n \in Nat \ {0} : m = DJINN_MAX /\ n = NAllies
      BY RandomizerAssumption DEF DJINN_MAX
    <3>2. (n * m) \div n = m
      OBVIOUS
    <3> QED
      BY <3>1, <3>2
  <2>5. owner \in Memory!Sharings
    BY <2>2, <2>3, <2>4, SameCardinality
       DEF Memory!Sharings, Memory!Owns, Memory!EvenShare, Memory!Elements, Memory!Djinn,
           Memory!Allies, Elements, Djinn, Allies
  <2>6. djinn_alloc = [a \in Allies |-> Memory!Share(owner, a)]
    <3>1. ASSUME NEW a \in Allies, NEW e \in Elements
          PROVE  djinn_alloc[a][e] = {d \in Djinn : owner[<<e, d>>] = a}
      <4>1. djinn_alloc[a][e] \subseteq Djinn
        BY DEF IInv, TypeOK
      <4>2. \A d \in Djinn : owner[<<e, d>>] = a <=> d \in djinn_alloc[a][e]
        BY <2>1
      <4> QED
        BY <4>1, <4>2
    <3>2. \A a \in Allies : Memory!Share(owner, a) = [e \in Elements |-> djinn_alloc[a][e]]
      BY <3>1 DEF Memory!Share, Memory!ShareOf, Memory!Elements, Memory!Djinn, Elements, Djinn
    <3>3. djinn_alloc \in [Allies -> [Elements -> SUBSET Djinn]]
      BY DEF IInv, TypeOK
    <3> QED
      BY <3>2, <3>3
  <2> QED
    BY <2>5, <2>6
<1> QED
  BY <1>1, PoolInvariance, EveryAllyFullCorrect, PTL

=============================================================================
