-------------------------- MODULE StateExportProofs -------------------------
(* A program finds the right memory, the last record of a battle shows       *)
(* enemies who are down, and the table of weaknesses divides by zero only    *)
(* where nobody resists an element, for any emulators, maps files, monsters  *)
(* and sizes of the party and the troop.                                     *)
(* The sums over the enemies and the lines of a maps file are recursive      *)
(* definitions; what they compute is in Recursions.                          *)
EXTENDS StateExport, Recursions

\* What the program knows of the emulator at each point of its search, and that
\* only the emulator it has found may still be replaced.
Found(type) == [id |-> pid, type |-> type, high |-> 0]
Searching == pc \in {"find_pid", "maps", "pointer"}
SearchInv ==
    /\ emulator \in Emulator
    /\ running \in BOOLEAN
    /\ pid \in 0..emulator.id
    /\ ptr \in [{BOARD, CHIP} -> Memory]
    /\ ptr[BOARD].type = BOARD /\ ptr[CHIP].type = CHIP
    /\ pc = "find_pid" => ptr[BOARD] = NoPointer
    /\ pc \in {"maps", "pointer"} => pid # 0 /\ ptr[BOARD] \in {NoPointer, Found(BOARD)}
    /\ pc = "pointer" /\ pid = emulator.id => mem_ref \in {"tail", Above(emulator.maps)}
    /\ ~Searching /\ pc # "aborted" =>
         pid # 0 /\ ptr[BOARD] = Found(BOARD) /\ ptr[CHIP] = Found(CHIP)
    /\ ~Searching /\ pc \notin {"units", "aborted"} => emulator.high = 0

\* Enemies who are in a battle have health, and none has more than his kind has.
FightingUnit ==
    {u \in EnemyUnit : u.health <= u.monster.health /\ (u.status = 1 => u.health > 0)}

\* The copies: of enemies of one moment, and of the party as far as it is read.
CopyInv ==
    /\ order \in Parties
    /\ enemies \in [Slots -> FightingUnit]
    /\ pc \in {"allies", "export", "display"} => enemies_raw \in [Slots -> FightingUnit]
    /\ observation.allies \in Seq(Positions)
    /\ Len(observation.allies) <= NAllies
    /\ observation = [allies |-> observation.allies, enemies |-> observation.enemies]
    /\ Searching \/ pc = "units" => observation = NoRecord
    /\ pc = "allies" => Len(observation.allies) < NAllies
    /\ pc \in {"export", "record", "end_record"} => Len(observation.allies) = NAllies

ExportInv ==
    /\ pc \in {"find_pid", "maps", "pointer", "units", "allies", "export",
               "record", "end_record", "display", "exit", "trapped", "aborted"}
    /\ SearchInv
    /\ CopyInv
    /\ EndRecordShowsAllDown
    /\ TrapsOnImmunity

----------------------------------------------------------------------------
(* The lines of a maps file.                                                 *)

\* The chunk of a maps file that comes before the first line with [heap] is the
\* line before it, or the tail of that line.
Chunk == {"text", "data", "heap", "other", "tail"}
LEMMA HeapFollowsLine ==
    ASSUME NEW maps \in MapsFiles, HeapAt(Chunks(maps)) # {}
    PROVE  LinePrev(Chunks(maps)) \in {"tail", Above(maps)}
<1> DEFINE seqs == [i \in DOMAIN maps |->
                      IF maps[i].long THEN <<maps[i].mapping, "tail">>
                      ELSE <<maps[i].mapping>>]
           m(i) == maps[i].mapping
<1>1. /\ Len(maps) \in Nat \ {0} /\ DOMAIN maps = 1..Len(maps)
      /\ m(1) # "heap"
      /\ \A i \in 1..Len(maps) : /\ m(i) \in Chunk /\ m(i) # "tail"
                                 /\ m(i) = "heap" => ~maps[i].long
  <2>1. maps \in Seq(Line) /\ Len(maps) > 0 /\ m(1) # "heap"
    BY AttachAssumption
  <2>2. \A i \in 1..Len(maps) : m(i) = "heap" => ~maps[i].long
    BY <2>1, AttachAssumption
  <2>3. ASSUME NEW i \in 1..Len(maps) PROVE m(i) \in Chunk /\ m(i) # "tail"
    <3>1. maps[i] \in Line
      BY <2>1
    <3> QED
      BY <3>1 DEF Line, Chunk
  <2> QED
    BY <2>1, <2>2, <2>3
<1>2. /\ Len(seqs) = Len(maps)
      /\ \A i \in 1..Len(maps) : seqs[i] = IF maps[i].long THEN <<m(i), "tail">> ELSE <<m(i)>>
  BY <1>1
<1>3. PICK f : /\ f = [i \in 1..Len(maps) |-> FlattenStep(seqs, f, i)]
               /\ FlattenSeq(seqs) = f[Len(maps)]
  BY <1>1, <1>2, FlattenSolved
<1> HIDE DEF seqs
<1> DEFINE Plain(F, i) == (\A k \in 1..i : m(k) # "heap") => \A q \in 1..Len(F) : F[q] # "heap"
           Behind(F, p, j) ==
             /\ F[p] = "heap" /\ \A q \in 1..(p - 1) : F[q] # "heap"
             /\ F[p - 1] \in {"tail", m(j - 1)}
           First(j) == m(j) = "heap" /\ \A k \in 1..(j - 1) : m(k) # "heap"
           Right(i) ==
             /\ f[i] \in Seq(Chunk) /\ Len(f[i]) \in Nat \ {0}
             /\ f[i][Len(f[i])] \in {"tail", m(i)}
             /\ Plain(f[i], i)
             /\ \A j \in 1..i : First(j) => \E p \in 2..Len(f[i]) : Behind(f[i], p, j)
           Known == {n \in Nat : n + 1 \in 1..Len(maps) => Right(n + 1)}
<1>4. 0 \in Known
  <2>1. f[1] = IF maps[1].long THEN <<m(1), "tail">> ELSE <<m(1)>>
    BY <1>1, <1>2, <1>3 DEF FlattenStep
  <2>2. m(1) \in Chunk /\ m(1) # "heap" /\ 1 \in 1..Len(maps)
    BY <1>1
  <2> HIDE DEF m
  <2>3. /\ f[1] \in Seq(Chunk) /\ Len(f[1]) \in 1..2 /\ f[1][1] = m(1)
        /\ f[1][Len(f[1])] \in {"tail", m(1)}
        /\ \A q \in 2..Len(f[1]) : f[1][q] = "tail"
    <3>1. CASE maps[1].long
      <4>1. f[1] = <<m(1), "tail">>
        BY <2>1, <3>1
      <4> QED
        BY <2>2, <4>1 DEF Chunk
    <3>2. CASE ~maps[1].long
      <4>1. f[1] = <<m(1)>>
        BY <2>1, <3>2
      <4> QED
        <5>1. Len(f[1]) = 1 /\ f[1][1] = m(1)
          BY <4>1
        <5> QED
          BY <2>2, <4>1, <5>1
    <3> QED
      BY <3>1, <3>2
  <2>4. Plain(f[1], 1)
    BY <2>2, <2>3
  <2>5. \A j \in 1..1 : ~First(j)
    BY <2>2
  <2>6. Right(1)
    BY <2>3, <2>4, <2>5
  <2> QED
    BY <2>6
<1>5. ASSUME NEW n \in Nat, n \in Known PROVE n + 1 \in Known
  <2> HIDE DEF Right
  <2> SUFFICES ASSUME n + 1 + 1 \in 1..Len(maps) PROVE Right(n + 1 + 1)
    OBVIOUS
  <2> USE DEF Right
  <2> DEFINE i == n + 1
             F == f[i]
             G == f[i + 1]
             s == seqs[i + 1]
  <2>1. i \in 1..Len(maps) /\ i + 1 \in 1..Len(maps) /\ i + 1 = n + 1 + 1 /\ i \in Nat \ {0}
    BY <1>1
  <2>2. Right(i)
    BY <1>5, <2>1
  <2>3. G = F \o s
    <3>1. i + 1 # 1 /\ (i + 1) - 1 = i
      BY <2>1
    <3>2. G = FlattenStep(seqs, f, i + 1)
      BY <1>3, <2>1
    <3> HIDE DEF i
    <3> QED
      BY <3>1, <3>2 DEF FlattenStep
  <2>4. s = IF maps[i + 1].long THEN <<m(i + 1), "tail">> ELSE <<m(i + 1)>>
    BY <1>2, <2>1
  <2> HIDE DEF i, s
  <2>5. /\ s \in Seq(Chunk) /\ Len(s) \in 1..2 /\ s[1] = m(i + 1)
        /\ s[Len(s)] \in {"tail", m(i + 1)}
        /\ \A q \in 2..Len(s) : s[q] = "tail"
    <3>1. m(i + 1) \in Chunk
      BY <1>1, <2>1
    <3> HIDE DEF m
    <3>2. CASE maps[i + 1].long
      <4>1. s = <<m(i + 1), "tail">>
        BY <2>4, <3>2
      <4> QED
        BY <3>1, <4>1 DEF Chunk
    <3>3. CASE ~maps[i + 1].long
      <4>1. s = <<m(i + 1)>>
        BY <2>4, <3>3
      <4>2. Len(s) = 1 /\ s[1] = m(i + 1)
        BY <4>1
      <4> QED
        BY <3>1, <4>1, <4>2
    <3> QED
      BY <3>2, <3>3
  <2> HIDE DEF m
  <2>6. /\ F \in Seq(Chunk) /\ Len(F) \in Nat \ {0}
        /\ F[Len(F)] \in {"tail", m(i)}
    BY <2>2
  <2>7. PICK L, M \in Nat \ {0} : L = Len(F) /\ M = Len(s)
    BY <2>5, <2>6
  <2> HIDE DEF F, G
  <2>8. /\ G \in Seq(Chunk) /\ Len(G) = L + M
        /\ \A q \in 1..L : G[q] = F[q]
        /\ \A q \in 1..M : G[L + q] = s[q]
    BY <2>3, <2>5, <2>6, <2>7
  <2>9. G[Len(G)] \in {"tail", m(i + 1)}
    BY <2>5, <2>7, <2>8
  <2>10. \A q \in 1..Len(G) : q \in 1..L \/ \E r \in 1..M : q = L + r
    <3>1. ASSUME NEW q \in 1..Len(G), q \notin 1..L PROVE q - L \in 1..M /\ q = L + (q - L)
      BY <2>7, <2>8, <3>1
    <3> QED
      BY <3>1
  <2>11. ASSUME \A k \in 1..i : m(k) # "heap" PROVE \A q \in 1..L : F[q] # "heap"
    BY <2>2, <2>7, <2>11 DEF F
  <2>12. Plain(G, i + 1)
    <3> SUFFICES ASSUME \A k \in 1..(i + 1) : m(k) # "heap", NEW q \in 1..Len(G)
                 PROVE  G[q] # "heap"
      OBVIOUS
    <3>1. (\A k \in 1..i : m(k) # "heap") /\ m(i + 1) # "heap"
      BY <2>1
    <3>2. CASE q \in 1..L
      BY <2>8, <2>11, <3>1, <3>2
    <3>3. CASE \E r \in 1..M : q = L + r
      <4>1. PICK r \in 1..M : q = L + r
        BY <3>3
      <4>2. G[q] = s[r] /\ s[r] \in {m(i + 1), "tail"}
        BY <2>5, <2>7, <2>8, <4>1
      <4> QED
        BY <3>1, <4>2
    <3> QED
      BY <2>10, <3>2, <3>3
  <2>13. ASSUME NEW j \in 1..(i + 1), First(j) PROVE \E p \in 2..Len(G) : Behind(G, p, j)
    <3>1. CASE j \in 1..i
      <4>1. PICK p \in 2..L : Behind(F, p, j)
        BY <2>2, <2>7, <2>13, <3>1 DEF F
      <4>2. p \in 2..Len(G) /\ p \in 1..L /\ p - 1 \in 1..L /\ \A q \in 1..(p - 1) : q \in 1..L
        BY <2>7, <2>8
      <4>3. Behind(G, p, j)
        BY <2>8, <4>1, <4>2
      <4> QED
        BY <4>2, <4>3
    <3>2. CASE j = i + 1
      <4>1. /\ \A k \in 1..i : m(k) # "heap"
            /\ m(i + 1) = "heap"
        BY <2>1, <2>13, <3>2
      <4>2. L + 1 \in 2..Len(G) /\ G[L + 1] = "heap"
        BY <2>5, <2>7, <2>8, <4>1
      <4>3. \A q \in 1..L : G[q] # "heap"
        BY <2>8, <2>11, <4>1
      <4>4. G[L] \in {"tail", m(i)}
        BY <2>6, <2>7, <2>8
      <4>5. (L + 1) - 1 = L /\ j - 1 = i
        BY <2>1, <2>7, <3>2
      <4>6. Behind(G, L + 1, j)
        BY <4>2, <4>3, <4>4, <4>5
      <4> QED
        BY <4>2, <4>6
    <3> QED
      BY <2>1, <3>1, <3>2
  <2>14. Len(G) \in Nat \ {0}
    BY <2>7, <2>8
  <2>15. Right(i + 1)
    BY <2>8, <2>9, <2>12, <2>13, <2>14 DEF G
  <2> QED
    BY <2>1, <2>15
<1>6. Len(maps) - 1 \in Known
  <2> HIDE DEF Known
  <2> QED
    BY <1>1, <1>4, <1>5, SetInduction
<1>7. Right(Len(maps))
  BY <1>1, <1>6
<1> DEFINE C == Chunks(maps)
           N == Len(maps)
<1>8. C = f[N]
  BY <1>3 DEF Chunks, seqs
<1>9. C \in Seq(Chunk) /\ Len(C) \in Nat \ {0} /\ DOMAIN C = 1..Len(C)
  BY <1>7, <1>8
<1>10. HeapAt(C) \in SUBSET Nat /\ HeapAt(C) # {}
  BY <1>9 DEF HeapAt
<1> DEFINE T == {i \in DOMAIN maps : maps[i].mapping = "heap"}
<1>11. T \in SUBSET Nat /\ T # {}
  <2>1. PICK q \in 1..Len(C) : C[q] = "heap"
    BY <1>9, <1>10 DEF HeapAt
  <2>2. Plain(C, N)
    BY <1>7, <1>8
  <2>3. \E k \in 1..N : m(k) = "heap"
    BY <2>1, <2>2
  <2> QED
    BY <1>1, <2>3
<1>12. PICK j : j = Min(T)
  OBVIOUS
<1>13. j \in T /\ \A k \in T : j <= k
  BY <1>11, <1>12, MinLeast
<1>14. j \in 1..N /\ First(j)
  BY <1>1, <1>13
<1>15. PICK p \in 2..Len(C) : Behind(C, p, j)
  BY <1>7, <1>8, <1>14
<1>16. Min(HeapAt(C)) = p
  <2>1. Min(HeapAt(C)) \in HeapAt(C) /\ \A q \in HeapAt(C) : Min(HeapAt(C)) <= q
    BY <1>10, MinLeast
  <2>2. p \in HeapAt(C)
    BY <1>9, <1>15 DEF HeapAt
  <2>3. \A q \in HeapAt(C) : q \in 1..Len(C) /\ C[q] = "heap"
    BY <1>9 DEF HeapAt
  <2>4. \A q \in HeapAt(C) : p <= q
    BY <1>9, <1>15, <2>3
  <2>5. Min(HeapAt(C)) \in Int /\ p \in Int
    BY <1>9, <2>1, <2>3
  <2>6. Min(HeapAt(C)) <= p /\ p <= Min(HeapAt(C))
    BY <2>1, <2>2, <2>4
  <2> QED
    BY <2>5, <2>6
<1>17. LinePrev(C) = C[p - 1]
  BY <1>16 DEF LinePrev
<1>18. Above(maps) = m(j - 1)
  BY <1>12 DEF Above, HeapLine
<1> QED
  BY <1>15, <1>17, <1>18

----------------------------------------------------------------------------
(* Sums over the enemies.                                                    *)

LEMMA SlotsFinite ==
    ASSUME NEW S \in SUBSET Slots
    PROVE  IsFiniteSet(S) /\ Cardinality(S) \in Nat /\ Cardinality(S) <= NEnemies
<1>1. 0 \in Int /\ NEnemies - 1 \in Int /\ NEnemies \in Nat \ {0}
  BY ExportAssumption
<1>2. IsFiniteSet(Slots) /\ Cardinality(Slots) = NEnemies
  BY <1>1, FS_Interval DEF Slots
<1> QED
  BY <1>2, FS_Subset, FS_CardinalityType

\* Products of natural numbers grow with their factors.
LEMMA ProductGrows ==
    ASSUME NEW a \in Nat, NEW b \in Nat, NEW c \in Nat, a <= b
    PROVE  c * a \in Nat /\ c * b \in Nat /\ c * a <= c * b
OBVIOUS

\* What the assumption on the monsters says of an enemy.
LEMMA EnemyBounds ==
    ASSUME NEW u \in FightingUnit, NEW e \in Elements
    PROVE  /\ u.health \in Nat /\ u.monster.resistance[e] \in Nat
           /\ u.health * u.monster.resistance[e] \in Nat
           /\ 1 * NEnemies * u.health <= UINT32 - 1
           /\ 1 * NEnemies * (u.health * u.monster.resistance[e]) <= WEAKNESS_START - 1
<1>1. PICK h \in Nat, m \in Monsters : h = u.health /\ m = u.monster /\ h <= m.health
  BY DEF FightingUnit, EnemyUnit
<1>2. PICK M \in Nat, r \in Nat :
        /\ M = m.health /\ r = m.resistance[e]
        /\ NEnemies * M < UINT32
        /\ NEnemies * M * r < WEAKNESS_START
  BY ExportAssumption
<1>3. NEnemies \in Nat /\ UINT32 \in Nat /\ WEAKNESS_START \in Nat
  BY ExportAssumption
<1>4. h <= M
  BY <1>1, <1>2
<1>5. NEnemies * h <= NEnemies * M /\ NEnemies * h \in Nat /\ NEnemies * M \in Nat
  BY <1>3, <1>4, ProductGrows
<1>6. PICK w \in Nat : w = h * r
  OBVIOUS
<1>7. PICK W \in Nat : W = M * r
  OBVIOUS
<1>8. w <= W
  BY <1>4, <1>6, <1>7, ProductGrows
<1>9. NEnemies * w <= NEnemies * W /\ NEnemies * w \in Nat /\ NEnemies * W \in Nat
  BY <1>3, <1>8, ProductGrows
<1>10. NEnemies * W < WEAKNESS_START
  BY <1>2, <1>3, <1>7
<1>11. /\ \A n, k, bound \in Nat : n <= k /\ k < bound => n <= bound - 1
       /\ NEnemies * M < UINT32
  BY <1>2
<1>12. NEnemies * h <= UINT32 - 1
  BY <1>3, <1>5, <1>11
<1>13. NEnemies * w <= WEAKNESS_START - 1
  BY <1>3, <1>9, <1>10, <1>11
<1>14. 1 * NEnemies * h = NEnemies * h /\ 1 * NEnemies * w = NEnemies * w
  BY <1>3
<1> QED
  BY <1>1, <1>2, <1>6, <1>12, <1>13, <1>14

\* A sum over slots stays as far below a bound as its terms do, k of which for
\* every slot would reach it.
LEMMA SlotSums ==
    ASSUME NEW S \in SUBSET Slots, NEW g, \A x \in S : g[x] \in Nat,
           NEW k \in Nat, NEW bound \in Nat \ {0},
           \A x \in S : k * NEnemies * g[x] <= bound - 1
    PROVE  /\ SumFunctionOnSet(g, S) \in Nat
           /\ k * SumFunctionOnSet(g, S) < bound
           /\ \A x \in S : SumFunctionOnSet(g, S) >= g[x]
           /\ (\A x \in S : g[x] = 0) => SumFunctionOnSet(g, S) = 0
<1>1. NEnemies \in Nat \ {0}
  BY ExportAssumption
<1>2. PICK N \in Nat, B \in Nat : N = k * NEnemies /\ B = bound - 1
  BY <1>1
<1>3. IsFiniteSet(S) /\ Cardinality(S) \in Nat /\ Cardinality(S) <= NEnemies
  BY SlotsFinite
<1>4. \A x \in S : N * g[x] <= B
  BY <1>2
<1>5. /\ SumFunctionOnSet(g, S) \in Nat
      /\ \A x \in S : SumFunctionOnSet(g, S) >= g[x]
      /\ (\A x \in S : g[x] = 0) => SumFunctionOnSet(g, S) = 0
      /\ N * SumFunctionOnSet(g, S) <= Cardinality(S) * B
  BY <1>3, <1>4, SumFacts
<1>6. PICK sum \in Nat, n \in Nat : sum = SumFunctionOnSet(g, S) /\ n = Cardinality(S)
  BY <1>3, <1>5
<1>7. k * NEnemies * sum <= n * B /\ n <= NEnemies
  BY <1>2, <1>3, <1>5, <1>6
<1>8. k * sum <= B
  BY <1>1, <1>7, SumBounded
<1>9. k * sum < bound
  BY <1>2, <1>8
<1> QED
  BY <1>5, <1>6, <1>9

\* The total of the enemies' health does not overflow: it is zero only if no
\* enemy who is in the battle has any.
LEMMA HealthTotal ==
    ASSUME NEW raw \in [Slots -> FightingUnit]
    PROVE  /\ health_total(raw) \in Nat
           /\ \A s \in Slots : raw[s].status > 0 => health_total(raw) >= raw[s].health
           /\ health_total(raw) > 0 <=>
                \E s \in Slots : raw[s].status > 0 /\ raw[s].health # 0
<1> DEFINE S == {s \in Slots : raw[s].status > 0}
           g == [s \in Slots |-> raw[s].health]
           sum == SumFunctionOnSet(g, S)
<1>1. UINT32 \in Nat \ {0} /\ 0 \in Elements
  BY ExportAssumption DEF Elements
<1>2. \A s \in S : g[s] = raw[s].health /\ raw[s] \in FightingUnit
  OBVIOUS
<1>3. \A x \in S : g[x] \in Nat /\ 1 * NEnemies * g[x] <= UINT32 - 1
  BY <1>1, <1>2, EnemyBounds
<1> HIDE DEF g
<1>4. /\ sum \in Nat
      /\ 1 * sum < UINT32
      /\ \A x \in S : sum >= g[x]
      /\ (\A x \in S : g[x] = 0) => sum = 0
  BY <1>1, <1>3, SlotSums
<1>5. health_total(raw) = sum % UINT32
  BY DEF health_total, g
<1> HIDE DEF sum
<1>6. health_total(raw) = sum
  BY <1>1, <1>4, <1>5
<1>7. \A s \in S : sum >= raw[s].health
  BY <1>2, <1>4
<1>8. ASSUME sum > 0 PROVE \E s \in Slots : raw[s].status > 0 /\ raw[s].health # 0
  <2>1. PICK s \in S : g[s] # 0
    BY <1>4, <1>8
  <2>2. raw[s].health # 0 /\ raw[s].status > 0 /\ s \in Slots
    BY <1>2, <2>1
  <2> QED
    BY <2>2
<1>9. ASSUME NEW s \in Slots, raw[s].status > 0, raw[s].health # 0 PROVE sum > 0
  <2>1. s \in S /\ g[s] = raw[s].health /\ g[s] \in Nat /\ sum >= g[s]
    BY <1>2, <1>3, <1>4, <1>9
  <2> QED
    BY <1>4, <1>9, <2>1
<1> QED
  BY <1>4, <1>6, <1>7, <1>8, <1>9

\* The weakness of an element is a sum without overflow: it is zero only when no
\* enemy with health resists the element.
LEMMA WeaknessIsSum ==
    ASSUME enemies_raw \in [Slots -> FightingUnit], NEW e \in Elements
    PROVE  /\ weakness(e) \in Nat
           /\ weakness(e) < WEAKNESS_START
           /\ weakness(e) = 0 <=>
                \A s \in {t \in Slots : enemies_raw[t].health # 0} :
                  enemies_raw[s].monster.resistance[e] = 0
<1> DEFINE S == {s \in Slots : enemies_raw[s].health # 0}
           g == WeightedResistance(e)
           sum == SumFunctionOnSet(g, S)
<1>1. UINT32 \in Nat \ {0} /\ WEAKNESS_START \in Nat \ {0} /\ WEAKNESS_START < UINT32
  BY ExportAssumption
<1>2. \A s \in Slots : /\ enemies_raw[s] \in FightingUnit
                       /\ g[s] = enemies_raw[s].health * enemies_raw[s].monster.resistance[e]
  BY DEF WeightedResistance
<1>3. \A x \in Slots : /\ g[x] \in Nat
                       /\ 1 * NEnemies * g[x] <= WEAKNESS_START - 1
  BY <1>2, EnemyBounds
<1>4. ASSUME NEW s \in S PROVE g[s] = 0 <=> enemies_raw[s].monster.resistance[e] = 0
  <2>1. PICK h, r \in Nat :
          h = enemies_raw[s].health /\ r = enemies_raw[s].monster.resistance[e]
    BY <1>2, EnemyBounds
  <2>2. h # 0 /\ g[s] = h * r
    BY <1>2, <2>1
  <2>3. h # 0 => (h * r = 0 <=> r = 0)
    OBVIOUS
  <2> QED
    BY <2>1, <2>2, <2>3
<1> HIDE DEF g
<1>5. /\ sum \in Nat /\ 1 * sum < WEAKNESS_START
      /\ \A x \in S : sum >= g[x]
      /\ (\A x \in S : g[x] = 0) => sum = 0
  BY <1>1, <1>3, SlotSums
<1>6. weakness(e) = sum % UINT32
  BY DEF weakness, g
<1> HIDE DEF sum
<1>7. weakness(e) = sum /\ sum < WEAKNESS_START
  BY <1>1, <1>5, <1>6
<1>8. \A x \in S : g[x] \in Nat
  BY <1>3
<1>9. sum = 0 <=> \A x \in S : g[x] = 0
  BY <1>5, <1>8
<1> QED
  BY <1>4, <1>5, <1>7, <1>9

\* The divisor is the least weakness: it is zero when an element's weakness is.
LEMMA LeastWeakness ==
    ASSUME enemies_raw \in [Slots -> FightingUnit]
    PROVE  weakness_min = 0 <=> \E e \in Elements : weakness(e) = 0
<1> DEFINE V == {weakness(e) : e \in Elements}
           W == V \cup {WEAKNESS_START}
<1>1. WEAKNESS_START \in Nat \ {0}
  BY ExportAssumption
<1>2. V \in SUBSET Nat
  BY WeaknessIsSum
<1> HIDE DEF V
<1>3. W \in SUBSET Nat /\ W # {}
  BY <1>1, <1>2
<1>4. PICK w \in Nat : w = Min(W) /\ w \in W /\ \A m \in W : w <= m
  BY <1>3, MinLeast
<1>5. w = 0 <=> 0 \in V
  BY <1>1, <1>4
<1>6. weakness_min = w
  BY <1>4 DEF weakness_min, V
<1> QED
  BY <1>5, <1>6 DEF V

----------------------------------------------------------------------------
(* The search keeps its invariant.                                           *)

LEMMA EmulatorKeeps ==
    ASSUME SearchInv, EmulatorStep
    PROVE  SearchInv'
<1>1. CASE EmulatorExits
  BY <1>1 DEF EmulatorExits, SearchInv, Searching, Found, programVars
<1>2. CASE EmulatorStarts
  <2>1. /\ emulator' \in Emulator /\ emulator'.id = emulator.id + 1 /\ running' \in BOOLEAN
        /\ Searching /\ pc' = pc /\ UNCHANGED <<pid, mem_ref, ptr>>
    BY <1>2 DEF EmulatorStarts, programVars, Searching
  <2>2. emulator.id \in Nat /\ pid \in 0..emulator.id
    BY AttachAssumption DEF SearchInv, Emulator
  <2>3. pid \in 0..emulator'.id /\ pid # emulator'.id
    BY <2>1, <2>2
  <2> QED
    BY <2>1, <2>3 DEF SearchInv, Searching, Found
<1> QED
  BY <1>1, <1>2 DEF EmulatorStep

LEMMA FindGameKeeps ==
    ASSUME SearchInv, FindGame
    PROVE  SearchInv'
<1>1. /\ emulator \in Emulator /\ emulator.id \in 1..MaxEmulators
      /\ emulator.maps \in MapsFiles /\ emulator.high \in 0..1
      /\ pid \in 0..emulator.id /\ ptr \in [{BOARD, CHIP} -> Memory]
      /\ ptr[BOARD].type = BOARD /\ ptr[CHIP].type = CHIP
      /\ BOARD # CHIP
  BY DEF SearchInv, Emulator, BOARD, CHIP
<1>2. UNCHANGED <<emulator, running>>
  BY DEF FindGame, find_pid, find_heap, ReadPointer, emulatorVars
<1>3. CASE pc' = "aborted" /\ UNCHANGED programVars
  BY <1>1, <1>2, <1>3 DEF SearchInv, Searching, programVars
<1>4. CASE find_pid /\ pc' # "aborted"
  <2>1. pc = "find_pid" /\ pid' = emulator.id /\ pc' = "maps" /\ UNCHANGED <<mem_ref, ptr>>
    BY <1>4 DEF find_pid, Abort
  <2>2. ptr[BOARD] = NoPointer /\ pid' # 0 /\ pid' \in 0..emulator.id
    BY <1>1, <2>1, AttachAssumption DEF SearchInv
  <2> QED
    BY <1>1, <1>2, <2>1, <2>2 DEF SearchInv, Searching
<1>5. CASE find_heap /\ pc' # "aborted"
  <2>1. /\ pc = "maps" /\ pc' = "pointer" /\ UNCHANGED <<pid, ptr>>
        /\ HeapAt(Chunks(emulator.maps)) # {}
        /\ mem_ref' = LinePrev(Chunks(emulator.maps))
    BY <1>5 DEF find_heap, Abort
  <2>2. mem_ref' \in {"tail", Above(emulator.maps)}
    BY <1>1, <2>1, HeapFollowsLine
  <2> QED
    BY <1>1, <1>2, <2>1, <2>2 DEF SearchInv, Searching, Found
<1>6. CASE ReadPointer /\ pc' # "aborted"
  <2>1. /\ pc = "pointer" /\ emulator.id = pid /\ mem_ref # "tail" /\ UNCHANGED pid
        /\ mem_ref \in {"tail", Above(emulator.maps)}
    BY <1>6 DEF ReadPointer, Abort, Attached, SearchInv
  <2>2. mem_ref = Above(emulator.maps) /\ pid # 0 /\ pid \in 1..MaxEmulators
    BY <1>1, <2>1 DEF SearchInv
  <2>3. \A type \in {BOARD, CHIP} : Pointed(emulator, type) = Found(type)
    BY <2>1 DEF Pointed, Pointer, Found
  <2>4. \A type \in {BOARD, CHIP} : Found(type) \in Memory /\ Found(type).type = type
    BY <1>1, <2>2 DEF Found, Memory
  <2>5. CASE ptr[BOARD] = NoPointer
    <3>1. ptr' = [ptr EXCEPT ![BOARD] = Found(BOARD)] /\ pc' = "maps"
      BY <1>6, <2>1, <2>2, <2>3, <2>5 DEF ReadPointer, Abort
    <3> QED
      BY <1>1, <1>2, <2>1, <2>2, <2>4, <3>1 DEF SearchInv, Searching, Found
  <2>6. CASE ptr[BOARD] # NoPointer
    <3>1. ptr' = [ptr EXCEPT ![CHIP] = Found(CHIP)] /\ pc' = "units"
      BY <1>1, <1>6, <2>1, <2>2, <2>3, <2>6 DEF ReadPointer, Abort
    <3>2. ptr[BOARD] = Found(BOARD)
      BY <2>1, <2>6 DEF SearchInv
    <3> QED
      BY <1>1, <1>2, <2>1, <2>2, <2>4, <3>1, <3>2 DEF SearchInv, Searching, Found
  <2> QED
    BY <2>5, <2>6
<1> QED
  BY <1>3, <1>4, <1>5, <1>6 DEF FindGame, find_pid, find_heap, ReadPointer, Abort

\* Once it has found the game the program keeps what it knows; it gets past the
\* Units only if it could read them.
LEMMA UsingKeeps ==
    ASSUME SearchInv, ~Searching, pc # "aborted",
           UNCHANGED <<emulator, running, pid, mem_ref, ptr>>, ~Searching',
           pc = "units" /\ pc' \notin {"units", "aborted"} => Readable(BOARD)
    PROVE  SearchInv'
<1>1. /\ ptr[BOARD] = Found(BOARD) /\ ptr[CHIP] = Found(CHIP) /\ pid # 0
      /\ pc # "units" => emulator.high = 0
  BY DEF SearchInv
<1>2. Readable(BOARD) => emulator.high = 0
  BY <1>1 DEF Readable, Pointer, Found
<1> QED
  BY <1>1, <1>2 DEF SearchInv, Searching, Found

----------------------------------------------------------------------------
(* The copies and the end of the table keep their invariants.                *)

\* The party and the copies stay: so does what is known of them.
LEMMA CopiesStay ==
    ASSUME CopyInv, EndRecordShowsAllDown,
           UNCHANGED <<order, enemies, enemies_raw, observation, pc>>
    PROVE  CopyInv' /\ EndRecordShowsAllDown'
BY DEF CopyInv, Searching, EndRecordShowsAllDown

\* How a table ended is known as long as the copy is there.
LEMMA TableStays ==
    ASSUME TrapsOnImmunity, UNCHANGED enemies_raw,
           pc' = pc \/ pc' \notin {"exit", "trapped"}
    PROVE  TrapsOnImmunity'
BY DEF TrapsOnImmunity

\* The game moves enemies and party: health only goes down, an enemy at zero
\* leaves the battle.
LEMMA GameKeeps ==
    ASSUME CopyInv, EndRecordShowsAllDown, GameStep
    PROVE  CopyInv' /\ EndRecordShowsAllDown'
<1>1. UNCHANGED <<pc, enemies_raw, observation, emulator, running, pid, mem_ref, ptr>>
  BY DEF GameStep, Reorder, BattleBegins, Hit, BattleEnds, Game, attachVars, exportVars,
         emulatorVars, programVars
<1>2. EndRecordShowsAllDown'
  BY <1>1 DEF EndRecordShowsAllDown
<1>3. enemies \in [Slots -> FightingUnit] /\ order \in Parties
  BY DEF CopyInv
<1>4. CASE Reorder
  <2>1. order' \in Parties /\ enemies' = enemies
    BY <1>4 DEF Reorder
  <2> QED
    BY <1>1, <1>2, <2>1 DEF CopyInv, Searching
<1>5. ASSUME enemies' \in [Slots -> FightingUnit], UNCHANGED order
      PROVE  CopyInv'
  BY <1>1, <1>5 DEF CopyInv, Searching
<1>6. CASE \E n \in 1..NEnemies : BattleBegins(n)
  <2>1. PICK n \in 1..NEnemies : BattleBegins(n)
    BY <1>6
  <2>2. PICK troop \in [0..(n - 1) -> Monsters] :
          enemies' = [s \in Slots |->
            IF s < n
            THEN [monster |-> troop[s], health |-> troop[s].health, status |-> 1]
            ELSE [enemies[s] EXCEPT !.status = 0]]
    BY <2>1 DEF BattleBegins
  <2>3. ASSUME NEW s \in Slots PROVE enemies'[s] \in FightingUnit
    <3>1. CASE s < n
      <4>1. s \in 0..(n - 1)
        BY <3>1, ExportAssumption DEF Slots
      <4>2. troop[s] \in Monsters /\ troop[s].health \in Nat \ {0}
        BY <4>1, ExportAssumption
      <4> QED
        BY <2>2, <3>1, <4>2 DEF FightingUnit, EnemyUnit
    <3>2. CASE ~(s < n)
      <4>1. enemies[s] \in FightingUnit
        BY <1>3
      <4> QED
        BY <2>2, <3>2, <4>1 DEF FightingUnit, EnemyUnit
    <3> QED
      BY <3>1, <3>2
  <2>4. enemies' \in [Slots -> FightingUnit]
    BY <2>2, <2>3
  <2>5. UNCHANGED order
    BY <2>1 DEF BattleBegins
  <2> QED
    BY <1>2, <1>5, <2>4, <2>5
<1>7. CASE \E s \in Slots : Hit(s)
  <2>1. PICK s \in Slots : Hit(s)
    BY <1>7
  <2>2. PICK h \in 0..(enemies[s].health - 1) :
          enemies' = [enemies EXCEPT ![s] =
            [monster |-> @.monster, health |-> h, status |-> IF h = 0 THEN 0 ELSE 1]]
    BY <2>1 DEF Hit
  <2>3. enemies[s] \in FightingUnit
    BY <1>3
  <2>4. enemies'[s] \in FightingUnit
    <3>1. PICK m \in Monsters, k \in Nat, t \in 0..1 :
            enemies[s] = [monster |-> m, health |-> k, status |-> t] /\ k <= m.health
      BY <2>3 DEF FightingUnit, EnemyUnit
    <3>2. PICK t2 \in 0..1 : t2 = (IF h = 0 THEN 0 ELSE 1) /\ (t2 = 1 => h > 0)
      BY <2>2
    <3>3. enemies'[s] = [monster |-> m, health |-> h, status |-> t2]
      BY <1>3, <2>2, <3>1, <3>2
    <3>4. h \in Nat /\ h <= m.health
      BY <2>2, <3>1, ExportAssumption
    <3> QED
      BY <3>2, <3>3, <3>4 DEF FightingUnit, EnemyUnit
  <2>5. enemies' \in [Slots -> FightingUnit]
    BY <1>3, <2>2, <2>4
  <2>6. UNCHANGED order
    BY <2>1 DEF Hit
  <2> QED
    BY <1>2, <1>5, <2>5, <2>6
<1>8. CASE BattleEnds
  <2>1. UNCHANGED <<order, enemies>>
    BY <1>8 DEF BattleEnds
  <2> QED
    BY <1>2, <1>3, <1>5, <2>1
<1> QED
  BY <1>2, <1>4, <1>6, <1>7, <1>8 DEF GameStep

\* A failed read ends the program; what it has copied stays.
LEMMA FailKeeps ==
    ASSUME CopyInv, pc' = "aborted", UNCHANGED <<order, enemies, enemies_raw, observation>>
    PROVE  CopyInv' /\ EndRecordShowsAllDown'
BY DEF CopyInv, Searching, EndRecordShowsAllDown

\* One read of the enemies' Units; the record is still empty.
LEMMA UnitsKeep ==
    ASSUME CopyInv, get_unit_data
    PROVE  CopyInv' /\ EndRecordShowsAllDown'
<1>1. UNCHANGED <<order, enemies>> /\ pc = "units"
  BY DEF get_unit_data, Program, gameVars
<1>2. CASE ~Readable(BOARD)
  BY <1>1, <1>2, FailKeeps DEF get_unit_data, Fail, Abort, exportVars
<1>3. CASE Readable(BOARD)
  <2>1. enemies_raw' = enemies /\ pc' \in {"allies", "display"} /\ observation' = observation
    BY <1>3 DEF get_unit_data
  <2>2. observation = NoRecord
    BY <1>1 DEF CopyInv
  <2>3. Len(observation.allies) = 0 /\ NAllies > 0
    BY <2>2, ExportAssumption DEF NoRecord
  <2> QED
    BY <1>1, <2>1, <2>3 DEF CopyInv, Searching, EndRecordShowsAllDown
<1> QED
  BY <1>2, <1>3

\* One more ally, the one whom the order names at this moment.
LEMMA AllyKeeps ==
    ASSUME CopyInv, CopyAlly
    PROVE  CopyInv' /\ EndRecordShowsAllDown'
<1>1. UNCHANGED <<order, enemies>> /\ pc = "allies"
  BY DEF CopyAlly, Program, gameVars
<1>2. CASE ~Readable(BOARD)
  BY <1>1, <1>2, FailKeeps DEF CopyAlly, Fail, Abort, exportVars
<1>3. CASE Readable(BOARD)
  <2> DEFINE l == observation.allies
             n == Len(l)
             next == Append(l, order[n])
  <2>1. /\ observation' = [observation EXCEPT !.allies = next]
        /\ pc' = IF Len(observation'.allies) = NAllies THEN "export" ELSE "allies"
        /\ UNCHANGED enemies_raw
    BY <1>3 DEF CopyAlly, party_order_to_character_id
  <2>2. /\ l \in Seq(Positions) /\ n \in Nat /\ n < NAllies /\ order \in Parties
        /\ observation = [allies |-> l, enemies |-> observation.enemies]
        /\ enemies_raw \in [Slots -> FightingUnit]
        /\ NAllies \in Nat
    BY <1>1, ExportAssumption DEF CopyInv
  <2>3. n \in Positions /\ order[n] \in Positions
    BY <2>2 DEF Positions, Parties
  <2>4. next \in Seq(Positions) /\ Len(next) = n + 1 /\ Len(next) <= NAllies
    BY <2>2, <2>3
  <2>5. /\ observation'.allies = next
        /\ observation' = [allies |-> next, enemies |-> observation'.enemies]
    BY <2>1, <2>2
  <2>6. pc' = IF Len(next) = NAllies THEN "export" ELSE "allies"
    BY <2>1, <2>5
  <2> HIDE DEF next
  <2>7. CopyInv'
    BY <1>1, <2>1, <2>2, <2>4, <2>5, <2>6 DEF CopyInv, Searching
  <2> QED
    BY <2>6, <2>7 DEF EndRecordShowsAllDown
<1> QED
  BY <1>2, <1>3

\* The last record is written when the total is zero: no enemy who is in the
\* battle has health left.
LEMMA ExportKeeps ==
    ASSUME CopyInv, Export
    PROVE  CopyInv' /\ EndRecordShowsAllDown'
<1>1. UNCHANGED <<order, enemies>> /\ pc = "export"
  BY DEF Export, Program, gameVars
<1>2. enemies_raw \in [Slots -> FightingUnit]
  BY <1>1 DEF CopyInv
<1>3. CASE pc' = "units" /\ observation' = NoRecord
  <2>1. /\ NoRecord.allies = <<>> /\ <<>> \in Seq(Positions) /\ Len(<<>>) = 0
        /\ NoRecord = [allies |-> NoRecord.allies, enemies |-> NoRecord.enemies]
    BY DEF NoRecord
  <2> QED
    BY <1>1, <1>3, <2>1, ExportAssumption DEF CopyInv, Searching, EndRecordShowsAllDown
<1>4. CASE /\ pc' \in {"record", "end_record"}
           /\ pc' = "end_record" => health_total(enemies_raw) = 0
           /\ observation' = [observation EXCEPT !.enemies = export_copy_enemies]
  <2>1. observation = [allies |-> observation.allies, enemies |-> observation.enemies]
    BY DEF CopyInv
  <2>2. /\ observation'.allies = observation.allies
        /\ observation'.enemies = export_copy_enemies
        /\ observation' = [allies |-> observation'.allies, enemies |-> observation'.enemies]
    BY <1>4, <2>1
  <2>3. CopyInv'
    BY <1>1, <1>4, <2>2 DEF CopyInv, Searching
  <2>4. ASSUME pc' = "end_record", NEW s \in Slots
        PROVE  observation'.enemies[s].health = 0 \/ observation'.enemies[s].status = 0
    <3>1. /\ observation'.enemies[s].health = enemies_raw[s].health
          /\ observation'.enemies[s].status = enemies_raw[s].status
      BY <2>2 DEF export_copy_enemies
    <3>2. enemies_raw[s].health \in Nat /\ enemies_raw[s].status \in 0..1
      BY <1>2 DEF FightingUnit, EnemyUnit
    <3>3. enemies_raw[s].status > 0 => 0 >= enemies_raw[s].health
      BY <1>2, <1>4, <2>4, HealthTotal
    <3> QED
      BY <3>1, <3>2, <3>3
  <2> QED
    BY <2>3, <2>4 DEF EndRecordShowsAllDown
<1> QED
  BY <1>3, <1>4 DEF Export

LEMMA WrittenKeeps ==
    ASSUME CopyInv, Written
    PROVE  CopyInv' /\ EndRecordShowsAllDown'
<1>1. UNCHANGED <<order, enemies>> /\ pc' = "units" /\ observation' = NoRecord
  BY DEF Written, Program, gameVars
<1>2. /\ NoRecord.allies = <<>> /\ <<>> \in Seq(Positions) /\ Len(<<>>) = 0
      /\ NoRecord = [allies |-> NoRecord.allies, enemies |-> NoRecord.enemies]
  BY DEF NoRecord
<1> QED
  BY <1>1, <1>2, ExportAssumption DEF CopyInv, Searching, EndRecordShowsAllDown

\* The table is printed if anyone in the battle has health, and ends the program
\* if an element is not resisted.
LEMMA DisplayKeeps ==
    ASSUME CopyInv, Display
    PROVE  CopyInv' /\ EndRecordShowsAllDown' /\ TrapsOnImmunity'
<1> DEFINE Healthy == {s \in Slots : enemies_raw[s].health # 0}
           Immune(e) == \A s \in Healthy : enemies_raw[s].monster.resistance[e] = 0
<1>1. /\ UNCHANGED <<order, enemies, enemies_raw, observation>> /\ pc = "display"
      /\ enemies_raw \in [Slots -> FightingUnit]
      /\ pc' = IF PrintsWeakness /\ weakness_min = 0 THEN "trapped" ELSE "exit"
  BY DEF Display, Program, gameVars, exportVars, CopyInv
<1>2. PrintsWeakness <=> \E s \in Healthy : enemies_raw[s].status > 0
  BY <1>1, HealthTotal DEF PrintsWeakness
<1>3. weakness_min = 0 <=> \E e \in Elements : Immune(e)
  BY <1>1, WeaknessIsSum, LeastWeakness
<1>4. pc' = "trapped" <=> /\ \E s \in Healthy : enemies_raw[s].status > 0
                          /\ \E e \in Elements : Immune(e)
  BY <1>1, <1>2, <1>3
<1>5. TrapsOnImmunity'
  BY <1>1, <1>4 DEF TrapsOnImmunity
<1> QED
  BY <1>1, <1>5 DEF CopyInv, Searching, EndRecordShowsAllDown

----------------------------------------------------------------------------
(* The theorems.                                                             *)

LEMMA ExportInit == Init => ExportInv
<1> SUFFICES ASSUME Init PROVE ExportInv
  OBVIOUS
<1>1. SearchInv
  <2>1. /\ emulator \in Emulator /\ emulator.id = 1 /\ running = TRUE
        /\ pc = "find_pid" /\ pid = 0
        /\ ptr = [type \in {BOARD, CHIP} |-> [NoPointer EXCEPT !.type = type]]
    BY DEF Init, AttachInit
  <2>2. \A type \in {BOARD, CHIP} :
          ptr[type] = [id |-> 0, type |-> type, high |-> 0]
    BY <2>1 DEF NoPointer
  <2>3. 0 \in 0..MaxEmulators /\ 0 \in 0..1
    BY AttachAssumption
  <2>4. ptr \in [{BOARD, CHIP} -> Memory]
    BY <2>1, <2>2, <2>3 DEF Memory
  <2> QED
    BY <2>1, <2>2, <2>4 DEF SearchInv, Searching, NoPointer
<1>2. enemies \in [Slots -> FightingUnit]
  <2>1. PICK m \in Monsters :
          enemies = [s \in Slots |-> [monster |-> m, health |-> 0, status |-> 0]]
    BY DEF Init
  <2>2. m.health \in Nat
    BY ExportAssumption
  <2> QED
    BY <2>1, <2>2 DEF FightingUnit, EnemyUnit
<1>3. /\ order \in Parties /\ pc = "find_pid" /\ observation = NoRecord
  BY DEF Init, AttachInit
<1>4. /\ NoRecord.allies = <<>> /\ <<>> \in Seq(Positions) /\ Len(<<>>) = 0
      /\ NoRecord = [allies |-> NoRecord.allies, enemies |-> NoRecord.enemies]
  BY DEF NoRecord
<1>5. CopyInv
  BY <1>2, <1>3, <1>4, ExportAssumption DEF CopyInv, Searching
<1>6. EndRecordShowsAllDown /\ TrapsOnImmunity
  BY <1>3 DEF EndRecordShowsAllDown, TrapsOnImmunity
<1> QED
  BY <1>1, <1>3, <1>5, <1>6 DEF ExportInv

LEMMA ExportStep == ExportInv /\ [Next]_vars => ExportInv'
<1> SUFFICES ASSUME ExportInv, [Next]_vars PROVE ExportInv'
  OBVIOUS
<1> DEFINE Points == {"find_pid", "maps", "pointer", "units", "allies", "export",
                      "record", "end_record", "display", "exit", "trapped", "aborted"}
<1>1. /\ pc \in Points /\ SearchInv /\ CopyInv
      /\ EndRecordShowsAllDown /\ TrapsOnImmunity
  BY DEF ExportInv
<1>2. CASE EmulatorStep /\ UNCHANGED <<gameVars, exportVars>>
  <2>1. UNCHANGED <<pc, order, enemies, enemies_raw, observation>>
    BY <1>2 DEF EmulatorStep, EmulatorExits, EmulatorStarts, gameVars, exportVars
  <2>2. SearchInv'
    BY <1>1, <1>2, EmulatorKeeps
  <2>3. CopyInv' /\ EndRecordShowsAllDown'
    BY <1>1, <2>1, CopiesStay
  <2>4. TrapsOnImmunity'
    BY <1>1, <2>1, TableStays
  <2> QED
    BY <1>1, <2>1, <2>2, <2>3, <2>4 DEF ExportInv
<1>3. CASE GameStep
  <2>1. UNCHANGED <<pc, enemies_raw, observation, emulator, running, pid, mem_ref, ptr>>
    BY <1>3 DEF GameStep, Reorder, BattleBegins, Hit, BattleEnds, Game, attachVars,
                exportVars, emulatorVars, programVars
  <2>2. SearchInv'
    BY <1>1, <2>1 DEF SearchInv, Searching, Found
  <2>3. CopyInv' /\ EndRecordShowsAllDown'
    BY <1>1, <1>3, GameKeeps
  <2>4. TrapsOnImmunity'
    BY <1>1, <2>1, TableStays
  <2> QED
    BY <1>1, <2>1, <2>2, <2>3, <2>4 DEF ExportInv
<1>4. CASE FindGame /\ UNCHANGED <<gameVars, exportVars>>
  <2>1. /\ UNCHANGED <<order, enemies, enemies_raw, observation>>
        /\ Searching /\ pc' \in {"maps", "pointer", "units", "aborted"}
    BY <1>4 DEF FindGame, find_pid, find_heap, ReadPointer, Abort, Searching, gameVars,
                exportVars
  <2>2. SearchInv'
    BY <1>1, <1>4, FindGameKeeps
  <2>3. CopyInv' /\ EndRecordShowsAllDown'
    BY <1>1, <2>1 DEF CopyInv, Searching, EndRecordShowsAllDown
  <2>4. TrapsOnImmunity'
    BY <1>1, <2>1, TableStays DEF Searching
  <2> QED
    BY <2>1, <2>2, <2>3, <2>4 DEF ExportInv
<1>5. CASE get_unit_data \/ CopyAlly \/ Export \/ Written \/ Display
  <2>1. /\ ~Searching /\ pc \notin {"aborted", "exit"}
        /\ UNCHANGED <<emulator, running, pid, mem_ref, ptr>>
    BY <1>5 DEF get_unit_data, CopyAlly, Export, Written, Display, Program, Fail, Abort,
                Searching, emulatorVars, programVars
  <2>2. /\ pc' \in Points /\ ~Searching'
        /\ pc = "units" /\ pc' \notin {"units", "aborted"} => Readable(BOARD)
    BY <1>5 DEF get_unit_data, CopyAlly, Export, Written, Display, Program, Fail, Abort,
                Searching
  <2>3. SearchInv'
    BY <1>1, <2>1, <2>2, UsingKeeps
  <2>4. CASE Display
    BY <1>1, <2>2, <2>3, <2>4, DisplayKeeps DEF ExportInv
  <2>5. CASE ~Display
    <3>1. CopyInv' /\ EndRecordShowsAllDown'
      BY <1>1, <1>5, <2>5, UnitsKeep, AllyKeeps, ExportKeeps, WrittenKeeps
    <3>2. pc' \notin {"exit", "trapped"}
      BY <1>5, <2>5 DEF get_unit_data, CopyAlly, Export, Written, Program, Fail, Abort
    <3> QED
      BY <2>2, <2>3, <3>1, <3>2 DEF ExportInv, TrapsOnImmunity
  <2> QED
    BY <2>4, <2>5
<1>6. CASE UNCHANGED vars
  <2>1. UNCHANGED <<pc, order, enemies, enemies_raw, observation,
                    emulator, running, pid, mem_ref, ptr>>
    BY <1>6 DEF vars, attachVars, gameVars, exportVars, emulatorVars, programVars
  <2>2. SearchInv'
    BY <1>1, <2>1 DEF SearchInv, Searching, Found
  <2>3. CopyInv' /\ EndRecordShowsAllDown'
    BY <1>1, <2>1, CopiesStay
  <2>4. TrapsOnImmunity'
    BY <1>1, <2>1, TableStays
  <2> QED
    BY <1>1, <2>1, <2>2, <2>3, <2>4 DEF ExportInv
<1> QED
  BY <1>2, <1>3, <1>4, <1>5, <1>6 DEF Next, ProgramStep

\* What the program knows of the emulator, its copies of the game and its table
\* are right at every moment.
THEOREM ExportInvariance == Spec => []ExportInv
BY ExportInit, ExportStep, PTL DEF Spec

\* StateTypeOK: a record never holds more allies than there are, nor an enemy more
\* health than his kind has, and a pointer has the type of its place.
THEOREM StateTypeCorrect == Spec => []StateTypeOK
<1>1. ExportInv => StateTypeOK
  <2> SUFFICES ASSUME ExportInv PROVE StateTypeOK
    OBVIOUS
  <2>1. \A s \in Slots : enemies[s] \in FightingUnit
    BY DEF ExportInv, CopyInv
  <2>2. \A s \in Slots : enemies[s] \in EnemyUnit /\ enemies[s].health <= enemies[s].monster.health
    BY <2>1 DEF FightingUnit
  <2>3. \A type \in {BOARD, CHIP} : ptr[type] \in Memory /\ ptr[type].type = type
    BY DEF ExportInv, SearchInv
  <2> QED
    BY <2>2, <2>3 DEF StateTypeOK, ExportInv, CopyInv
<1> QED
  BY <1>1, ExportInvariance, PTL

\* FoundIsWram: a program that has got past find_wram holds the pointers of the
\* emulator it found, for any maps file: of long lines and of a long line right
\* above the heap too, for then it ends.
THEOREM FoundIsWramCorrect == Spec => []FoundIsWram
<1>1. ExportInv => FoundIsWram
  BY DEF ExportInv, SearchInv, CopyInv, FoundIsWram, Searching, Found
<1> QED
  BY <1>1, ExportInvariance, PTL

\* EndRecordShowsAllDown: a total of zero, which ends a battle's records, is not an
\* overflow: all enemies of the last record are down.
THEOREM EndRecordShowsAllDownCorrect == Spec => []EndRecordShowsAllDown
<1>1. ExportInv => EndRecordShowsAllDown
  BY DEF ExportInv
<1> QED
  BY <1>1, ExportInvariance, PTL

\* TrapsOnImmunity: oneshot divides by zero exactly when it prints its table and no
\* enemy with health resists some element, whatever an earlier battle has left.
THEOREM TrapsOnImmunityCorrect == Spec => []TrapsOnImmunity
<1>1. ExportInv => TrapsOnImmunity
  BY DEF ExportInv
<1> QED
  BY <1>1, ExportInvariance, PTL

=============================================================================
