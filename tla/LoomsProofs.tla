----------------------------- MODULE LoomsProofs -----------------------------
(***************************************************************************)
(* Proofs about Looms, for every number of looms, racks, runs, sessions    *)
(* and keys.  A roll registers with what its transaction read before it    *)
(* had the run's lock; the invariant says what that reading is still good  *)
(* for when it writes: the key is unused, the run is open, and the loom's  *)
(* counter it read is not above the rolls the loom has.                    *)
(*                                                                         *)
(* The second part follows the spools from the racks through the rows of   *)
(* the creels to the entries of the rolls: the rows of a PTI give the      *)
(* portions of what a roll needs, oldest first, and those add up to it.    *)
(***************************************************************************)
EXTENDS Looms, TotalTheorems, SequenceTheorems, TLAPS

RollsOfRun(k) == {n \in DOMAIN rolls : rolls[n].run = k}

(* The tables of looms, runs and rolls.                                    *)
TablesOK ==
    /\ runs \in Seq(RunType)
    /\ \E S : rolls \in Seq(S)
    /\ DOMAIN looms = TheLooms
    /\ \A l \in TheLooms : "total" \in DOMAIN looms[l]
    /\ \A n \in DOMAIN rolls :
        /\ rolls[n].run \in DOMAIN runs
        /\ rolls[n].loom = runs[rolls[n].run].loom
        /\ rolls[n].sequence \in Nat

(* A loom's counter is the number of its rolls, none is numbered above it, *)
(* and the numbers differ.                                                 *)
Numbered ==
    /\ \A l \in TheLooms : looms[l].total = Cardinality(RollsOf(l))
    /\ \A n \in DOMAIN rolls :
        rolls[n].sequence <= Cardinality(RollsOf(rolls[n].loom))
    /\ LoomHistory

(* What an open registration knows.                                        *)
Sound(d) ==
    /\ {"op", "key", "run", "locked", "total"} \subseteq DOMAIN d
    /\ d.run \in DOMAIN runs
    /\ d.total \in Nat
    /\ d.total <= Cardinality(RollsOf(runs[d.run].loom))
    /\ KeyUnused(d.key)
    /\ d.locked => runs[d.run].open
DeskOK ==
    /\ DOMAIN desk = Sessions
    /\ \A w \in Sessions : desk[w].op = "roll" => Sound(desk[w])
    /\ \A v, w \in Sessions :
        desk[v].op = "roll" /\ desk[w].op = "roll" /\ desk[v].key = desk[w].key => v = w

(* The inductive invariant.                                                *)
IInv == TablesOK /\ Numbered /\ OneRollPerKey /\ DeskOK

(* The rolls of a loom, and of a run, can be counted.                      *)
LEMMA RollsFinite ==
    ASSUME TablesOK
    PROVE  /\ \A l : IsFiniteSet(RollsOf(l)) /\ Cardinality(RollsOf(l)) \in Nat
           /\ \A k : IsFiniteSet(RollsOfRun(k)) /\ Cardinality(RollsOfRun(k)) \in Nat
           /\ Len(rolls) \in Nat
           /\ DOMAIN rolls = 1..Len(rolls)
<1>1. PICK S : rolls \in Seq(S)
  BY DEF TablesOK
<1>2. Len(rolls) \in Nat /\ DOMAIN rolls = 1..Len(rolls)
  BY <1>1
<1>3. IsFiniteSet(1..Len(rolls))
  BY <1>2, FS_Interval
<1>4. \A l : RollsOf(l) \subseteq 1..Len(rolls)
  BY <1>2 DEF RollsOf
<1>5. \A k : RollsOfRun(k) \subseteq 1..Len(rolls)
  BY <1>2 DEF RollsOfRun
<1> QED
  BY <1>2, <1>3, <1>4, <1>5, FS_Subset, FS_CardinalityType

(* The invariant holds at first: there are no rolls.                       *)
LEMMA InitIInv == Init => IInv
<1> SUFFICES ASSUME Init PROVE IInv
    OBVIOUS
<1>1. rolls = <<>> /\ runs = <<>> /\ DOMAIN rolls = {} /\ DOMAIN runs = {}
  BY DEF Init
<1>2. TablesOK
  <2>1. looms \in [TheLooms -> [spools : {0}, total : {0}, capacity : Capacities,
                status : {"DISPONIBLE"}, bom : {NoBom}, active : {TRUE}]]
    BY DEF Init
  <2>2. \E S : rolls \in Seq(S)
    <3>1. rolls \in Seq({})
      BY <1>1
    <3> QED
      BY <3>1
  <2>3. \A l \in TheLooms : "total" \in DOMAIN looms[l]
    BY <2>1
  <2> QED
    BY <1>1, <2>1, <2>2, <2>3 DEF TablesOK
<1>3. \A l \in TheLooms : looms[l].total = 0
  BY DEF Init
<1>4. \A l : RollsOf(l) = {}
  BY <1>1 DEF RollsOf
<1>5. Numbered
  BY <1>1, <1>3, <1>4, FS_EmptySet DEF Numbered, LoomHistory
<1>6. DeskOK
  BY DEF Init, DeskOK, Idle
<1> QED
  BY <1>1, <1>2, <1>5, <1>6 DEF IInv, OneRollPerKey

(* Nothing the invariant speaks of changes.                                *)
LEMMA QuietStep ==
    ASSUME IInv, rolls' = rolls, runs' = runs, DOMAIN looms' = TheLooms,
           DOMAIN desk' = Sessions,
           \A l \in TheLooms : /\ "total" \in DOMAIN looms'[l]
                               /\ looms'[l].total = looms[l].total,
           \A w \in Sessions : desk'[w].op = "roll" => desk'[w] = desk[w]
    PROVE  IInv'
<1>1. TablesOK'
  BY DEF IInv, TablesOK
<1>2. \A l : RollsOf(l)' = RollsOf(l)
  BY DEF RollsOf
<1>3. Numbered'
  BY <1>2 DEF IInv, Numbered, LoomHistory
<1>4. DeskOK'
  BY <1>2 DEF IInv, DeskOK, Sound, KeyUnused
<1> QED
  BY <1>1, <1>3, <1>4 DEF IInv, OneRollPerKey

(* A run is added, or closed while no registration holds it.               *)
LEMMA RunStep ==
    ASSUME IInv, rolls' = rolls, desk' = desk, DOMAIN looms' = TheLooms,
           \A l \in TheLooms : /\ "total" \in DOMAIN looms'[l]
                               /\ looms'[l].total = looms[l].total,
           runs' \in Seq(RunType), DOMAIN runs \subseteq DOMAIN runs',
           \A k \in DOMAIN runs : /\ runs'[k].loom = runs[k].loom
                                  /\ runs'[k].produced = runs[k].produced,
           \A k \in DOMAIN runs' \ DOMAIN runs : runs'[k].produced = 0,
           \A k \in DOMAIN runs : runs'[k].open \/ ~runs[k].open \/ NotInUse(k)
    PROVE  IInv'
<1>1. TablesOK'
  BY DEF IInv, TablesOK
<1>2. \A l : RollsOf(l)' = RollsOf(l)
  BY DEF RollsOf
<1>3. \A k : RollsOfRun(k)' = RollsOfRun(k)
  BY DEF RollsOfRun
<1>4. Numbered'
  <2>1. \A k \in DOMAIN runs' : runs'[k].produced = Cardinality(RollsOfRun(k))
    <3> SUFFICES ASSUME NEW k \in DOMAIN runs'
                 PROVE  runs'[k].produced = Cardinality(RollsOfRun(k))
      OBVIOUS
    <3>1. CASE k \in DOMAIN runs
      BY <3>1 DEF IInv, Numbered, LoomHistory, RollsOfRun
    <3>2. CASE k \notin DOMAIN runs
      <4>1. RollsOfRun(k) = {}
        BY <3>2 DEF IInv, TablesOK, RollsOfRun
      <4> QED
        BY <3>2, <4>1, FS_EmptySet
    <3> QED
      BY <3>1, <3>2
  <2> QED
    BY <1>2, <2>1 DEF IInv, Numbered, LoomHistory, RollsOfRun
<1>5. DeskOK'
  <2>1. \A w \in Sessions : desk[w].op = "roll" => Sound(desk[w])'
    <3> SUFFICES ASSUME NEW w \in Sessions, desk[w].op = "roll"
                 PROVE  Sound(desk[w])'
      OBVIOUS
    <3>1. Sound(desk[w])
      BY DEF IInv, DeskOK
    <3>2. desk[w].locked => runs'[desk[w].run].open
      BY <3>1 DEF Sound, NotInUse
    <3> QED
      BY <1>2, <3>1, <3>2 DEF Sound, KeyUnused
  <2> QED
    BY <2>1 DEF IInv, DeskOK
<1> QED
  BY <1>1, <1>4, <1>5 DEF IInv, OneRollPerKey

(* startLoomRun opens a run without rolls and keeps the invariant.         *)
LEMMA StartRunStep == ASSUME IInv, NEW l \in TheLooms, NEW b \in Boms, StartRun(l, b)
                      PROVE  IInv'
<1> DEFINE run == [loom |-> l, bom |-> b, open |-> TRUE, produced |-> 0]
<1>1. runs \in Seq(RunType) /\ run \in RunType
  BY DEF IInv, TablesOK, RunType
<1>2. runs' = Append(runs, run) /\ rolls' = rolls /\ desk' = desk
  BY DEF StartRun
<1>3. /\ runs' \in Seq(RunType) /\ Len(runs') = Len(runs) + 1 /\ Len(runs) \in Nat
      /\ \A k \in 1..Len(runs) : runs'[k] = runs[k]
      /\ runs'[Len(runs) + 1] = run
  BY <1>1, <1>2, AppendProperties, LenProperties
<1>4. /\ DOMAIN runs = 1..Len(runs) /\ DOMAIN runs' = 1..(Len(runs) + 1)
  BY <1>1, <1>3
<1>5. /\ DOMAIN looms' = TheLooms
      /\ \A m \in TheLooms : /\ "total" \in DOMAIN looms'[m]
                             /\ looms'[m].total = looms[m].total
  BY DEF StartRun, IInv, TablesOK
<1>6. \A k \in DOMAIN runs' \ DOMAIN runs : k = Len(runs) + 1
  BY <1>3, <1>4
<1> HIDE DEF run
<1>7. run.produced = 0
  BY DEF run
<1>8. /\ DOMAIN runs \subseteq DOMAIN runs'
      /\ \A k \in DOMAIN runs : runs'[k] = runs[k]
      /\ \A k \in DOMAIN runs' \ DOMAIN runs : runs'[k].produced = 0
  BY <1>3, <1>4, <1>6, <1>7
<1> QED
  BY <1>2, <1>3, <1>5, <1>8, RunStep

(* finishLoomRun waits for the run's lock, so no registration that holds   *)
(* it loses its run, and keeps the invariant.                              *)
LEMMA FinishRunStep == ASSUME IInv, NEW k \in DOMAIN runs, FinishRun(k) PROVE IInv'
<1> DEFINE run == [runs[k] EXCEPT !.open = FALSE]
<1>1. /\ runs \in Seq(RunType) /\ k \in 1..Len(runs) /\ DOMAIN runs = 1..Len(runs)
  BY DEF IInv, TablesOK
<1>2. runs[k] \in RunType
  BY <1>1, ElementOfSeq
<1>3. run \in RunType /\ run.loom = runs[k].loom /\ run.produced = runs[k].produced
  BY <1>2 DEF RunType
<1>4. runs' = [runs EXCEPT ![k] = run] /\ rolls' = rolls /\ desk' = desk /\ NotInUse(k)
  BY DEF FinishRun
<1> HIDE DEF run
<1>5. /\ runs' \in Seq(RunType) /\ Len(runs') = Len(runs)
      /\ \A j \in 1..Len(runs) : runs'[j] = IF j = k THEN run ELSE runs[j]
  BY <1>1, <1>3, <1>4, ExceptSeq
<1>6. DOMAIN runs' = DOMAIN runs
  BY <1>1, <1>5
<1>7. /\ DOMAIN looms' = TheLooms
      /\ \A m \in TheLooms : /\ "total" \in DOMAIN looms'[m]
                             /\ looms'[m].total = looms[m].total
  BY DEF FinishRun, IInv, TablesOK
<1>8. \A j \in DOMAIN runs : /\ runs'[j].loom = runs[j].loom
                             /\ runs'[j].produced = runs[j].produced
  BY <1>1, <1>3, <1>5
<1>9. \A j \in DOMAIN runs : runs'[j].open \/ ~runs[j].open \/ NotInUse(j)
  BY <1>1, <1>4, <1>5
<1> QED
  BY <1>4, <1>5, <1>6, <1>7, <1>8, <1>9, RunStep

(* A registration reads the loom's counter and takes its key.              *)
LEMMA RollReadStep ==
    ASSUME IInv, NEW w \in Sessions, NEW key \in Keys, NEW k \in DOMAIN runs,
           RollRead(w, key, k)
    PROVE  IInv'
<1> DEFINE d == [op |-> "roll", key |-> key, run |-> k, locked |-> FALSE,
                 spools |-> looms[runs[k].loom].spools,
                 total |-> looms[runs[k].loom].total]
<1>1. /\ rolls' = rolls /\ runs' = runs /\ looms' = looms /\ KeyFree(key)
      /\ desk' = [desk EXCEPT ![w] = d]
  BY DEF RollRead
<1>2. runs[k].loom \in TheLooms
  <2>1. k \in 1..Len(runs) /\ runs \in Seq(RunType)
    BY DEF IInv, TablesOK
  <2>2. runs[k] \in RunType
    BY <2>1, ElementOfSeq
  <2> QED
    BY <2>2 DEF RunType
<1>3. /\ looms[runs[k].loom].total = Cardinality(RollsOf(runs[k].loom))
      /\ looms[runs[k].loom].total \in Nat
  BY <1>2, RollsFinite DEF IInv, Numbered
<1>4. Sound(d)
  BY <1>1, <1>3 DEF Sound, KeyFree
<1>5. d.op = "roll" /\ d.key = key
  OBVIOUS
<1> HIDE DEF d
<1>6. \A v \in Sessions : desk[v].op = "roll" => desk[v].key # key
  BY <1>1 DEF KeyFree
<1>7. DOMAIN desk' = Sessions /\ desk'[w] = d
      /\ \A v \in Sessions \ {w} : desk'[v] = desk[v]
  BY <1>1 DEF IInv, DeskOK
<1>8. \A v \in Sessions : desk'[v].op = "roll" => Sound(desk'[v])
  BY <1>4, <1>7 DEF IInv, DeskOK
<1>9. \A u, v \in Sessions :
         desk'[u].op = "roll" /\ desk'[v].op = "roll" /\ desk'[u].key = desk'[v].key => u = v
  BY <1>5, <1>6, <1>7 DEF IInv, DeskOK
<1>10. \A e : Sound(e)' <=> Sound(e)
  BY <1>1 DEF Sound, KeyUnused, RollsOf
<1>11. DeskOK'
  BY <1>7, <1>8, <1>9, <1>10 DEF DeskOK
<1>12. TablesOK' /\ OneRollPerKey'
  BY <1>1 DEF IInv, TablesOK, OneRollPerKey
<1>13. Numbered'
  BY <1>1 DEF IInv, Numbered, LoomHistory, RollsOf
<1> QED
  BY <1>11, <1>12, <1>13 DEF IInv

(* A registration takes its run's lock, and the run is open.               *)
LEMMA RollLockStep == ASSUME IInv, NEW w \in Sessions, RollLock(w) PROVE IInv'
<1> DEFINE d == [desk[w] EXCEPT !.locked = TRUE]
<1>1. /\ rolls' = rolls /\ runs' = runs /\ looms' = looms
      /\ desk' = [desk EXCEPT ![w] = d]
      /\ desk[w].op = "roll" /\ runs[desk[w].run].open
  BY DEF RollLock
<1>2. Sound(desk[w])
  BY <1>1 DEF IInv, DeskOK
<1>3. /\ d.op = "roll" /\ d.key = desk[w].key /\ d.run = desk[w].run
      /\ d.total = desk[w].total /\ d.locked /\ DOMAIN d = DOMAIN desk[w]
  BY <1>1, <1>2 DEF Sound
<1> HIDE DEF d
<1>4. Sound(d)
  BY <1>1, <1>2, <1>3 DEF Sound
<1>5. DOMAIN desk' = Sessions /\ desk'[w] = d
      /\ \A v \in Sessions \ {w} : desk'[v] = desk[v]
  BY <1>1 DEF IInv, DeskOK
<1>6. \A v \in Sessions : desk'[v].op = "roll" => Sound(desk'[v])
  BY <1>4, <1>5 DEF IInv, DeskOK
<1>7. \A u, v \in Sessions :
         desk'[u].op = "roll" /\ desk'[v].op = "roll" /\ desk'[u].key = desk'[v].key => u = v
  BY <1>1, <1>3, <1>5 DEF IInv, DeskOK
<1>8. \A e : Sound(e)' <=> Sound(e)
  BY <1>1 DEF Sound, KeyUnused, RollsOf
<1>9. DeskOK'
  BY <1>5, <1>6, <1>7, <1>8 DEF DeskOK
<1>10. TablesOK' /\ OneRollPerKey'
  BY <1>1 DEF IInv, TablesOK, OneRollPerKey
<1>11. Numbered'
  BY <1>1 DEF IInv, Numbered, LoomHistory, RollsOf
<1> QED
  BY <1>9, <1>10, <1>11 DEF IInv

(* The new roll takes the next number of its loom.                         *)
LEMMA RollWriteStep ==
    ASSUME IInv, NEW w \in Sessions, desk[w].op = "roll", desk[w].locked,
           NEW need, RollWrite(w, need)
    PROVE  IInv'
<1> DEFINE d == desk[w]
           l == runs[d.run].loom
           new == Len(rolls) + 1
           count == Cardinality(RollsOf(l))
           number == NextSequence(d.total, l)
           rolled == [runs[d.run] EXCEPT !.produced = @ + 1]
           NowOf(m) == {n \in DOMAIN rolls' : rolls'[n].loom = m}
           NowOfRun(k) == {n \in DOMAIN rolls' : rolls'[n].run = k}
<1>1. \E roll : /\ rolls' = Append(rolls, roll)
                /\ roll.run = d.run /\ roll.loom = l /\ roll.key = d.key
                /\ roll.sequence = number
  <2>1. PICK entries : rolls' = Append(rolls,
              [run |-> d.run, loom |-> l, key |-> d.key, sequence |-> number,
               need |-> need, entries |-> entries])
    BY Zenon DEF RollWrite
  <2> DEFINE roll == [run |-> d.run, loom |-> l, key |-> d.key, sequence |-> number,
               need |-> need, entries |-> entries]
  <2>2. roll.run = d.run /\ roll.loom = l /\ roll.key = d.key /\ roll.sequence = number
    OBVIOUS
  <2> QED
    BY <2>1, <2>2, Zenon
<1>2. \E spools : looms' = [looms EXCEPT ![l].spools = spools, ![l].total = number]
  BY Zenon DEF RollWrite
<1>3. /\ runs' = [runs EXCEPT ![d.run] = rolled]
      /\ desk' = [desk EXCEPT ![w] = Idle]
  BY DEF RollWrite
<1>4. Sound(d)
  BY DEF IInv, DeskOK
<1>5. /\ runs \in Seq(RunType) /\ d.run \in 1..Len(runs) /\ DOMAIN runs = 1..Len(runs)
      /\ runs[d.run] \in RunType
  <2>1. runs \in Seq(RunType) /\ d.run \in 1..Len(runs)
    BY <1>4 DEF IInv, TablesOK, Sound
  <2> QED
    BY <2>1, ElementOfSeq
<1>6. l \in TheLooms /\ rolled \in RunType /\ rolled.loom = l
      /\ rolled.produced = runs[d.run].produced + 1 /\ rolled.open = runs[d.run].open
  <2> DEFINE run == runs[d.run]
  <2>1. run \in RunType
    BY <1>5
  <2> HIDE DEF run
  <2>2. /\ run.loom \in TheLooms
        /\ [run EXCEPT !.produced = @ + 1] \in RunType
        /\ [run EXCEPT !.produced = @ + 1].loom = run.loom
        /\ [run EXCEPT !.produced = @ + 1].produced = run.produced + 1
        /\ [run EXCEPT !.produced = @ + 1].open = run.open
    BY <2>1 DEF RunType
  <2> QED
    BY <2>2, Zenon DEF run
<1>7. /\ count \in Nat /\ Len(rolls) \in Nat /\ DOMAIN rolls = 1..Len(rolls)
      /\ IsFiniteSet(RollsOf(l)) /\ IsFiniteSet(RollsOfRun(d.run))
  BY RollsFinite DEF IInv
<1>8. number = count + 1
  BY <1>4, <1>7 DEF Sound, NextSequence, Larger
<1>9. PICK roll : /\ rolls' = Append(rolls, roll)
                  /\ roll.run = d.run /\ roll.loom = l /\ roll.key = d.key
                  /\ roll.sequence = number
  BY <1>1
<1>10. /\ \E S : rolls' \in Seq(S)
       /\ DOMAIN rolls' = 1..new
       /\ \A n \in DOMAIN rolls : rolls'[n] = rolls[n]
       /\ rolls'[new] = roll
  <2>1. PICK S : rolls \in Seq(S)
    BY DEF IInv, TablesOK
  <2>2. rolls \in Seq(S \cup {roll})
    BY <2>1, SeqMonotonic
  <2>3. /\ rolls' \in Seq(S \cup {roll}) /\ Len(rolls') = new
        /\ \A n \in 1..Len(rolls) : rolls'[n] = rolls[n]
        /\ rolls'[new] = roll
    BY <1>9, <2>2, AppendProperties
  <2> QED
    BY <1>7, <2>3
<1>11. /\ runs' \in Seq(RunType) /\ DOMAIN runs' = DOMAIN runs
       /\ \A k \in DOMAIN runs : runs'[k] = IF k = d.run THEN rolled ELSE runs[k]
  <2> HIDE DEF rolled, d
  <2>1. /\ runs' \in Seq(RunType) /\ Len(runs') = Len(runs)
        /\ \A k \in 1..Len(runs) : runs'[k] = IF k = d.run THEN rolled ELSE runs[k]
    BY <1>3, <1>5, <1>6, ExceptSeq
  <2> QED
    BY <1>5, <2>1
<1>12. /\ DOMAIN looms' = TheLooms
       /\ \A m \in TheLooms : /\ "total" \in DOMAIN looms'[m]
                              /\ looms'[m].total = IF m = l THEN number ELSE looms[m].total
  <2>1. PICK spools : looms' = [looms EXCEPT ![l].spools = spools, ![l].total = number]
    BY <1>2
  <2> HIDE DEF number, l
  <2> QED
    BY <2>1, <1>6 DEF IInv, TablesOK
<1>13. /\ DOMAIN desk' = Sessions /\ desk'[w] = Idle
       /\ \A v \in Sessions \ {w} : desk'[v] = desk[v]
  BY <1>3 DEF IInv, DeskOK
<1> HIDE DEF d, l, number, count, rolled
<1>14. \A m : NowOf(m) = IF m = l THEN RollsOf(m) \cup {new} ELSE RollsOf(m)
  <2> SUFFICES ASSUME NEW m
               PROVE  NowOf(m) = IF m = l THEN RollsOf(m) \cup {new} ELSE RollsOf(m)
    OBVIOUS
  <2>1. DOMAIN rolls' = DOMAIN rolls \cup {new}
    BY <1>7, <1>10
  <2> QED
    BY <1>9, <1>10, <2>1, <1>7 DEF RollsOf
<1>15. \A k : NowOfRun(k) = IF k = d.run THEN RollsOfRun(k) \cup {new} ELSE RollsOfRun(k)
  <2> SUFFICES ASSUME NEW k
               PROVE  NowOfRun(k) = IF k = d.run THEN RollsOfRun(k) \cup {new}
                                                    ELSE RollsOfRun(k)
    OBVIOUS
  <2>1. DOMAIN rolls' = DOMAIN rolls \cup {new}
    BY <1>7, <1>10
  <2> QED
    BY <1>9, <1>10, <2>1, <1>7 DEF RollsOfRun
<1>16. \A m : Cardinality(NowOf(m)) = IF m = l THEN count + 1 ELSE Cardinality(RollsOf(m))
  <2>1. new \notin RollsOf(l)
    BY <1>7 DEF RollsOf
  <2>2. Cardinality(RollsOf(l) \cup {new}) = count + 1
    BY <1>7, <2>1, FS_AddElement DEF count
  <2> QED
    BY <1>14, <2>2
<1>17. \A k : Cardinality(NowOfRun(k)) = IF k = d.run THEN Cardinality(RollsOfRun(k)) + 1
                                            ELSE Cardinality(RollsOfRun(k))
  <2>1. new \notin RollsOfRun(d.run)
    BY <1>7 DEF RollsOfRun
  <2>2. Cardinality(RollsOfRun(d.run) \cup {new}) = Cardinality(RollsOfRun(d.run)) + 1
    BY <1>7, <2>1, FS_AddElement
  <2> QED
    BY <1>15, <2>2
<1>18. \A n \in DOMAIN rolls' : n = new \/ (n \in DOMAIN rolls /\ rolls'[n] = rolls[n])
  BY <1>7, <1>10
<1>19. \A k \in DOMAIN runs : runs'[k].loom = runs[k].loom
                              /\ (runs[k].open => runs'[k].open)
  BY <1>6, <1>11 DEF l
<1>20. TablesOK'
  <2>1. \A n \in DOMAIN rolls' : /\ rolls'[n].run \in DOMAIN runs'
                                 /\ rolls'[n].loom = runs'[rolls'[n].run].loom
                                 /\ rolls'[n].sequence \in Nat
    <3> SUFFICES ASSUME NEW n \in DOMAIN rolls'
                 PROVE  /\ rolls'[n].run \in DOMAIN runs'
                        /\ rolls'[n].loom = runs'[rolls'[n].run].loom
                        /\ rolls'[n].sequence \in Nat
      OBVIOUS
    <3>1. CASE n = new
      <4>1. d.run \in DOMAIN runs /\ runs'[d.run].loom = l
        BY <1>5, <1>6, <1>11
      <4>2. number \in Nat
        BY <1>7, <1>8
      <4> QED
        BY <3>1, <4>1, <4>2, <1>9, <1>10, <1>11
    <3>2. CASE n \in DOMAIN rolls
      <4>1. /\ rolls[n].run \in DOMAIN runs
            /\ rolls[n].loom = runs[rolls[n].run].loom
            /\ rolls[n].sequence \in Nat
        BY <3>2 DEF IInv, TablesOK
      <4> QED
        BY <3>2, <4>1, <1>10, <1>11, <1>19
    <3> QED
      BY <3>1, <3>2, <1>18
  <2> QED
    BY <2>1, <1>10, <1>11, <1>12 DEF TablesOK
<1>21. Numbered'
  <2>1. \A m \in TheLooms : looms'[m].total = Cardinality(NowOf(m))
    BY <1>8, <1>12, <1>16 DEF IInv, Numbered
  <2>2. \A n \in DOMAIN rolls : rolls[n].sequence <= Cardinality(RollsOf(rolls[n].loom))
    BY DEF IInv, Numbered
  <2>3. \A n \in DOMAIN rolls : rolls[n].sequence \in Nat
    BY DEF IInv, TablesOK
  <2>4. \A n \in DOMAIN rolls' :
            rolls'[n].sequence <= Cardinality(NowOf(rolls'[n].loom))
    <3> SUFFICES ASSUME NEW n \in DOMAIN rolls'
                 PROVE  rolls'[n].sequence <= Cardinality(NowOf(rolls'[n].loom))
      OBVIOUS
    <3>1. CASE n = new
      BY <3>1, <1>7, <1>8, <1>9, <1>10, <1>16
    <3>2. CASE n \in DOMAIN rolls /\ rolls'[n] = rolls[n]
      <4>1. CASE rolls[n].loom = l
        BY <3>2, <4>1, <2>2, <2>3, <1>7, <1>16 DEF count
      <4>2. CASE rolls[n].loom # l
        BY <3>2, <4>2, <2>2, <1>16
      <4> QED
        BY <4>1, <4>2
    <3> QED
      BY <3>1, <3>2, <1>18
  <2>5. \A n \in DOMAIN rolls : rolls[n].loom = l => rolls[n].sequence # number
    BY <2>2, <2>3, <1>7, <1>8 DEF count
  <2>6. \A m, n \in DOMAIN rolls :
            rolls[m].loom = rolls[n].loom /\ rolls[m].sequence = rolls[n].sequence => m = n
    BY DEF IInv, Numbered, LoomHistory
  <2>7. \A m, n \in DOMAIN rolls' :
            rolls'[m].loom = rolls'[n].loom /\ rolls'[m].sequence = rolls'[n].sequence
            => m = n
    BY <2>5, <2>6, <1>9, <1>10, <1>18
  <2>8. \A k \in DOMAIN runs : runs[k].produced = Cardinality(RollsOfRun(k))
    BY DEF IInv, Numbered, LoomHistory, RollsOfRun
  <2>9. \A k \in DOMAIN runs' : runs'[k].produced = Cardinality(NowOfRun(k))
    BY <2>8, <1>5, <1>6, <1>11, <1>17
  <2> QED
    BY <2>1, <2>4, <2>7, <2>9 DEF Numbered, LoomHistory, RollsOf
<1>22. OneRollPerKey'
  <2>1. \A n \in DOMAIN rolls : rolls[n].key # d.key
    BY <1>4 DEF Sound, KeyUnused
  <2>2. \A m, n \in DOMAIN rolls : rolls[m].key = rolls[n].key => m = n
    BY DEF IInv, OneRollPerKey
  <2> QED
    BY <2>1, <2>2, <1>9, <1>10, <1>18 DEF OneRollPerKey
<1>23. DeskOK'
  <2>1. \A v \in Sessions : desk'[v].op = "roll" => v # w /\ desk'[v] = desk[v]
    BY <1>13 DEF Idle
  <2>2. \A v \in Sessions : v # w /\ desk[v].op = "roll" => desk[v].key # d.key
    BY DEF IInv, DeskOK, d
  <2>3. \A e : Sound(e) /\ e.key # d.key => Sound(e)'
    <3> SUFFICES ASSUME NEW e, Sound(e), e.key # d.key PROVE Sound(e)'
      OBVIOUS
    <3>1. Cardinality(RollsOf(runs[e.run].loom)) \in Nat
      BY RollsFinite DEF IInv
    <3>2. e.total <= Cardinality(NowOf(runs[e.run].loom))
      BY <3>1, <1>16 DEF Sound, count
    <3>3. e.total <= Cardinality(NowOf(runs'[e.run].loom))
      BY <3>2, <1>19 DEF Sound
    <3>4. \A n \in DOMAIN rolls' : rolls'[n].key # e.key
      BY <1>9, <1>10, <1>18 DEF Sound, KeyUnused
    <3> QED
      BY <3>3, <3>4, <1>11, <1>19 DEF Sound, KeyUnused, RollsOf
  <2>4. \A v \in Sessions : desk'[v].op = "roll" => Sound(desk'[v]) /\ desk'[v].key # d.key
    BY <2>1, <2>2 DEF IInv, DeskOK
  <2>5. \A u, v \in Sessions :
            desk'[u].op = "roll" /\ desk'[v].op = "roll" /\ desk'[u].key = desk'[v].key
            => u = v
    BY <2>1 DEF IInv, DeskOK
  <2> QED
    BY <2>3, <2>5, <2>4, <1>13 DEF DeskOK
<1> QED
  BY <1>20, <1>21, <1>22, <1>23 DEF IInv

(* Every handler keeps the invariant.                                      *)
LEMMA NextStep == ASSUME IInv, [Next]_vars PROVE IInv'
<1>1. DOMAIN looms = TheLooms /\ \A l \in TheLooms : "total" \in DOMAIN looms[l]
  BY DEF IInv, TablesOK
<1>2. DOMAIN desk = Sessions
  BY DEF IInv, DeskOK
<1>3. ASSUME NEW m \in Modes \ {mode}, SetMode(m) PROVE IInv'
  BY <1>1, <1>2, <1>3, QuietStep DEF SetMode
<1>4. ASSUME NEW l \in TheLooms, NEW r \in Racks, NEW n, LoadCreel(l, r, n) PROVE IInv'
  BY <1>1, <1>2, <1>4, QuietStep DEF LoadCreel
<1>5. ASSUME NEW l \in TheLooms, NEW b \in Boms, StartRun(l, b) PROVE IInv'
  BY <1>5, StartRunStep
<1>6. ASSUME NEW k \in DOMAIN runs, FinishRun(k) PROVE IInv'
  BY <1>6, FinishRunStep
<1>7. ASSUME NEW w \in Sessions, NEW key \in Keys, NEW k \in DOMAIN runs,
             RollRead(w, key, k)
      PROVE  IInv'
  BY <1>7, RollReadStep
<1>8. ASSUME NEW w \in Sessions, RollLock(w) PROVE IInv'
  BY <1>8, RollLockStep
<1>9. ASSUME NEW w \in Sessions, RollCommit(w) PROVE IInv'
  BY <1>9, RollWriteStep DEF RollCommit
<1>10. ASSUME NEW w \in Sessions, NEW l \in TheLooms, OpenForm(w, l) PROVE IInv'
  BY <1>1, <1>2, <1>10, QuietStep DEF OpenForm
<1>11. ASSUME NEW w \in Sessions, NEW capacity \in Capacities, SaveForm(w, capacity)
       PROVE  IInv'
  BY <1>1, <1>2, <1>11, QuietStep DEF SaveForm, Idle
<1>12. ASSUME NEW w \in Sessions, NEW l \in TheLooms, CheckUnused(w, l) PROVE IInv'
  BY <1>1, <1>2, <1>12, QuietStep DEF CheckUnused
<1>13. ASSUME NEW w \in Sessions, Deactivate(w) PROVE IInv'
  BY <1>1, <1>2, <1>13, QuietStep DEF Deactivate, Idle
<1>14. ASSUME NEW w \in Sessions, Rollback(w) PROVE IInv'
  BY <1>1, <1>2, <1>14, QuietStep DEF Rollback, Idle
<1>15. CASE UNCHANGED vars
  BY <1>1, <1>2, <1>15, QuietStep DEF vars
<1>16. CASE Next
  BY <1>16, <1>3, <1>4, <1>5, <1>6, <1>7, <1>8, <1>9, <1>10, <1>11, <1>12, <1>13, <1>14,
     LoomAssumption DEF Next, LoomAssumption
<1> QED
  BY <1>15, <1>16

(* The invariant holds of every reachable state.                           *)
THEOREM Invariance == Spec => []IInv
BY InitIInv, NextStep, PTL DEF Spec

(* A key never has two rolls, however often and however concurrently a     *)
(* client repeats finishRollAndBackflush: the advisory lock suffices.      *)
THEOREM RetriesMakeOneRoll == Spec => []OneRollPerKey
<1>1. IInv => OneRollPerKey
  BY DEF IInv
<1> QED
  BY <1>1, Invariance, PTL

(* The numbers of a loom's rolls never repeat and every run counts its own *)
(* rolls, although the loom's counter is read before the run is locked.    *)
THEOREM History == Spec => []LoomHistory
<1>1. IInv => LoomHistory
  BY DEF IInv, Numbered
<1> QED
  BY <1>1, Invariance, PTL

(* No step registers a roll on a run that is not open.                     *)
THEOREM RollsOnOpenRuns == Spec => RollsBelongToOpenRuns
<1> DEFINE Open == Len(rolls') > Len(rolls) => runs[rolls'[Len(rolls')].run].open
<1>1. ASSUME IInv, [Next]_vars PROVE [Open]_vars
  <2>1. Len(rolls) \in Nat
    BY <1>1, RollsFinite DEF IInv
  <2>2. ASSUME NEW w \in Sessions, RollCommit(w) PROVE Open
    <3> DEFINE d == desk[w]
    <3>1. d.op = "roll" /\ d.locked /\ Sound(d)
      BY <1>1, <2>2 DEF RollCommit, IInv, DeskOK
    <3>2. PICK need : RollWrite(w, need)
      BY <2>2 DEF RollCommit
    <3>3. PICK loom, number, entries :
             rolls' = Append(rolls,
                [run |-> d.run, loom |-> loom, key |-> d.key, sequence |-> number,
                 need |-> need, entries |-> entries])
      BY <3>2, Zenon DEF RollWrite
    <3> DEFINE roll == [run |-> d.run, loom |-> loom, key |-> d.key, sequence |-> number,
                        need |-> need, entries |-> entries]
    <3>4. roll.run = d.run
      OBVIOUS
    <3>5. PICK S : rolls \in Seq(S)
      BY <1>1 DEF IInv, TablesOK
    <3> HIDE DEF roll
    <3>6. rolls \in Seq(S \cup {roll})
      BY <3>5, SeqMonotonic
    <3>7. rolls' = Append(rolls, roll)
      BY <3>3 DEF roll
    <3>8. rolls'[Len(rolls')] = roll
      BY <3>6, <3>7, AppendProperties
    <3> QED
      BY <3>1, <3>4, <3>8 DEF Sound
  <2>3. rolls' = rolls => Open
    BY <2>1
  <2>4. CASE UNCHANGED vars
    BY <2>4
  <2>5. CASE Next
    BY <2>5, <2>2, <2>3 DEF Next, SetMode, LoadCreel, StartRun, FinishRun, RollRead,
       RollLock, OpenForm, SaveForm, CheckUnused, Deactivate, Rollback
  <2> QED
    BY <1>1, <2>4, <2>5
<1> QED
  BY <1>1, Invariance, PTL DEF Spec, RollsBelongToOpenRuns
-----------------------------------------------------------------------------
(* The rolls are a sequence, and an entry is a number of spools.           *)
Registered ==
    /\ \E S : rolls \in Seq(S)
    /\ \A n \in DOMAIN rolls : \A i \in DOMAIN rolls[n].entries : rolls[n].entries[i] \in Nat

(* What the backflush needs: the tables are well formed, spools are where  *)
(* the genealogy says, and every roll took what its sheet needs.           *)
CreelInv == SpoolsAccounted /\ RollIsCharged /\ Registered

(* A column of hundredths is at most half a hundredth off.                 *)
LEMMA StoredNear ==
    ASSUME NEW x \in Nat
    PROVE  /\ Stored(x) \in Nat
           /\ Stored(x) <= x + 5 /\ x <= Stored(x) + 5
           /\ Stored(0) = 0
<1> DEFINE q == (x + 5) \div 10
<1>1. q \in Nat /\ 10 * q <= x + 5 /\ x + 5 <= 10 * q + 9
  OBVIOUS
<1>2. (0 + 5) \div 10 = 0
  OBVIOUS
<1> HIDE DEF q
<1>3. Stored(x) = 10 * q
  BY DEF Stored, q
<1>4. Stored(0) = 0
  BY <1>2 DEF Stored
<1>. QED
  BY <1>1, <1>3, <1>4

(* A sequence is finite, and so is every set of its indices.               *)
LEMMA SeqFinite ==
    ASSUME NEW s, NEW T, s \in Seq(T)
    PROVE  /\ Len(s) \in Nat /\ DOMAIN s = 1..Len(s)
           /\ \A i \in DOMAIN s : s[i] \in T
           /\ \A I \in SUBSET DOMAIN s : IsFiniteSet(I) /\ I \subseteq Int
<1>1. Len(s) \in Nat /\ DOMAIN s = 1..Len(s)
  OBVIOUS
<1>2. \A i \in DOMAIN s : s[i] \in T
  BY <1>1, ElementOfSeq
<1>3. IsFiniteSet(1..Len(s)) /\ 1..Len(s) \subseteq Int
  BY <1>1, FS_Interval
<1>4. ASSUME NEW I \in SUBSET DOMAIN s PROVE IsFiniteSet(I) /\ I \subseteq Int
  <2>1. IsFiniteSet(I)
    BY <1>1, <1>3, FS_Subset
  <2>. QED
    BY <1>1, <1>3, <2>1
<1>. QED
  BY <1>1, <1>2, <1>4

(* The rows of the creels are numbers of spools.                           *)
LEMMA RowsAreNumbers ==
    ASSUME TypeOK
    PROVE  /\ Len(wip) \in Nat /\ DOMAIN wip = 1..Len(wip)
           /\ \A i \in DOMAIN wip : /\ wip[i] \in RowType
                                    /\ Remaining[i] = wip[i].remaining /\ Remaining[i] \in Nat
                                    /\ Received[i] = wip[i].received /\ Received[i] \in Nat
           /\ \A I \in SUBSET DOMAIN wip : /\ IsFiniteSet(I) /\ I \subseteq Int
                                           /\ Left(I) \in Nat
<1>1. wip \in Seq(RowType)
  BY DEF TypeOK
<1>2. /\ Len(wip) \in Nat /\ DOMAIN wip = 1..Len(wip)
      /\ \A i \in DOMAIN wip : wip[i] \in RowType
      /\ \A I \in SUBSET DOMAIN wip : IsFiniteSet(I) /\ I \subseteq Int
  BY <1>1, SeqFinite
<1>3. \A i \in DOMAIN wip : /\ Remaining[i] = wip[i].remaining /\ Remaining[i] \in Nat
                            /\ Received[i] = wip[i].received /\ Received[i] \in Nat
  BY <1>2 DEF Remaining, Received, RowType
<1>4. ASSUME NEW I \in SUBSET DOMAIN wip PROVE Left(I) \in Nat
  <2>1. IsFiniteSet(I) /\ \A i \in I : Remaining[i] \in Nat
    BY <1>2, <1>3
  <2>. QED
    BY <2>1, TotalNat DEF Left
<1>. QED
  BY <1>2, <1>3, <1>4

(* What the open request of a session holds.                               *)
LEMMA DeskTypes ==
    ASSUME TypeOK, NEW w \in Sessions
    PROVE  /\ desk[w].op = "roll" =>
                /\ desk[w] \in [op : {"roll"}, key : Keys, run : DOMAIN runs,
                                locked : BOOLEAN, spools : Nat, total : Nat]
                /\ desk[w].run \in DOMAIN runs /\ desk[w].key \in Keys
                /\ desk[w].spools \in Nat /\ desk[w].total \in Nat
           /\ desk[w].op = "form" =>
                /\ desk[w].loom \in TheLooms /\ desk[w].row \in LoomType
           /\ desk[w].op = "deactivate" => desk[w].loom \in TheLooms
<1>1. desk[w] \in DeskType
  BY DEF TypeOK
<1>. QED
  BY <1>1 DEF DeskType, Idle

-----------------------------------------------------------------------------
(* Steps that leave the spools alone.                                      *)
LEMMA SameSpools ==
    ASSUME CreelInv, TypeOK', rolls' = rolls, wip' = wip, racks' = racks, traced' = traced
    PROVE  CreelInv'
<1>1. \A i : Entries(i)' = Entries(i)
  BY DEF Entries
<1>2. \A i : Given(i)' = Given(i)
  BY <1>1 DEF Given
<1>3. \A r : FromRack(r)' = FromRack(r)
  BY DEF FromRack
<1>4. Received' = Received
  BY DEF Received
<1>5. SpoolsAccounted'
  BY <1>1, <1>2, <1>3, <1>4 DEF CreelInv, SpoolsAccounted
<1>6. RollIsCharged'
  BY DEF CreelInv, RollIsCharged, ChargedRight, Charged, EntriesOf
<1>7. Registered'
  BY DEF CreelInv, Registered
<1>. QED
  BY <1>5, <1>6, <1>7 DEF CreelInv

(* Types are kept by a step that only changes the desk.                    *)
LEMMA DeskTypeKept ==
    ASSUME TypeOK, rolls' = rolls, wip' = wip, racks' = racks, traced' = traced,
           mode' \in Modes, runs' = runs, looms' \in [TheLooms -> LoomType],
           NEW w \in Sessions, NEW d \in DeskType, desk' = [desk EXCEPT ![w] = d]
    PROVE  TypeOK'
<1>1. desk' \in [Sessions -> DeskType]
  BY DEF TypeOK
<1>2. DeskType' = DeskType
  BY DEF DeskType
<1>. QED
  BY <1>1, <1>2 DEF TypeOK

(* No row of the tables of spools and rolls changes.                       *)
LEMMA TypesKept ==
    ASSUME TypeOK, rolls' = rolls, wip' = wip, racks' = racks, traced' = traced,
           mode' \in Modes, runs' = runs, looms' \in [TheLooms -> LoomType], desk' = desk
    PROVE  TypeOK'
<1>2. DeskType' = DeskType
  BY DEF DeskType
<1>. QED
  BY <1>2 DEF TypeOK

(* Nothing has left the racks when the behaviour starts.                   *)
LEMMA CreelInit == Init => CreelInv
<1> SUFFICES ASSUME Init PROVE CreelInv
  OBVIOUS
<1>1. wip = <<>> /\ runs = <<>> /\ rolls = <<>>
  BY DEF Init
<1>2. DOMAIN wip = {} /\ DOMAIN rolls = {}
  BY <1>1
<1>3. TypeOK
  <2>1. racks \in [Racks -> Nat] /\ traced \in [Traced -> Nat] /\ mode \in Modes
    BY LoomAssumption DEF Init, LoomAssumption, Spool
  <2>2. looms \in [TheLooms -> LoomType]
    <3>1. looms \in [TheLooms -> [spools : {0}, total : {0}, capacity : Capacities,
                     status : {"DISPONIBLE"}, bom : {NoBom}, active : {TRUE}]]
      BY DEF Init
    <3>2. Capacities \subseteq Nat
      BY LoomAssumption DEF LoomAssumption
    <3>3. \A x \in [spools : {0}, total : {0}, capacity : Capacities,
                    status : {"DISPONIBLE"}, bom : {NoBom}, active : {TRUE}] : x \in LoomType
      <4> SUFFICES ASSUME NEW x \in [spools : {0}, total : {0}, capacity : Capacities,
                              status : {"DISPONIBLE"}, bom : {NoBom}, active : {TRUE}]
                   PROVE  x \in LoomType
        OBVIOUS
      <4>1. /\ x.spools \in Nat /\ x.total \in Nat /\ x.capacity \in Nat
            /\ x.status \in {"DISPONIBLE", "EN_PRODUCCION", "DETENIDO"}
            /\ x.bom \in Boms \cup {NoBom} /\ x.active \in BOOLEAN
        <5>1. x.capacity \in Nat
          BY <3>2
        <5>2. x.spools = 0 /\ x.total = 0 /\ x.status = "DISPONIBLE" /\ x.bom = NoBom
          OBVIOUS
        <5>3. x.active \in BOOLEAN
          BY Zenon
        <5>. QED
          BY <5>1, <5>2, <5>3
      <4>2. x = [spools |-> x.spools, total |-> x.total, capacity |-> x.capacity,
                 status |-> x.status, bom |-> x.bom, active |-> x.active]
        OBVIOUS
      <4>. QED
        BY <4>1, <4>2 DEF LoomType
    <3>. QED
      BY <3>1, <3>3
  <2>3. wip \in Seq(RowType) /\ runs \in Seq(RunType)
    BY <1>1
  <2>4. desk \in [Sessions -> DeskType]
    BY DEF Init, DeskType
  <2>. QED
    BY <1>2, <2>1, <2>2, <2>3, <2>4 DEF TypeOK
<1>4. \A r \in Racks : Total(Received, FromRack(r)) = 0
  <2>1. \A r : FromRack(r) = {}
    BY <1>2 DEF FromRack
  <2>. QED
    BY <2>1, TotalEmpty
<1>5. SpoolsAccounted
  <2>1. \A r \in Racks : Spool * InRack[r] = racks[r] + Total(Received, FromRack(r))
    BY <1>4, LoomAssumption DEF Init, LoomAssumption, Spool
  <2>2. \A r \in Traced : traced[r] = racks[r]
    BY LoomAssumption DEF Init, LoomAssumption
  <2>. QED
    BY <1>2, <1>3, <2>1, <2>2 DEF SpoolsAccounted
<1>6. Registered
  <2>1. rolls \in Seq({})
    BY <1>1
  <2>. QED
    BY <1>2, <2>1 DEF Registered
<1>. QED
  BY <1>2, <1>5, <1>6 DEF CreelInv, RollIsCharged

(* The requests that read or write the desk, a run or the loom's row.      *)
LEMMA QuietCreel ==
    ASSUME CreelInv,
           \/ \E m \in Modes : SetMode(m)
           \/ \E l \in TheLooms, b \in Boms : StartRun(l, b)
           \/ \E k \in DOMAIN runs : FinishRun(k)
           \/ \E w \in Sessions, key \in Keys, k \in DOMAIN runs : RollRead(w, key, k)
           \/ \E w \in Sessions : RollLock(w)
           \/ \E w \in Sessions, l \in TheLooms : OpenForm(w, l)
           \/ \E w \in Sessions, capacity \in Capacities : SaveForm(w, capacity)
           \/ \E w \in Sessions, l \in TheLooms : CheckUnused(w, l)
           \/ \E w \in Sessions : Deactivate(w)
           \/ \E w \in Sessions : Rollback(w)
           \/ UNCHANGED vars
    PROVE  CreelInv'
<1>1. TypeOK
  BY DEF CreelInv, SpoolsAccounted
<1>2. /\ looms \in [TheLooms -> LoomType] /\ mode \in Modes /\ runs \in Seq(RunType)
      /\ desk \in [Sessions -> DeskType]
  BY <1>1 DEF TypeOK
<1>3. Idle \in DeskType
  BY DEF DeskType
<1>4. /\ Len(runs) \in Nat /\ DOMAIN runs = 1..Len(runs)
      /\ \A k \in DOMAIN runs : runs[k] \in RunType /\ runs[k].loom \in TheLooms
  <2>1. /\ Len(runs) \in Nat /\ DOMAIN runs = 1..Len(runs)
        /\ \A k \in DOMAIN runs : runs[k] \in RunType
    BY <1>2, SeqFinite
  <2>. QED
    BY <2>1 DEF RunType
<1>5. \A l \in TheLooms : /\ looms[l] \in LoomType
                          /\ looms[l].spools \in Nat /\ looms[l].total \in Nat
  BY <1>2 DEF LoomType
<1>6. ASSUME NEW m \in Modes, SetMode(m) PROVE CreelInv'
  <2>1. TypeOK'
    BY <1>1, <1>2, <1>6, TypesKept DEF SetMode
  <2>. QED
    BY <1>6, <2>1, SameSpools DEF SetMode
<1>7. ASSUME NEW l \in TheLooms, NEW b \in Boms, StartRun(l, b) PROVE CreelInv'
  <2> DEFINE run == [loom |-> l, bom |-> b, open |-> TRUE, produced |-> 0]
  <2>1. /\ runs' = Append(runs, run)
        /\ mode' = mode /\ racks' = racks /\ traced' = traced /\ wip' = wip
        /\ rolls' = rolls /\ desk' = desk
        /\ looms' = [looms EXCEPT ![l].status = "EN_PRODUCCION", ![l].bom = b]
    BY <1>7 DEF StartRun
  <2>2. run \in RunType
    BY DEF RunType
  <2> HIDE DEF run
  <2>3. /\ runs' \in Seq(RunType) /\ DOMAIN runs \subseteq DOMAIN runs'
        /\ \A k \in DOMAIN runs : runs'[k] = runs[k]
    BY <1>2, <1>4, <2>1, <2>2, AppendProperties
  <2>4. looms' \in [TheLooms -> LoomType]
    <3> DEFINE row == [looms[l] EXCEPT !.status = "EN_PRODUCCION", !.bom = b]
    <3>1. row \in LoomType
      BY <1>5 DEF LoomType
    <3>2. looms' = [looms EXCEPT ![l] = row]
      BY <1>2, <2>1
    <3> HIDE DEF row
    <3>. QED
      BY <1>2, <3>1, <3>2
  <2>5. DeskType \subseteq DeskType'
    BY <2>3 DEF DeskType
  <2>6. TypeOK'
    BY <1>1, <2>1, <2>3, <2>4, <2>5 DEF TypeOK
  <2>. QED
    BY <2>1, <2>6, SameSpools
<1>8. ASSUME NEW k \in DOMAIN runs, FinishRun(k) PROVE CreelInv'
  <2> DEFINE run == [runs[k] EXCEPT !.open = FALSE]
             l == runs[k].loom
  <2>1. /\ runs' = [runs EXCEPT ![k] = run]
        /\ mode' = mode /\ racks' = racks /\ traced' = traced /\ wip' = wip
        /\ rolls' = rolls /\ desk' = desk
        /\ looms' = [looms EXCEPT ![l].status = "DISPONIBLE"]
    BY <1>8 DEF FinishRun
  <2>2. run \in RunType /\ run.loom = runs[k].loom
    BY <1>4 DEF RunType
  <2>3. l \in TheLooms
    BY <1>4
  <2> HIDE DEF run, l
  <2>4. /\ runs' \in Seq(RunType) /\ DOMAIN runs = DOMAIN runs'
        /\ \A j \in DOMAIN runs : runs'[j].loom = runs[j].loom
    <3>1. /\ runs' \in Seq(RunType) /\ Len(runs') = Len(runs)
          /\ \A j \in 1..Len(runs) : runs'[j] = IF j = k THEN run ELSE runs[j]
      BY <1>2, <1>4, <2>1, <2>2, ExceptSeq
    <3>. QED
      BY <1>4, <2>2, <3>1
  <2>5. looms' \in [TheLooms -> LoomType]
    <3> DEFINE row == [looms[l] EXCEPT !.status = "DISPONIBLE"]
    <3>1. row \in LoomType
      BY <1>5, <2>3 DEF LoomType
    <3>2. looms' = [looms EXCEPT ![l] = row]
      BY <1>2, <2>1
    <3> HIDE DEF row
    <3>. QED
      BY <1>2, <3>1, <3>2
  <2>6. DeskType = DeskType'
    BY <2>4 DEF DeskType
  <2>7. TypeOK'
    BY <1>1, <2>1, <2>4, <2>5, <2>6 DEF TypeOK
  <2>. QED
    BY <2>1, <2>7, SameSpools
<1>9. ASSUME NEW w \in Sessions, NEW key \in Keys, NEW k \in DOMAIN runs, RollRead(w, key, k)
      PROVE  CreelInv'
  <2> DEFINE d == [op |-> "roll", key |-> key, run |-> k, locked |-> FALSE,
                   spools |-> looms[runs[k].loom].spools,
                   total |-> looms[runs[k].loom].total]
  <2>1. d \in DeskType
    BY <1>4, <1>5 DEF DeskType
  <2>2. desk' = [desk EXCEPT ![w] = d]
    BY <1>9 DEF RollRead
  <2> HIDE DEF d
  <2>3. TypeOK'
    BY <1>1, <1>2, <1>9, <2>1, <2>2, DeskTypeKept DEF RollRead
  <2>. QED
    BY <1>9, <2>3, SameSpools DEF RollRead
<1>10. ASSUME NEW w \in Sessions, RollLock(w)
      PROVE  CreelInv'
  <2> DEFINE d == [desk[w] EXCEPT !.locked = TRUE]
  <2>1. d \in DeskType
    <3>1. desk[w] \in [op : {"roll"}, key : Keys, run : DOMAIN runs,
                       locked : BOOLEAN, spools : Nat, total : Nat]
      BY <1>1, <1>10, DeskTypes DEF RollLock
    <3>. QED
      BY <3>1 DEF DeskType
  <2>2. desk' = [desk EXCEPT ![w] = d]
    BY <1>2, <1>10 DEF RollLock
  <2> HIDE DEF d
  <2>3. TypeOK'
    BY <1>1, <1>2, <1>10, <2>1, <2>2, DeskTypeKept DEF RollLock
  <2>. QED
    BY <1>10, <2>3, SameSpools DEF RollLock
<1>11. ASSUME NEW w \in Sessions, NEW l \in TheLooms, OpenForm(w, l)
      PROVE  CreelInv'
  <2> DEFINE d == [op |-> "form", loom |-> l, row |-> looms[l]]
  <2>1. d \in DeskType
    BY <1>5 DEF DeskType
  <2>2. desk' = [desk EXCEPT ![w] = d]
    BY <1>11 DEF OpenForm
  <2> HIDE DEF d
  <2>3. TypeOK'
    BY <1>1, <1>2, <1>11, <2>1, <2>2, DeskTypeKept DEF OpenForm
  <2>. QED
    BY <1>11, <2>3, SameSpools DEF OpenForm
<1>12. ASSUME NEW w \in Sessions, NEW capacity \in Capacities, SaveForm(w, capacity)
      PROVE  CreelInv'
  <2> DEFINE l == desk[w].loom
             read == desk[w].row
             row == [looms[l] EXCEPT !.spools = read.spools, !.status = read.status,
                                     !.active = read.active, !.capacity = capacity]
  <2>1. l \in TheLooms /\ read \in LoomType /\ capacity \in Nat
    BY <1>1, <1>12, DeskTypes, LoomAssumption DEF SaveForm, LoomAssumption
  <2>2. /\ looms' = [looms EXCEPT
              ![l].spools = read.spools, ![l].status = read.status,
              ![l].active = read.active, ![l].capacity = capacity]
        /\ desk' = [desk EXCEPT ![w] = Idle]
        /\ mode' = mode /\ racks' = racks /\ traced' = traced /\ wip' = wip
        /\ rolls' = rolls /\ runs' = runs
    BY <1>12 DEF SaveForm
  <2> HIDE DEF l, read
  <2>3. row \in LoomType
    BY <1>5, <2>1 DEF LoomType
  <2>4. looms' = [looms EXCEPT ![l] = row]
    BY <1>2, <2>1, <2>2
  <2> HIDE DEF row
  <2>5. looms' \in [TheLooms -> LoomType]
    BY <1>2, <2>3, <2>4
  <2>6. TypeOK'
    BY <1>1, <1>2, <1>3, <2>2, <2>5, DeskTypeKept
  <2>. QED
    BY <2>2, <2>6, SameSpools
<1>13. ASSUME NEW w \in Sessions, NEW l \in TheLooms, CheckUnused(w, l)
      PROVE  CreelInv'
  <2> DEFINE d == [op |-> "deactivate", loom |-> l]
  <2>1. d \in DeskType
    BY DEF DeskType
  <2>2. desk' = [desk EXCEPT ![w] = d]
    BY <1>13 DEF CheckUnused
  <2> HIDE DEF d
  <2>3. TypeOK'
    BY <1>1, <1>2, <1>13, <2>1, <2>2, DeskTypeKept DEF CheckUnused
  <2>. QED
    BY <1>13, <2>3, SameSpools DEF CheckUnused
<1>14. ASSUME NEW w \in Sessions, Deactivate(w)
      PROVE  CreelInv'
  <2> DEFINE l == desk[w].loom
             row == [looms[l] EXCEPT !.active = FALSE, !.status = "DETENIDO"]
  <2>1. l \in TheLooms
    BY <1>1, <1>14, DeskTypes DEF Deactivate
  <2>2. /\ looms' = [looms EXCEPT ![l].active = FALSE, ![l].status = "DETENIDO"]
        /\ desk' = [desk EXCEPT ![w] = Idle]
        /\ mode' = mode /\ racks' = racks /\ traced' = traced /\ wip' = wip
        /\ rolls' = rolls /\ runs' = runs
    BY <1>14 DEF Deactivate
  <2> HIDE DEF l
  <2>3. row \in LoomType
    BY <1>5, <2>1 DEF LoomType
  <2>4. looms' = [looms EXCEPT ![l] = row]
    BY <1>2, <2>1, <2>2
  <2> HIDE DEF row
  <2>5. looms' \in [TheLooms -> LoomType]
    BY <1>2, <2>3, <2>4
  <2>6. TypeOK'
    BY <1>1, <1>2, <1>3, <2>2, <2>5, DeskTypeKept
  <2>. QED
    BY <2>2, <2>6, SameSpools
<1>15. ASSUME NEW w \in Sessions, Rollback(w)
      PROVE  CreelInv'
  <2>1. TypeOK'
    BY <1>1, <1>2, <1>3, <1>15, DeskTypeKept DEF Rollback
  <2>. QED
    BY <1>15, <2>1, SameSpools DEF Rollback
<1>16. CASE UNCHANGED vars
  <2>1. TypeOK'
    BY <1>1, <1>2, <1>16, TypesKept DEF vars
  <2>. QED
    BY <1>16, <2>1, SameSpools DEF vars
<1>. QED
  BY <1>6, <1>7, <1>8, <1>9, <1>10, <1>11, <1>12, <1>13, <1>14, <1>15, <1>16

-----------------------------------------------------------------------------
(* Spools leave a rack for a new row of a creel.                           *)
LEMMA LoadKeepsCreel ==
    ASSUME CreelInv, NEW l \in TheLooms, NEW r \in Racks, NEW n \in Nat, LoadCreel(l, r, n)
    PROVE  CreelInv'
<1> DEFINE row == [loom |-> l, rack |-> r, received |-> n, remaining |-> n]
           new == Len(wip) + 1
           shelf == [looms[l] EXCEPT !.spools = @ + n]
<1>1. /\ TypeOK
      /\ looms \in [TheLooms -> LoomType] /\ wip \in Seq(RowType)
      /\ racks \in [Racks -> Nat] /\ traced \in [Traced -> Nat]
  BY DEF CreelInv, SpoolsAccounted, TypeOK
<1>2. /\ Len(wip) \in Nat /\ DOMAIN wip = 1..Len(wip)
      /\ \A i \in DOMAIN wip : Received[i] = wip[i].received /\ Received[i] \in Nat
      /\ \A I \in SUBSET DOMAIN wip : IsFiniteSet(I)
  BY <1>1, RowsAreNumbers
<1>3. /\ n <= racks[r] /\ (r \in Traced => n <= traced[r])
      /\ racks' = [racks EXCEPT ![r] = @ - n]
      /\ traced' = [q \in Traced |-> IF q = r THEN traced[q] - n ELSE traced[q]]
      /\ looms' = [looms EXCEPT ![l].spools = @ + n]
      /\ wip' = Append(wip, row)
      /\ mode' = mode /\ runs' = runs /\ rolls' = rolls /\ desk' = desk
  BY DEF LoadCreel, InStock
<1>4. /\ row \in RowType /\ row.rack = r /\ row.loom = l
      /\ row.received = n /\ row.remaining = n
  BY DEF RowType
<1> HIDE DEF row
<1>5. /\ wip' \in Seq(RowType) /\ DOMAIN wip' = DOMAIN wip \cup {new}
      /\ new \notin DOMAIN wip
      /\ \A i \in DOMAIN wip : wip'[i] = wip[i]
      /\ wip'[new] = row
  <2>1. /\ wip' \in Seq(RowType) /\ Len(wip') = new
        /\ \A i \in 1..Len(wip) : wip'[i] = wip[i]
        /\ wip'[new] = row
    BY <1>1, <1>3, <1>4, AppendProperties
  <2>2. DOMAIN wip' = 1..new
    BY <2>1
  <2>. QED
    BY <1>2, <2>1, <2>2
<1>6. looms' \in [TheLooms -> LoomType]
  <2>1. shelf \in LoomType
    <3>1. looms[l] \in LoomType
      BY <1>1
    <3>. QED
      BY <3>1 DEF LoomType
  <2>2. looms' = [looms EXCEPT ![l] = shelf]
    BY <1>1, <1>3
  <2> HIDE DEF shelf
  <2>. QED
    BY <1>1, <2>1, <2>2
<1>7. \A q \in Racks : racks'[q] = IF q = r THEN racks[q] - n ELSE racks[q]
  BY <1>1, <1>3
<1>8. racks' \in [Racks -> Nat] /\ traced' \in [Traced -> Nat]
  BY <1>1, <1>3
<1>9. \A q \in Traced : traced'[q] = racks'[q]
  <2>1. \A q \in Traced : traced[q] = racks[q]
    BY DEF CreelInv, SpoolsAccounted
  <2>2. Traced \subseteq Racks
    BY LoomAssumption DEF LoomAssumption
  <2>. QED
    BY <1>3, <1>7, <2>1, <2>2
<1>10. DeskType' = DeskType
  BY <1>3 DEF DeskType
<1>11. TypeOK'
  <2>1. \A m \in DOMAIN rolls : DOMAIN rolls[m].entries \subseteq DOMAIN wip'
    BY <1>1, <1>5 DEF TypeOK
  <2>. QED
    BY <1>1, <1>3, <1>5, <1>6, <1>8, <1>10, <2>1 DEF TypeOK
<1>12. \A i : Entries(i)' = Entries(i) /\ Given(i)' = Given(i)
  BY <1>3 DEF Entries, Given
<1>13. \A i \in DOMAIN wip' : /\ wip'[i].remaining + Given(i)
                                    <= wip'[i].received + 10 * Cardinality(Entries(i))
                              /\ wip'[i].received
                                    <= wip'[i].remaining + Given(i)
                                         + 10 * Cardinality(Entries(i))
  <2>1. ASSUME NEW i \in DOMAIN wip
        PROVE  /\ wip[i].remaining + Given(i)
                    <= wip[i].received + 10 * Cardinality(Entries(i))
               /\ wip[i].received
                    <= wip[i].remaining + Given(i) + 10 * Cardinality(Entries(i))
    BY DEF CreelInv, SpoolsAccounted
  <2>2. Entries(new) = {}
    BY <1>1, <1>5 DEF Entries, TypeOK
  <2>3. Given(new) = 0 /\ Cardinality(Entries(new)) = 0
    BY <2>2, TotalEmpty, FS_EmptySet DEF Given
  <2>. QED
    BY <1>4, <1>5, <2>1, <2>3
<1>14. \A q \in Racks : Spool * InRack[q] = racks'[q] + Total(Received', FromRack(q)')
  <2> SUFFICES ASSUME NEW q \in Racks
               PROVE  Spool * InRack[q] = racks'[q] + Total(Received', FromRack(q)')
    OBVIOUS
  <2>1. Spool * InRack[q] = racks[q] + Total(Received, FromRack(q))
    BY DEF CreelInv, SpoolsAccounted
  <2>2. Received' = [i \in DOMAIN wip' |-> wip'[i].received]
    BY DEF Received
  <2>3. (\A i \in DOMAIN wip : Received'[i] = Received[i]) /\ Received'[new] = n
    BY <1>2, <1>4, <1>5, <2>2
  <2>4. FromRack(q) \in SUBSET DOMAIN wip
    BY DEF FromRack
  <2>5. IsFiniteSet(FromRack(q)) /\ \A i \in FromRack(q) : Received[i] \in Nat
    BY <1>2, <2>4
  <2>6. Total(Received, FromRack(q)) \in Nat
    BY <2>5, TotalNat
  <2>7. Total(Received', FromRack(q)) = Total(Received, FromRack(q))
    <3>1. \A i \in FromRack(q) : Received'[i] = Received[i]
      BY <2>3, <2>4
    <3>. QED
      BY <2>5, <3>1, TotalEqual
  <2>8. CASE q = r
    <3>1. FromRack(q)' = FromRack(q) \cup {new}
      BY <1>4, <1>5, <2>8 DEF FromRack
    <3>2. new \notin FromRack(q)
      BY <1>5, <2>4
    <3>3. \A i \in FromRack(q) \cup {new} : Received'[i] \in Int
      BY <2>3, <2>4, <2>5
    <3>4. Total(Received', FromRack(q) \cup {new})
             = Received'[new] + Total(Received', FromRack(q))
      BY <2>5, <3>2, <3>3, TotalAdd
    <3>. QED
      BY <1>1, <1>3, <1>7, <2>1, <2>3, <2>6, <2>7, <2>8, <3>1, <3>4
  <2>9. CASE q # r
    <3>1. FromRack(q)' = FromRack(q)
      BY <1>4, <1>5, <2>9 DEF FromRack
    <3>. QED
      BY <1>7, <2>1, <2>7, <2>9, <3>1
  <2>. QED
    BY <2>8, <2>9
<1>15. SpoolsAccounted'
  BY <1>9, <1>11, <1>12, <1>13, <1>14 DEF SpoolsAccounted
<1>16. RollIsCharged'
  <2> SUFFICES ASSUME NEW m \in DOMAIN rolls
               PROVE  ChargedRight(rolls[m])'
    BY <1>3 DEF RollIsCharged
  <2>1. ChargedRight(rolls[m])
    BY DEF CreelInv, RollIsCharged
  <2>2. \A i \in DOMAIN rolls[m].entries : wip'[i] = wip[i]
    BY <1>1, <1>5 DEF TypeOK
  <2>3. \A p : EntriesOf(rolls[m], p)' = EntriesOf(rolls[m], p)
    BY <1>3, <2>2 DEF EntriesOf
  <2>. QED
    BY <1>3, <2>1, <2>2, <2>3 DEF ChargedRight, Charged
<1>17. Registered'
  BY <1>3 DEF CreelInv, Registered
<1>. QED
  BY <1>15, <1>16, <1>17 DEF CreelInv

-----------------------------------------------------------------------------
(* The backflush of a roll: the rows it looks at, what each gives, and the *)
(* rows that give something.                                               *)
Offered(l, need) ==
    {i \in DOMAIN wip : wip[i].loom = l /\ PtiOf[wip[i].rack] \in DOMAIN need}
Parts(l, need) == [i \in Offered(l, need) |-> Gives(i, need[PtiOf[wip[i].rack]])]
Takes(l, need) == {i \in Offered(l, need) : Parts(l, need)[i] > 0}

(* The rows of one PTI give, oldest first, portions of what it needs.      *)
LEMMA GivesPortion ==
    ASSUME TypeOK, NEW l, NEW p, NEW i \in RowsOf(l, p), NEW d \in Nat
    PROVE  Gives(i, d) = Portion(Remaining, RowsOf(l, p), d, i)
<1>1. RowsOf(l, p) \in SUBSET DOMAIN wip
  BY DEF RowsOf
<1>2. Older(i) = Earlier(RowsOf(l, p), i)
  BY DEF Older, Earlier, RowsOf
<1>3. Earlier(RowsOf(l, p), i) \in SUBSET DOMAIN wip
  BY <1>1 DEF Earlier
<1>4. Left(Older(i)) \in Nat
  BY <1>2, <1>3, RowsAreNumbers
<1>5. Remaining[i] = wip[i].remaining /\ Remaining[i] \in Nat
  BY <1>1, RowsAreNumbers
<1>. QED
  BY <1>2, <1>4, <1>5 DEF Gives, Smaller, Less, Portion, Left

(* What the rows give to a roll that its creel covers.                     *)
LEMMA PartsBounds ==
    ASSUME TypeOK, NEW l, NEW need, \A p \in DOMAIN need : need[p] \in Nat
    PROVE  /\ \A i \in Offered(l, need) :
                /\ Parts(l, need)[i] \in Nat
                /\ Parts(l, need)[i] <= wip[i].remaining
                /\ Parts(l, need)[i] > 0 =>
                      \A j \in RowsOf(l, PtiOf[wip[i].rack]) :
                          j < i => j \in Offered(l, need)
                                   /\ Parts(l, need)[j] = wip[j].remaining
           /\ Covers(l, need) =>
                \A p \in DOMAIN need :
                    /\ RowsOf(l, p) \subseteq Offered(l, need)
                    /\ Total(Parts(l, need), RowsOf(l, p)) = need[p]
<1>1. \A p \in DOMAIN need : RowsOf(l, p) \subseteq Offered(l, need)
  BY DEF RowsOf, Offered
<1>2. ASSUME NEW p \in DOMAIN need
      PROVE  /\ IsFiniteSet(RowsOf(l, p)) /\ RowsOf(l, p) \subseteq Int
             /\ \A i \in RowsOf(l, p) : /\ Remaining[i] = wip[i].remaining
                                        /\ Remaining[i] \in Nat
                                        /\ PtiOf[wip[i].rack] = p
  <2>1. RowsOf(l, p) \in SUBSET DOMAIN wip
    BY DEF RowsOf
  <2>2. \A i \in RowsOf(l, p) : PtiOf[wip[i].rack] = p
    BY DEF RowsOf
  <2>. QED
    BY <2>1, <2>2, RowsAreNumbers
<1>3. ASSUME NEW p \in DOMAIN need, NEW i \in RowsOf(l, p)
      PROVE  Parts(l, need)[i] = Portion(Remaining, RowsOf(l, p), need[p], i)
  <2>1. i \in Offered(l, need) /\ PtiOf[wip[i].rack] = p
    BY <1>1, <1>2
  <2>2. Parts(l, need)[i] = Gives(i, need[p])
    BY <2>1 DEF Parts
  <2>3. need[p] \in Nat
    OBVIOUS
  <2>. QED
    BY <2>2, <2>3, GivesPortion
<1>4. ASSUME NEW i \in Offered(l, need)
      PROVE  /\ Parts(l, need)[i] \in Nat
             /\ Parts(l, need)[i] <= wip[i].remaining
             /\ Parts(l, need)[i] > 0 =>
                   \A j \in RowsOf(l, PtiOf[wip[i].rack]) :
                       j < i => j \in Offered(l, need)
                                /\ Parts(l, need)[j] = wip[j].remaining
  <2> DEFINE p == PtiOf[wip[i].rack]
             S == RowsOf(l, p)
  <2>1. p \in DOMAIN need /\ i \in S
    BY DEF Offered, RowsOf
  <2> HIDE DEF p
  <2>2. /\ IsFiniteSet(S) /\ S \subseteq Int /\ need[p] \in Nat
        /\ \A j \in S : Remaining[j] = wip[j].remaining /\ Remaining[j] \in Nat
    BY <1>2, <2>1
  <2>3. \A j \in S : Parts(l, need)[j] = Portion(Remaining, S, need[p], j)
    BY <1>3, <2>1
  <2>4. S \subseteq Offered(l, need)
    BY <1>1, <2>1
  <2> HIDE DEF S
  <2>5. /\ Portion(Remaining, S, need[p], i) \in Nat
        /\ Portion(Remaining, S, need[p], i) <= Remaining[i]
        /\ Portion(Remaining, S, need[p], i) > 0 =>
              \A j \in Earlier(S, i) : Portion(Remaining, S, need[p], j) = Remaining[j]
    <3>1. \A j \in S : Remaining[j] \in Nat
      BY <2>2
    <3>2. IsFiniteSet(S) /\ S \subseteq Int /\ need[p] \in Nat /\ i \in S
      BY <2>1, <2>2
    <3>. QED
      BY <3>1, <3>2, PortionBounds
  <2>6. Parts(l, need)[i] > 0 =>
           \A j \in S : j < i => j \in Offered(l, need)
                                 /\ Parts(l, need)[j] = wip[j].remaining
    BY <2>1, <2>2, <2>3, <2>4, <2>5 DEF Earlier
  <2>. QED
    BY <2>1, <2>2, <2>3, <2>5, <2>6 DEF S, p
<1>5. ASSUME Covers(l, need), NEW p \in DOMAIN need
      PROVE  Total(Parts(l, need), RowsOf(l, p)) = need[p]
  <2> DEFINE S == RowsOf(l, p)
             g == Portions(Remaining, S, need[p])
  <2>1. /\ IsFiniteSet(S) /\ S \subseteq Int /\ need[p] \in Nat
        /\ \A j \in S : Remaining[j] \in Nat
    BY <1>2
  <2>2. need[p] <= Total(Remaining, S)
    BY <1>5 DEF Covers, Left
  <2>3. \A j \in S : Parts(l, need)[j] = g[j]
    BY <1>3 DEF Portions
  <2> HIDE DEF S
  <2>4. Total(g, S) = need[p]
    BY <2>1, <2>2, PortionsSum
  <2> HIDE DEF g
  <2>5. Total(Parts(l, need), S) = Total(g, S)
    BY <2>1, <2>3, TotalEqual
  <2>. QED
    BY <2>4, <2>5 DEF S
<1>. QED
  BY <1>1, <1>4, <1>5

(* What a registration writes.                                             *)
Aggregate(w, l, need) ==
    Stored(Less(desk[w].spools, Total(Parts(l, need), Offered(l, need))))
RollOf(w, l, need) ==
    [run |-> desk[w].run, loom |-> l, key |-> desk[w].key,
     sequence |-> NextSequence(desk[w].total, l), need |-> need,
     entries |-> [i \in Takes(l, need) |-> Stored(Parts(l, need)[i])]]
(* What the commit of a roll writes, row by row of the creel.              *)
LEMMA RollWrites ==
    ASSUME NEW w \in Sessions, NEW need, NEW l, l = runs[desk[w].run].loom, RollWrite(w, need)
    PROVE  /\ Covers(l, need)
           /\ wip' = [i \in DOMAIN wip |->
                  IF i \in Takes(l, need)
                  THEN [wip[i] EXCEPT !.remaining = RowLeft(@, Parts(l, need)[i])]
                  ELSE wip[i]]
           /\ rolls' = Append(rolls, RollOf(w, l, need))
           /\ looms' = [looms EXCEPT ![l].spools = Aggregate(w, l, need),
                                     ![l].total = NextSequence(desk[w].total, l)]
           /\ runs' = [runs EXCEPT ![desk[w].run].produced = @ + 1]
           /\ desk' = [desk EXCEPT ![w] = Idle]
           /\ mode' = mode /\ racks' = racks /\ traced' = traced
<1>1. Covers(l, need)
  BY DEF RollWrite
<1>2. wip' = [i \in DOMAIN wip |->
                  IF i \in Takes(l, need)
                  THEN [wip[i] EXCEPT !.remaining = RowLeft(@, Parts(l, need)[i])]
                  ELSE wip[i]]
  BY Zenon DEF RollWrite, Parts, Takes, Offered
<1>3. rolls' = Append(rolls, RollOf(w, l, need))
  BY Zenon DEF RollWrite, Parts, Takes, Offered, RollOf
<1>4. looms' = [looms EXCEPT ![l].spools = Aggregate(w, l, need),
                             ![l].total = NextSequence(desk[w].total, l)]
  BY Zenon DEF RollWrite, Parts, Offered, Aggregate
<1>5. /\ runs' = [runs EXCEPT ![desk[w].run].produced = @ + 1]
      /\ desk' = [desk EXCEPT ![w] = Idle]
      /\ mode' = mode /\ racks' = racks /\ traced' = traced
  BY DEF RollWrite
<1>. QED
  BY <1>1, <1>2, <1>3, <1>4, <1>5

(* A backflush moves spools from rows to entries: up to a hundredth of     *)
(* each row is lost or made by the rounding of the two columns.            *)
LEMMA RollKeepsCreel ==
    ASSUME CreelInv, IInv, NEW w \in Sessions, desk[w].op = "roll",
           NEW need \in Needs(runs[desk[w].run].bom), RollWrite(w, need)
    PROVE  CreelInv'
<1> DEFINE k == desk[w].run
           l == runs[k].loom
           given == Parts(l, need)
           taken == Takes(l, need)
           spools == Aggregate(w, l, need)
           number == NextSequence(desk[w].total, l)
           roll == RollOf(w, l, need)
           new == Len(rolls) + 1
           run == [runs[k] EXCEPT !.produced = @ + 1]
           row == [looms[l] EXCEPT !.spools = spools, !.total = number]
<1>1. /\ TypeOK
      /\ looms \in [TheLooms -> LoomType] /\ wip \in Seq(RowType) /\ runs \in Seq(RunType)
      /\ racks \in [Racks -> Nat] /\ traced \in [Traced -> Nat]
      /\ desk \in [Sessions -> DeskType]
  BY DEF CreelInv, SpoolsAccounted, TypeOK
<1>2. /\ k \in DOMAIN runs /\ desk[w].key \in Keys
      /\ desk[w].spools \in Nat /\ desk[w].total \in Nat
  BY <1>1, DeskTypes
<1>3. /\ Len(runs) \in Nat /\ DOMAIN runs = 1..Len(runs) /\ runs[k] \in RunType
  BY <1>1, <1>2, SeqFinite
<1>4. l \in TheLooms /\ runs[k].bom \in Boms /\ run \in RunType /\ run.loom = l
  BY <1>3 DEF RunType
<1>5. \A p \in DOMAIN need : need[p] \in Nat
  <2>1. Demands \subseteq Nat
    BY LoomAssumption DEF LoomAssumption
  <2>. QED
    BY <2>1 DEF Needs
<1>6. /\ Len(wip) \in Nat /\ DOMAIN wip = 1..Len(wip)
      /\ \A i \in DOMAIN wip : wip[i] \in RowType /\ wip[i].remaining \in Nat
                               /\ wip[i].received \in Nat
      /\ \A I \in SUBSET DOMAIN wip : IsFiniteSet(I)
  BY <1>1, RowsAreNumbers DEF RowType
<1>7. /\ Covers(l, need)
      /\ wip' = [i \in DOMAIN wip |->
             IF i \in taken THEN [wip[i] EXCEPT !.remaining = RowLeft(@, given[i])]
             ELSE wip[i]]
      /\ rolls' = Append(rolls, roll)
      /\ looms' = [looms EXCEPT ![l].spools = spools, ![l].total = number]
      /\ runs' = [runs EXCEPT ![k].produced = @ + 1]
      /\ desk' = [desk EXCEPT ![w] = Idle]
      /\ mode' = mode /\ racks' = racks /\ traced' = traced
  BY RollWrites
<1>8. /\ roll.run = k /\ roll.loom = l /\ roll.key = desk[w].key
      /\ roll.sequence = number /\ roll.need = need
      /\ roll.entries = [i \in taken |-> Stored(given[i])]
  BY DEF RollOf
<1>9. /\ taken \subseteq Offered(l, need) /\ Offered(l, need) \subseteq DOMAIN wip
      /\ \A i \in Offered(l, need) : wip[i].loom = l
      /\ \A i \in Offered(l, need) \ taken : ~(given[i] > 0)
  BY DEF Takes, Offered
<1>10. /\ \A i \in Offered(l, need) : given[i] \in Nat /\ given[i] <= wip[i].remaining
       /\ \A p \in DOMAIN need : /\ RowsOf(l, p) \subseteq Offered(l, need)
                                 /\ Total(given, RowsOf(l, p)) = need[p]
  <2>1. \A p \in DOMAIN need : need[p] \in Nat
    BY <1>5
  <2>. QED
    BY <1>1, <1>7, <2>1, PartsBounds
<1>11. Len(rolls) \in Nat /\ DOMAIN rolls = 1..Len(rolls) /\ \E S : rolls \in Seq(S)
       /\ Cardinality(RollsOf(l)) \in Nat
  BY RollsFinite DEF IInv, TablesOK
<1>12. number \in Nat
  BY <1>2, <1>11 DEF NextSequence, Larger
<1>13. spools \in Nat
  <2>1. Total(given, Offered(l, need)) \in Nat
    BY <1>6, <1>9, <1>10, TotalNat
  <2>2. Less(desk[w].spools, Total(given, Offered(l, need))) \in Nat
    BY <1>2, <2>1 DEF Less
  <2>. QED
    BY <2>2, StoredNear DEF Aggregate
<1> HIDE DEF k, given, taken, spools, number, roll, run
<1>14. looms' \in [TheLooms -> LoomType]
  <2> HIDE DEF l
  <2>1. row \in LoomType
    <3>1. looms[l] \in LoomType
      BY <1>1, <1>4
    <3>. QED
      BY <1>12, <1>13, <3>1 DEF LoomType
  <2>2. looms' = [looms EXCEPT ![l] = row]
    BY <1>1, <1>4, <1>7
  <2> HIDE DEF row
  <2>. QED
    BY <1>1, <2>1, <2>2
<1>15. /\ runs' \in Seq(RunType) /\ DOMAIN runs' = DOMAIN runs
       /\ \A j \in DOMAIN runs : runs'[j].loom = runs[j].loom
  <2>1. runs' = [runs EXCEPT ![k] = run]
    BY <1>1, <1>2, <1>7 DEF run
  <2>2. /\ runs' \in Seq(RunType) /\ Len(runs') = Len(runs)
        /\ \A j \in 1..Len(runs) : runs'[j] = IF j = k THEN run ELSE runs[j]
    BY <1>1, <1>2, <1>3, <1>4, <2>1, ExceptSeq
  <2>. QED
    BY <1>3, <1>4, <2>2
<1> HIDE DEF l
<1>16. \A i \in taken : /\ given[i] \in Nat /\ given[i] <= wip[i].remaining
                        /\ i \in DOMAIN wip /\ wip[i].loom = l
                        /\ wip[i].remaining - given[i] \in Nat
  BY <1>6, <1>9, <1>10
<1>17. /\ DOMAIN wip' = DOMAIN wip
       /\ \A i \in DOMAIN wip : /\ wip'[i] \in RowType /\ wip'[i].rack = wip[i].rack
                                /\ wip'[i].loom = wip[i].loom
                                /\ wip'[i].received = wip[i].received
       /\ \A i \in DOMAIN wip \ taken : wip'[i] = wip[i]
       /\ \A i \in taken : wip'[i].remaining = Stored(wip[i].remaining - given[i])
  <2>1. DOMAIN wip' = DOMAIN wip
    BY <1>7
  <2>2. \A i \in DOMAIN wip \ taken : wip'[i] = wip[i]
    BY <1>7
  <2>3. ASSUME NEW i \in taken
        PROVE  /\ wip'[i] \in RowType /\ wip'[i].rack = wip[i].rack
               /\ wip'[i].loom = wip[i].loom
               /\ wip'[i].received = wip[i].received
               /\ wip'[i].remaining = Stored(wip[i].remaining - given[i])
    <3> DEFINE q == RowLeft(wip[i].remaining, given[i])
    <3>1. wip'[i] = [wip[i] EXCEPT !.remaining = q]
      BY <1>7, <1>16
    <3>2. q = Stored(wip[i].remaining - given[i])
      BY DEF RowLeft
    <3>3. q \in Nat
      BY <1>16, <3>2, StoredNear
    <3>4. wip[i] \in RowType
      BY <1>6, <1>16
    <3> HIDE DEF q
    <3>. QED
      BY <3>1, <3>2, <3>3, <3>4 DEF RowType
  <2>. QED
    BY <1>6, <2>1, <2>2, <2>3
<1>18. wip' \in Seq(RowType)
  <2>1. DOMAIN wip' = 1..Len(wip) /\ \A i \in 1..Len(wip) : wip'[i] \in RowType
    BY <1>6, <1>17
  <2>2. wip' = [i \in 1..Len(wip) |-> wip'[i]]
    BY <1>6, <1>7, <2>1
  <2>. QED
    BY <1>6, <2>1, <2>2
<1>19. /\ \E S : rolls' \in Seq(S)
       /\ DOMAIN rolls' = DOMAIN rolls \cup {new} /\ new \notin DOMAIN rolls
       /\ \A n \in DOMAIN rolls : rolls'[n] = rolls[n]
       /\ rolls'[new] = roll
  <2>1. PICK S : rolls \in Seq(S)
    BY <1>11
  <2>2. rolls \in Seq(S \cup {roll})
    BY <2>1, SeqMonotonic
  <2>3. /\ rolls' \in Seq(S \cup {roll}) /\ Len(rolls') = new
        /\ \A n \in 1..Len(rolls) : rolls'[n] = rolls[n]
        /\ rolls'[new] = roll
    BY <1>7, <2>2, AppendProperties
  <2>4. DOMAIN rolls' = 1..new
    BY <2>3
  <2>. QED
    BY <1>11, <2>3, <2>4
<1>20. DOMAIN roll.entries = taken /\ \A i \in taken : roll.entries[i] = Stored(given[i])
  BY <1>8
<1>21. TypeOK'
  <2>1. desk' \in [Sessions -> DeskType']
    <3>1. Idle \in DeskType
      BY DEF DeskType
    <3>2. DeskType' = DeskType
      BY <1>15 DEF DeskType
    <3>. QED
      BY <1>1, <1>7, <3>1, <3>2
  <2>2. ASSUME NEW n \in DOMAIN rolls'
        PROVE  /\ rolls'[n].run \in DOMAIN runs'
               /\ rolls'[n].loom = runs'[rolls'[n].run].loom
               /\ rolls'[n].key \in Keys /\ rolls'[n].sequence \in Nat
               /\ DOMAIN rolls'[n].entries \subseteq DOMAIN wip'
    <3>1. CASE n = new
      <4>1. k \in DOMAIN runs' /\ runs'[k].loom = l
        BY <1>2, <1>15 DEF l
      <4>. QED
        BY <1>2, <1>8, <1>9, <1>12, <1>17, <1>19, <1>20, <3>1, <4>1
    <3>2. CASE n \in DOMAIN rolls
      <4>1. /\ rolls[n].run \in DOMAIN runs
            /\ rolls[n].loom = runs[rolls[n].run].loom
            /\ rolls[n].key \in Keys /\ rolls[n].sequence \in Nat
            /\ DOMAIN rolls[n].entries \subseteq DOMAIN wip
        BY <1>1, <3>2 DEF TypeOK
      <4>. QED
        BY <1>15, <1>17, <1>19, <3>2, <4>1
    <3>. QED
      BY <1>19, <3>1, <3>2
  <2>3. mode' \in Modes /\ racks' \in [Racks -> Nat] /\ traced' \in [Traced -> Nat]
    BY <1>1, <1>7 DEF TypeOK
  <2>. QED
    BY <1>14, <1>15, <1>18, <2>1, <2>2, <2>3 DEF TypeOK
<1>22. Registered'
  <2>1. \A n \in DOMAIN rolls : \A i \in DOMAIN rolls[n].entries : rolls[n].entries[i] \in Nat
    BY DEF CreelInv, Registered
  <2>2. \A i \in taken : roll.entries[i] \in Nat
    BY <1>16, <1>20, StoredNear
  <2>3. \A n \in DOMAIN rolls' : \A i \in DOMAIN rolls'[n].entries : rolls'[n].entries[i] \in Nat
    BY <1>19, <1>20, <2>1, <2>2
  <2>. QED
    BY <1>19, <2>3 DEF Registered
<1>23. \A i : Entries(i)' = IF i \in taken THEN Entries(i) \cup {new} ELSE Entries(i)
  BY <1>19, <1>20 DEF Entries
<1>24. \A i : /\ IsFiniteSet(Entries(i)) /\ new \notin Entries(i)
              /\ \A n \in Entries(i) : /\ rolls[n].entries[i] \in Nat
                                       /\ rolls'[n].entries[i] = rolls[n].entries[i]
  <2>1. \A i : Entries(i) \subseteq DOMAIN rolls
    BY DEF Entries
  <2>2. IsFiniteSet(DOMAIN rolls)
    BY <1>11, FS_Interval
  <2>3. \A i : IsFiniteSet(Entries(i))
    BY <2>1, <2>2, FS_Subset
  <2>4. \A i : \A n \in Entries(i) : rolls[n].entries[i] \in Nat
    BY DEF CreelInv, Registered, Entries
  <2>. QED
    BY <1>19, <2>1, <2>3, <2>4
<1>25. \A i : Given(i) \in Nat
  <2> SUFFICES ASSUME NEW i PROVE Given(i) \in Nat
    OBVIOUS
  <2> DEFINE g == [n \in Entries(i) |-> rolls[n].entries[i]]
  <2>1. \A n \in Entries(i) : g[n] \in Nat
    BY <1>24
  <2> HIDE DEF g
  <2>2. Total(g, Entries(i)) \in Nat
    BY <1>24, <2>1, TotalNat
  <2>. QED
    BY <2>2 DEF Given, g
<1>26. \A i : /\ i \in taken => /\ Given(i)' = Stored(given[i]) + Given(i)
                                /\ Cardinality(Entries(i)') = Cardinality(Entries(i)) + 1
              /\ i \notin taken => Given(i)' = Given(i) /\ Entries(i)' = Entries(i)
  <2> SUFFICES ASSUME NEW i
               PROVE  /\ i \in taken =>
                           /\ Given(i)' = Stored(given[i]) + Given(i)
                           /\ Cardinality(Entries(i)') = Cardinality(Entries(i)) + 1
                      /\ i \notin taken => Given(i)' = Given(i) /\ Entries(i)' = Entries(i)
    OBVIOUS
  <2> DEFINE E == Entries(i)
             F == Entries(i)'
             g == [n \in E |-> rolls[n].entries[i]]
             h == [n \in F |-> rolls'[n].entries[i]]
  <2>1. Given(i) = Total(g, E) /\ Given(i)' = Total(h, F)
    BY DEF Given
  <2>2. /\ IsFiniteSet(E) /\ new \notin E
        /\ \A n \in E : rolls[n].entries[i] \in Nat /\ rolls'[n].entries[i] = rolls[n].entries[i]
    BY <1>24
  <2>3. F = IF i \in taken THEN E \cup {new} ELSE E
    BY <1>23
  <2>4. \A n \in E : g[n] \in Nat /\ h[n] = g[n]
    BY <2>2, <2>3
  <2>5. i \in taken => h[new] = Stored(given[i]) /\ h[new] \in Nat
    <3>1. i \in taken => h[new] = rolls'[new].entries[i]
      BY <2>3
    <3>2. i \in taken => Stored(given[i]) \in Nat
      BY <1>16, StoredNear
    <3>. QED
      BY <1>19, <1>20, <3>1, <3>2
  <2> HIDE DEF E, F, g, h
  <2>6. Total(h, E) = Total(g, E)
    BY <2>2, <2>4, TotalEqual
  <2>7. ASSUME i \in taken
        PROVE  /\ Total(h, F) = h[new] + Total(h, E)
               /\ Cardinality(F) = Cardinality(E) + 1
    <3>1. \A n \in E \cup {new} : h[n] \in Int
      BY <2>4, <2>5, <2>7
    <3>. QED
      BY <2>2, <2>3, <2>7, <3>1, TotalAdd, FS_AddElement
  <2>8. i \in taken => /\ Given(i)' = Stored(given[i]) + Given(i)
                       /\ Cardinality(F) = Cardinality(E) + 1
    BY <2>1, <2>5, <2>6, <2>7
  <2>9. i \notin taken => Given(i)' = Given(i) /\ F = E
    BY <2>1, <2>3, <2>6
  <2>. QED
    BY <2>8, <2>9 DEF E, F
<1>27. ASSUME NEW i \in DOMAIN wip
       PROVE  /\ wip'[i].remaining + Given(i)'
                    <= wip'[i].received + 10 * Cardinality(Entries(i)')
              /\ wip'[i].received
                    <= wip'[i].remaining + Given(i)' + 10 * Cardinality(Entries(i)')
  <2> DEFINE c == Cardinality(Entries(i))
  <2>1. /\ wip[i].remaining + Given(i) <= wip[i].received + 10 * c
        /\ wip[i].received <= wip[i].remaining + Given(i) + 10 * c
    BY DEF CreelInv, SpoolsAccounted
  <2>2. c \in Nat
    BY <1>24, FS_CardinalityType
  <2> HIDE DEF c
  <2>3. CASE i \in taken
    <3> DEFINE s == Stored(given[i])
               t == Stored(wip[i].remaining - given[i])
    <3>1. given[i] \in Nat /\ wip[i].remaining - given[i] \in Nat
      BY <1>16, <2>3
    <3>2. s \in Nat /\ s <= given[i] + 5 /\ given[i] <= s + 5
      BY <3>1, StoredNear
    <3>3. /\ t \in Nat /\ t <= wip[i].remaining - given[i] + 5
          /\ wip[i].remaining - given[i] <= t + 5
      BY <3>1, StoredNear
    <3>4. wip'[i].remaining = t /\ wip'[i].received = wip[i].received
      BY <1>17, <2>3
    <3>5. Given(i)' = s + Given(i) /\ Cardinality(Entries(i)') = c + 1
      BY <1>26, <2>3 DEF c
    <3> HIDE DEF s, t
    <3>6. Given(i) \in Nat /\ wip[i].remaining \in Nat /\ wip[i].received \in Nat
      BY <1>6, <1>25
    <3>. QED
      BY <2>1, <2>2, <3>1, <3>2, <3>3, <3>4, <3>5, <3>6
  <2>4. CASE i \notin taken
    <3>1. wip'[i] = wip[i] /\ Given(i)' = Given(i) /\ Cardinality(Entries(i)') = c
      BY <1>17, <1>26, <2>4 DEF c
    <3>. QED
      BY <2>1, <3>1
  <2>. QED
    BY <2>3, <2>4
<1>28. SpoolsAccounted'
  <2>1. \A r : FromRack(r)' = FromRack(r)
    BY <1>17 DEF FromRack
  <2>2. Received' = Received
    BY <1>17 DEF Received
  <2>3. /\ \A r \in Racks : Spool * InRack[r] = racks'[r] + Total(Received', FromRack(r)')
        /\ \A r \in Traced : traced'[r] = racks'[r]
    BY <1>7, <2>1, <2>2 DEF CreelInv, SpoolsAccounted
  <2>. QED
    BY <1>17, <1>21, <1>27, <2>3 DEF SpoolsAccounted
<1>29. PICK made : made = roll
  OBVIOUS
<1>30. ChargedRight(made)'
  <2>1. \A i \in DOMAIN made.entries : wip'[i].loom = made.loom
    BY <1>8, <1>9, <1>16, <1>17, <1>20, <1>29
  <2>2. ASSUME NEW p \in DOMAIN need
        PROVE  /\ Charged(made, p)' <= need[p] + 5 * Cardinality(EntriesOf(made, p)')
               /\ need[p] <= Charged(made, p)' + 5 * Cardinality(EntriesOf(made, p)')
    <3> DEFINE S == RowsOf(l, p)
               T == EntriesOf(made, p)'
    <3>1. /\ S \subseteq Offered(l, need) /\ Total(given, S) = need[p]
          /\ \A i \in S : given[i] \in Nat
      BY <1>10
    <3>2. T = {i \in taken : PtiOf[wip[i].rack] = p}
      <4>1. T = {i \in DOMAIN made.entries : PtiOf[wip'[i].rack] = p}
        BY DEF EntriesOf
      <4>. QED
        BY <1>9, <1>17, <1>20, <1>29, <4>1
    <3>3. T \subseteq S /\ \A i \in S \ T : given[i] = 0
      <4>1. T \subseteq S
        BY <1>16, <3>2 DEF RowsOf
      <4>2. \A i \in S : PtiOf[wip[i].rack] = p
        BY DEF RowsOf
      <4>3. \A i \in S \ T : i \in Offered(l, need) \ taken
        BY <3>1, <3>2, <4>2
      <4>. QED
        BY <1>9, <3>1, <4>1, <4>3
    <3>4. IsFiniteSet(S) /\ IsFiniteSet(T)
      BY <1>6, <1>9, <3>1, <3>3
    <3> HIDE DEF S, T
    <3>5. Total(given, S) = Total(given, T)
      <4>1. \A i \in T : given[i] \in Int /\ given[i] = given[i]
        BY <3>1, <3>3
      <4>. QED
        BY <3>3, <3>4, <4>1, TotalSupport
    <3> DEFINE e == made.entries
    <3>6. \A i \in T : /\ given[i] \in Nat /\ e[i] \in Nat
                       /\ e[i] <= given[i] + 5 /\ given[i] <= e[i] + 5
      <4>1. \A i \in T : i \in taken
        BY <3>2
      <4>2. \A i \in taken : given[i] \in Nat /\ e[i] = Stored(given[i])
        BY <1>16, <1>20, <1>29
      <4>3. \A i \in taken : /\ Stored(given[i]) \in Nat
                             /\ Stored(given[i]) <= given[i] + 5
                             /\ given[i] <= Stored(given[i]) + 5
        BY <1>16, StoredNear
      <4>. QED
        BY <4>1, <4>2, <4>3
    <3>7. Charged(made, p)' = Total(e, T)
      BY DEF Charged, T
    <3> HIDE DEF e
    <3>8. /\ Total(e, T) <= Total(given, T) + 5 * Cardinality(T)
          /\ Total(given, T) <= Total(e, T) + 5 * Cardinality(T)
      <4>1. \A i \in T : given[i] \in Nat /\ e[i] \in Nat
        BY <3>6
      <4>2. \A i \in T : e[i] <= given[i] + 5 /\ given[i] <= e[i] + 5
        BY <3>6
      <4>3. 5 \in Nat
        OBVIOUS
      <4>. QED
        BY <3>4, <4>1, <4>2, <4>3, TotalNear
    <3>. QED
      BY <3>1, <3>5, <3>7, <3>8 DEF T
  <2>. QED
    BY <1>8, <1>29, <2>1, <2>2 DEF ChargedRight
<1>31. ASSUME NEW c, ChargedRight(c), DOMAIN c.entries \subseteq DOMAIN wip
       PROVE  ChargedRight(c)'
  <2>1. \A i \in DOMAIN c.entries : wip'[i].loom = c.loom
    BY <1>17, <1>31 DEF ChargedRight
  <2>2. \A p : EntriesOf(c, p)' = EntriesOf(c, p)
    BY <1>17, <1>31 DEF EntriesOf
  <2>3. \A p : Charged(c, p)' = Charged(c, p)
    BY <2>2 DEF Charged
  <2>. QED
    BY <1>31, <2>1, <2>2, <2>3 DEF ChargedRight
<1>32. RollIsCharged'
  <2>1. \A n \in DOMAIN rolls : /\ ChargedRight(rolls[n])
                                /\ DOMAIN rolls[n].entries \subseteq DOMAIN wip
    BY <1>1 DEF CreelInv, RollIsCharged, TypeOK
  <2>2. \A n \in DOMAIN rolls' : \/ rolls'[n] = made
                                 \/ (n \in DOMAIN rolls /\ rolls'[n] = rolls[n])
    BY <1>19, <1>29
  <2>. QED
    BY <1>30, <1>31, <2>1, <2>2 DEF RollIsCharged
<1>. QED
  BY <1>22, <1>28, <1>32 DEF CreelInv

(* Every step keeps the invariant of the creels.                           *)
LEMMA CreelStep == ASSUME CreelInv, IInv, [Next]_vars PROVE CreelInv'
<1>1. ASSUME NEW l \in TheLooms, NEW r \in Racks, NEW n \in 1..InRack[r],
             LoadCreel(l, r, Spool * n)
      PROVE  CreelInv'
  <2>1. InRack[r] \in Nat
    BY LoomAssumption DEF LoomAssumption
  <2>2. Spool * n \in Nat
    BY <2>1 DEF Spool
  <2>. QED
    BY <1>1, <2>2, LoadKeepsCreel
<1>2. ASSUME NEW w \in Sessions, RollCommit(w) PROVE CreelInv'
  <2>1. PICK need \in Needs(runs[desk[w].run].bom) : RollWrite(w, need)
    BY <1>2 DEF RollCommit
  <2>2. desk[w].op = "roll"
    BY <1>2 DEF RollCommit
  <2>. QED
    BY <2>1, <2>2, RollKeepsCreel
<1>3. Editors \subseteq Sessions
  BY LoomAssumption DEF LoomAssumption
<1>4. CASE UNCHANGED vars
  BY <1>4, QuietCreel
<1>5. CASE \/ \E m \in Modes \ {mode} : SetMode(m)
           \/ \E l \in TheLooms, b \in Boms : StartRun(l, b)
           \/ \E k \in DOMAIN runs : FinishRun(k)
  BY <1>5, QuietCreel
<1>6. CASE \/ \E w \in Sessions, key \in Keys, k \in DOMAIN runs : RollRead(w, key, k)
           \/ \E w \in Sessions : RollLock(w)
           \/ \E w \in Sessions : Rollback(w)
  BY <1>6, QuietCreel
<1>7. CASE \/ \E w \in Editors, l \in TheLooms : OpenForm(w, l)
           \/ \E w \in Editors, capacity \in Capacities : SaveForm(w, capacity)
           \/ \E w \in Editors, l \in TheLooms : CheckUnused(w, l)
           \/ \E w \in Editors : Deactivate(w)
  BY <1>3, <1>7, QuietCreel
<1>. QED
  BY <1>1, <1>2, <1>4, <1>5, <1>6, <1>7 DEF Next

(* The creel's tables are well formed, what left a rack is in the rows of  *)
(* the creels, and every row is what it still holds plus what the rolls    *)
(* took of it, up to a hundredth for each of them.                         *)
THEOREM SpoolsAreAccounted == Spec => []SpoolsAccounted
<1>1. CreelInv => SpoolsAccounted
  BY DEF CreelInv
<1>. QED
  BY CreelInit, CreelStep, Invariance, <1>1, PTL DEF Spec

(* The entries of a roll are of rows of its loom, and together they are    *)
(* what its sheet needs of each PTI, up to half a hundredth for each.      *)
THEOREM RollsAreCharged == Spec => []RollIsCharged
<1>1. CreelInv => RollIsCharged
  BY DEF CreelInv
<1>. QED
  BY CreelInit, CreelStep, Invariance, <1>1, PTL DEF Spec

(* No step takes spools of a row before it leaves every older row of the   *)
(* same loom and PTI empty.                                                *)
THEOREM OldestSpoolsFirst == Spec => ConsumedFifo
<1> DEFINE Fifo == \A i, j \in DOMAIN wip :
                      /\ i < j /\ wip[i].loom = wip[j].loom
                      /\ PtiOf[wip[i].rack] = PtiOf[wip[j].rack]
                      /\ wip'[j].remaining < wip[j].remaining
                      => wip'[i].remaining = 0
<1>1. ASSUME CreelInv, [Next]_vars PROVE [Fifo]_vars
  <2>1. TypeOK
    BY <1>1 DEF CreelInv, SpoolsAccounted
  <2>2. \A i \in DOMAIN wip : wip[i].remaining \in Nat
    BY <2>1, RowsAreNumbers
  <2>3. ASSUME \A i \in DOMAIN wip : wip'[i] = wip[i] PROVE Fifo
    BY <2>2, <2>3
  <2>4. ASSUME NEW l \in TheLooms, NEW r \in Racks, NEW n, LoadCreel(l, r, n) PROVE Fifo
    <3> DEFINE row == [loom |-> l, rack |-> r, received |-> n, remaining |-> n]
    <3>1. wip' = Append(wip, row) /\ wip \in Seq(RowType)
      BY <2>1, <2>4 DEF LoadCreel, TypeOK
    <3> HIDE DEF row
    <3>2. wip \in Seq(RowType \cup {row})
      BY <3>1, SeqMonotonic
    <3>3. \A i \in 1..Len(wip) : wip'[i] = wip[i]
      BY <3>1, <3>2, AppendProperties
    <3>. QED
      BY <2>1, <2>3, <3>3, RowsAreNumbers
  <2>5. ASSUME NEW w \in Sessions, RollCommit(w) PROVE Fifo
    <3>1. PICK need \in Needs(runs[desk[w].run].bom) : RollWrite(w, need)
      BY <2>5 DEF RollCommit
    <3> DEFINE l == runs[desk[w].run].loom
               given == Parts(l, need)
               taken == Takes(l, need)
    <3>2. \A p \in DOMAIN need : need[p] \in Nat
      <4>1. Demands \subseteq Nat
        BY LoomAssumption DEF LoomAssumption
      <4>. QED
        BY <4>1 DEF Needs
    <3>3. \A i \in Offered(l, need) :
             /\ given[i] \in Nat
             /\ given[i] > 0 =>
                   \A j \in RowsOf(l, PtiOf[wip[i].rack]) :
                       j < i => j \in Offered(l, need) /\ given[j] = wip[j].remaining
      BY <2>1, <3>2, PartsBounds
    <3>4. wip' = [i \in DOMAIN wip |->
             IF i \in taken THEN [wip[i] EXCEPT !.remaining = RowLeft(@, given[i])]
             ELSE wip[i]]
      <4> DEFINE spools == Aggregate(w, l, need)
                 number == NextSequence(desk[w].total, l)
                 roll == RollOf(w, l, need)
      <4>1. /\ Covers(l, need)
            /\ wip' = [i \in DOMAIN wip |->
                   IF i \in taken THEN [wip[i] EXCEPT !.remaining = RowLeft(@, given[i])]
                   ELSE wip[i]]
            /\ rolls' = Append(rolls, roll)
            /\ looms' = [looms EXCEPT ![l].spools = spools, ![l].total = number]
            /\ runs' = [runs EXCEPT ![desk[w].run].produced = @ + 1]
            /\ desk' = [desk EXCEPT ![w] = Idle]
            /\ mode' = mode /\ racks' = racks /\ traced' = traced
        BY <3>1, RollWrites
      <4>. QED
        BY <4>1
    <3>5. /\ taken \subseteq Offered(l, need)
          /\ \A i \in Offered(l, need) : i \in DOMAIN wip /\ wip[i].loom = l
          /\ \A i \in taken : given[i] > 0
          /\ \A i \in Offered(l, need) \ taken : ~(given[i] > 0)
      BY DEF Takes, Offered
    <3> HIDE DEF given, taken, l
    <3> SUFFICES ASSUME NEW i \in DOMAIN wip, NEW j \in DOMAIN wip,
                        i < j, wip[i].loom = wip[j].loom,
                        PtiOf[wip[i].rack] = PtiOf[wip[j].rack],
                        wip'[j].remaining < wip[j].remaining
                 PROVE  wip'[i].remaining = 0
      OBVIOUS
    <3>6. j \in taken
      <4>1. j \notin taken => wip'[j] = wip[j]
        BY <3>4
      <4>. QED
        BY <2>2, <4>1
    <3>7. i \in RowsOf(l, PtiOf[wip[j].rack])
      BY <3>5, <3>6 DEF RowsOf
    <3>8. i \in Offered(l, need) /\ given[i] = wip[i].remaining
      BY <3>3, <3>5, <3>6, <3>7
    <3>9. CASE i \in taken
      <4>1. wip'[i] = [wip[i] EXCEPT !.remaining = RowLeft(@, given[i])]
        BY <3>4, <3>9
      <4>2. RowLeft(wip[i].remaining, given[i]) = 0
        <5>1. wip[i].remaining - given[i] = 0
          BY <2>2, <3>8
        <5>2. Stored(0) = 0
          BY StoredNear
        <5>. QED
          BY <5>1, <5>2 DEF RowLeft
      <4>3. wip[i] \in RowType
        BY <2>1, RowsAreNumbers
      <4>. QED
        BY <4>1, <4>2, <4>3 DEF RowType
    <3>10. CASE i \notin taken
      <4>1. wip'[i] = wip[i]
        BY <3>4, <3>10
      <4>2. given[i] \in Nat /\ ~(given[i] > 0)
        BY <3>3, <3>5, <3>8, <3>10
      <4>. QED
        BY <3>8, <4>1, <4>2
    <3>. QED
      BY <3>9, <3>10
  <2>6. CASE UNCHANGED vars
    BY <2>6 DEF vars
  <2>7. CASE Next
    <3>1. CASE \E l \in TheLooms, r \in Racks : \E n \in 1..InRack[r] : LoadCreel(l, r, Spool * n)
      BY <2>4, <3>1
    <3>2. CASE \E w \in Sessions : RollCommit(w)
      BY <2>5, <3>2
    <3>3. wip' = wip => Fifo
      BY <2>3
    <3>. QED
      BY <2>7, <3>1, <3>2, <3>3 DEF Next, SetMode, StartRun, FinishRun, RollRead,
         RollLock, OpenForm, SaveForm, CheckUnused, Deactivate, Rollback
  <2>. QED
    BY <1>1, <2>6, <2>7
<1>. QED
  BY CreelInit, CreelStep, Invariance, <1>1, PTL DEF Spec, ConsumedFifo
=============================================================================
