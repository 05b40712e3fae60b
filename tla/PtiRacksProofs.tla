----------------------------- MODULE PtiRacksProofs -----------------------------
(***************************************************************************)
(* For any runs, racks, requests, weights and bounds, and however the      *)
(* requests interleave: what the open session filled stays in its custody, *)
(* bobbins and kilograms reconcile from the mixture to the looms and a     *)
(* load is traced to a production of its product.                          *)
(***************************************************************************)
EXTENDS PtiRacks, SequenceTheorems, TotalTheorems, TLAPS

(* A rack is a row of these columns, and the racks are a sequence.         *)
Columns == {"cargo", "pieces", "unit", "custody", "kg", "capacity"}
IsRack(r) == r = [column \in Columns |-> r[column]]

RacksOf(rs) == {rs[k] : k \in DOMAIN rs}
RacksOK ==
    /\ racks \in Seq(RacksOf(racks))
    /\ \A k \in DOMAIN racks : IsRack(racks[k])

Statuses == {"EN_ESPERA", "ACTIVA", "PAUSADA", "COMPLETADA"}

(* Sessions are numbered in the order they open; the last may be open.     *)
SessionsOK ==
    /\ opened \in Nat
    /\ session = 0 \/ session = opened
    /\ \A e \in entries : e.rack \in DOMAIN racks /\ e.session \in 1..opened
    /\ queue \in [Runs -> [status : Statuses, session : 0..opened]]
    /\ desk \in [Clerks -> {Idle} \cup [op : {"ready"}, session : 1..opened]]

IInv == RacksOK /\ SessionsOK /\ CustodyIsTheShift

-----------------------------------------------------------------------------
(* What the handlers make of a rack is a rack, of the custody they give.   *)
LEMMA NewRackIsARack ==
    ASSUME NEW capacity, NEW unit
    PROVE  IsRack(NewRack(capacity, unit)) /\ NewRack(capacity, unit).custody = 0
BY DEF IsRack, Columns, NewRack

(* A rack that a scan fills,                                               *)
LEMMA FilledIsARack ==
    ASSUME NEW r, IsRack(r), NEW cargo, NEW s, NEW pieces, NEW unit, NEW kg
    PROVE  /\ IsRack(Filled(r, cargo, s, pieces, unit, kg))
           /\ Filled(r, cargo, s, pieces, unit, kg).custody = s
<1> DEFINE p == r.pieces + pieces
           u == IF r.pieces = 0 \/ r.unit = 0 THEN unit ELSE r.unit
           w == r.kg + kg
           q == Filled(r, cargo, s, pieces, unit, kg)
<1>1. q = [r EXCEPT !.cargo = cargo, !.custody = s, !.pieces = p, !.unit = u, !.kg = w]
  BY Zenon DEF Filled, Custodian
<1>2. DOMAIN r = Columns
  BY DEF IsRack
<1> HIDE DEF p, u, w, q
<1>3. q = [column \in DOMAIN q |-> q[column]] /\ DOMAIN q = DOMAIN r
  BY <1>1
<1>4. q.custody = s
  BY <1>1, <1>2 DEF Columns
<1>5. q = [column \in Columns |-> q[column]] /\ q.custody = s
  BY <1>2, <1>3, <1>4
<1>6. IsRack(q) /\ q.custody = s
  BY <1>5 DEF IsRack
<1>. QED
  BY <1>6, Zenon DEF q

(* a rack that a loom takes from,                                          *)
LEMMA SavedIsARack ==
    ASSUME NEW r, IsRack(r), NEW pieces, NEW kg
    PROVE  /\ IsRack(Saved([r EXCEPT !.pieces = pieces, !.kg = kg]))
           /\ Saved([r EXCEPT !.pieces = pieces, !.kg = kg]).custody = r.custody
BY DEF IsRack, Columns, Saved

(* and a rack that the closing of a shift releases.                        *)
LEMMA ReleasedIsARack ==
    ASSUME NEW r, IsRack(r)
    PROVE  IsRack([r EXCEPT !.custody = 0]) /\ [r EXCEPT !.custody = 0].custody = 0
BY DEF IsRack, Columns

(* A table of racks that is indexed from 1 is a sequence.                  *)
LEMMA TableOfRacks ==
    ASSUME NEW rs, NEW n \in Nat, rs = [k \in 1..n |-> rs[k]]
    PROVE  rs \in Seq(RacksOf(rs)) /\ DOMAIN rs = 1..n
BY DEF RacksOf

(* New racks are appended to the table.                                    *)
LEMMA WithNewAppends ==
    ASSUME RacksOK, NEW n \in Nat, NEW new, IsRack(new)
    PROVE  /\ \E m \in Nat : DOMAIN WithNew(n, new) = 1..m
           /\ WithNew(n, new) = [k \in DOMAIN WithNew(n, new) |-> WithNew(n, new)[k]]
           /\ DOMAIN racks \subseteq DOMAIN WithNew(n, new)
           /\ \A k \in DOMAIN WithNew(n, new) :
                 WithNew(n, new)[k] = IF k \in DOMAIN racks THEN racks[k] ELSE new
           /\ \A k \in DOMAIN WithNew(n, new) : IsRack(WithNew(n, new)[k])
<1>1. Len(racks) \in Nat /\ DOMAIN racks = 1..Len(racks)
  BY DEF RacksOK
<1>2. Len(racks) + n \in Nat
  BY <1>1
<1>. QED
  BY <1>1, <1>2 DEF WithNew, RacksOK

-----------------------------------------------------------------------------
(* Of the racks, only custody and shape matter to the invariant.           *)
LEMMA SameTables ==
    ASSUME IInv, UNCHANGED <<session, opened, queue, entries>>,
           RacksOK', DOMAIN racks \subseteq (DOMAIN racks)',
           \A k \in (DOMAIN racks)' :
              racks'[k].custody = IF k \in DOMAIN racks THEN racks[k].custody ELSE 0,
           desk' \in [Clerks -> {Idle} \cup [op : {"ready"}, session : 1..opened]]
    PROVE  IInv'
<1>1. SessionsOK'
  BY DEF IInv, SessionsOK
<1>2. CustodyIsTheShift'
  <2> SUFFICES ASSUME NEW k \in (DOMAIN racks)'
               PROVE  /\ \A e \in EntriesOf(k) :
                            e.session = session => racks'[k].custody = session
                      /\ racks'[k].custody # 0 => \E e \in EntriesOf(k) :
                            /\ e.session = racks'[k].custody
                            /\ e.late \/ racks'[k].custody = session
    BY DEF CustodyIsTheShift, EntriesOf
  <2>1. CASE k \in DOMAIN racks
    <3>1. racks'[k].custody = racks[k].custody
      BY <2>1
    <3>. QED
      BY <2>1, <3>1 DEF IInv, CustodyIsTheShift
  <2>2. CASE k \notin DOMAIN racks
    <3>1. EntriesOf(k) = {}
      BY <2>2 DEF IInv, SessionsOK, EntriesOf
    <3>. QED
      BY <2>2, <3>1
  <2>. QED
    BY <2>1, <2>2
<1>. QED
  BY <1>1, <1>2 DEF IInv

(* A request reads the open session.                                       *)
LEMMA BeginOK ==
    ASSUME IInv, NEW c \in Clerks, Begin(c)
    PROVE  IInv'
<1>1. desk' \in [Clerks -> {Idle} \cup [op : {"ready"}, session : 1..opened]]
  BY DEF IInv, SessionsOK, Begin
<1>2. RacksOK' /\ UNCHANGED racks
  BY DEF IInv, RacksOK, RacksOf, Begin
<1>3. UNCHANGED <<session, opened, queue, entries>>
  BY DEF Begin, production
<1>. QED
  BY <1>1, <1>2, <1>3, SameTables

(* The request that answers is idle, the others are as they were.          *)
LEMMA AnswerIdles ==
    ASSUME SessionsOK, NEW c \in Clerks, Answer(c)
    PROVE  desk' \in [Clerks -> {Idle} \cup [op : {"ready"}, session : 1..opened]]
BY DEF SessionsOK, Answer

(* A request is given up.                                                  *)
LEMMA RollbackOK ==
    ASSUME IInv, NEW c \in Clerks, Rollback(c)
    PROVE  IInv'
<1>1. desk' \in [Clerks -> {Idle} \cup [op : {"ready"}, session : 1..opened]]
  BY AnswerIdles DEF IInv, Rollback
<1>2. RacksOK' /\ UNCHANGED racks
  BY DEF IInv, RacksOK, RacksOf, Rollback
<1>3. UNCHANGED <<session, opened, queue, entries>>
  BY DEF Rollback, production
<1>. QED
  BY <1>1, <1>2, <1>3, SameTables

(* A run is activated in the session that its request read.                *)
LEMMA ActivateOK ==
    ASSUME IInv, NEW c \in Clerks, NEW q \in Runs, Activate(c, q)
    PROVE  IInv'
<1>1. UNCHANGED <<session, opened, entries, racks>>
  BY DEF Activate
<1>2. desk' \in [Clerks -> {Idle} \cup [op : {"ready"}, session : 1..opened]]
  BY AnswerIdles DEF IInv, Activate
<1>3. desk[c].session \in 1..opened
  BY DEF IInv, SessionsOK, Activate, Ready, Idle
<1>4. queue' \in [Runs -> [status : Statuses, session : 0..opened]]
  <2>1. [status |-> "ACTIVA", session |-> desk[c].session]
          \in [status : Statuses, session : 0..opened]
    BY <1>3 DEF IInv, SessionsOK, Statuses
  <2>2. queue \in [Runs -> [status : Statuses, session : 0..opened]]
    BY DEF IInv, SessionsOK
  <2>. QED
    BY <2>1, <2>2, Zenon DEF Activate
<1>5. SessionsOK'
  BY <1>1, <1>2, <1>4 DEF IInv, SessionsOK
<1>6. RacksOK' /\ CustodyIsTheShift'
  BY <1>1 DEF IInv, RacksOK, RacksOf, CustodyIsTheShift, EntriesOf
<1>. QED
  BY <1>5, <1>6 DEF IInv

(* A new rack is in nobody's custody.                                      *)
LEMMA CreateRackOK ==
    ASSUME IInv, NEW capacity, CreateRack(capacity)
    PROVE  IInv'
<1> DEFINE new == NewRack(capacity, 0)
           all == WithNew(1, new)
<1>1. IsRack(new) /\ new.custody = 0
  BY NewRackIsARack
<1> HIDE DEF new
<1>2. /\ \E m \in Nat : DOMAIN all = 1..m
      /\ all = [k \in DOMAIN all |-> all[k]]
      /\ DOMAIN racks \subseteq DOMAIN all
      /\ \A k \in DOMAIN all : all[k] = IF k \in DOMAIN racks THEN racks[k] ELSE new
      /\ \A k \in DOMAIN all : IsRack(all[k])
  BY <1>1, WithNewAppends DEF IInv
<1>3. racks' = all
  BY DEF CreateRack, new
<1> HIDE DEF all
<1>4. all \in Seq(RacksOf(all))
  BY <1>2, TableOfRacks
<1>5. RacksOK'
  BY <1>2, <1>3, <1>4 DEF RacksOK, RacksOf
<1>6. UNCHANGED <<session, opened, queue, entries, desk>>
  BY DEF CreateRack, production
<1>7. \A k \in (DOMAIN racks)' :
         racks'[k].custody = IF k \in DOMAIN racks THEN racks[k].custody ELSE 0
  BY <1>1, <1>2, <1>3
<1>8. desk \in [Clerks -> {Idle} \cup [op : {"ready"}, session : 1..opened]]
  BY DEF IInv, SessionsOK
<1>. QED
  BY <1>2, <1>3, <1>5, <1>6, <1>7, <1>8, SameTables

(* A scan fills racks in nobody's custody or in that of its own session,   *)
(* and of these it takes the custody.                                      *)
LEMMA ScanRackOK ==
    ASSUME IInv, NEW c \in Clerks, NEW q \in Runs, NEW k \in DOMAIN racks,
           NEW pieces \in Pieces, NEW scale \in Scales \cup {0},
           ScanRack(c, q, k, pieces, scale)
    PROVE  IInv'
<1> DEFINE s == desk[c].session
           known == UnitOf(racks[k], Cargo[q])
           unit == IF known = 0 THEN Rounded(scale, pieces) ELSE known
           net == NetOf(pieces, known, scale)
           new == NewRack(racks[k].capacity, unit)
<1>1. PICK n \in 0..pieces : ScanInto(WithNew(n, new), c, q, k, pieces, net, unit)
  BY DEF ScanRack
<1> DEFINE all == WithNew(n, new)
           S == Filling(all, Cargo[q], s)
           given == [j \in DOMAIN all |-> PiecesFor(all, S, k, pieces, j)]
           served == {j \in S : given[j] > 0}
           kg(j) == ShareFor(served, k, given, pieces, net, j)
           entry(j) == [scan |-> Cardinality(Scans) + 1, rack |-> j, run |-> q,
                        session |-> s, late |-> s # session, pieces |-> given[j],
                        net |-> kg(j)]
<1>2. /\ Ready(c) /\ Answer(c)
      /\ queue[q] = [status |-> "ACTIVA", session |-> s]
      /\ queue' = [queue EXCEPT ![q].status = IF left[q] = net THEN "COMPLETADA" ELSE @]
      /\ UNCHANGED <<session, opened>>
  BY Zenon DEF ScanRack
<1>3. s \in 1..opened
  BY <1>2 DEF IInv, SessionsOK, Ready, Idle
<1>4. n \in Nat
  BY RackAssumption
<1>5. IsRack(new) /\ new.custody = 0
  BY NewRackIsARack
<1> HIDE DEF new
<1>6. /\ \E m \in Nat : DOMAIN all = 1..m
      /\ DOMAIN racks \subseteq DOMAIN all
      /\ \A j \in DOMAIN all : all[j] = IF j \in DOMAIN racks THEN racks[j] ELSE new
      /\ \A j \in DOMAIN all : IsRack(all[j])
  BY <1>4, <1>5, WithNewAppends DEF IInv
<1>7. racks' = [j \in DOMAIN all |->
                  IF j \in served THEN Filled(all[j], Cargo[q], s, given[j], unit, kg(j))
                  ELSE all[j]]
  BY <1>1, Zenon DEF ScanInto
<1>8. /\ entries' = entries \cup {entry(j) : j \in served}
      /\ \A j : entry(j).rack = j /\ entry(j).session = s /\ entry(j).late = (s # session)
  BY <1>1, Zenon DEF ScanInto
<1>9. served \subseteq DOMAIN all /\ \A j \in served : all[j].custody \in {0, s}
  BY DEF Filling, Accepts
<1>10. \A j \in served :
          /\ IsRack(Filled(all[j], Cargo[q], s, given[j], unit, kg(j)))
          /\ Filled(all[j], Cargo[q], s, given[j], unit, kg(j)).custody = s
  BY <1>6, <1>9, FilledIsARack
<1> HIDE DEF all, served, given, kg, net, unit, known, s, entry
<1>11. (DOMAIN racks)' = DOMAIN all
  BY <1>7
<1>12. \A j \in DOMAIN all :
          /\ IsRack(racks'[j])
          /\ racks'[j].custody = IF j \in served THEN s
                                 ELSE IF j \in DOMAIN racks THEN racks[j].custody ELSE 0
  BY <1>5, <1>6, <1>7, <1>10
<1>13. RacksOK'
  <2>1. racks' = [j \in DOMAIN all |-> racks'[j]]
    BY <1>7, <1>11
  <2>2. racks' \in Seq(RacksOf(racks'))
    BY <1>6, <2>1, TableOfRacks
  <2>. QED
    BY <1>11, <1>12, <2>2 DEF RacksOK, RacksOf
<1>14. SessionsOK'
  <2>1. \A e \in entries' : e.rack \in DOMAIN all /\ e.session \in 1..opened
    BY <1>3, <1>6, <1>8, <1>9 DEF IInv, SessionsOK
  <2>2. queue' \in [Runs -> [status : Statuses, session : 0..opened]]
    BY <1>2 DEF IInv, SessionsOK, Statuses
  <2>3. desk' \in [Clerks -> {Idle} \cup [op : {"ready"}, session : 1..opened]]
    BY <1>2, AnswerIdles DEF IInv
  <2>4. opened' = opened /\ session' = session
    BY <1>2
  <2>5. opened \in Nat /\ (session = 0 \/ session = opened)
    BY DEF IInv, SessionsOK
  <2>. QED
    BY <1>11, <2>1, <2>2, <2>3, <2>4, <2>5 DEF SessionsOK
<1>15. CustodyIsTheShift'
  <2> SUFFICES ASSUME NEW j \in DOMAIN all
               PROVE  /\ \A e \in entries' : e.rack = j /\ e.session = session
                            => racks'[j].custody = session
                      /\ racks'[j].custody # 0 => \E e \in entries' :
                            /\ e.rack = j /\ e.session = racks'[j].custody
                            /\ e.late \/ racks'[j].custody = session
    BY <1>2, <1>11 DEF CustodyIsTheShift, EntriesOf
  <2>1. CASE j \in served
    <3>1. racks'[j].custody = s
      BY <1>12, <2>1
    <3>2. ASSUME NEW e \in entries, e.rack = j, e.session = session
          PROVE  s = session
      <4>1. j \in DOMAIN racks /\ session # 0
        BY <3>2 DEF IInv, SessionsOK
      <4>2. racks[j].custody = session
        BY <3>2, <4>1 DEF IInv, CustodyIsTheShift, EntriesOf
      <4>3. racks[j].custody \in {0, s}
        BY <1>6, <1>9, <2>1, <4>1
      <4>. QED
        BY <4>1, <4>2, <4>3
    <3>3. \A e \in entries' : e.rack = j /\ e.session = session => s = session
      BY <1>8, <3>2
    <3>4. /\ entry(j) \in entries' /\ entry(j).rack = j /\ entry(j).session = s
          /\ entry(j).late \/ s = session
      BY <1>8, <2>1
    <3>. QED
      BY <3>1, <3>3, <3>4
  <2>2. CASE j \notin served
    <3>1. {e \in entries' : e.rack = j} = EntriesOf(j)
      BY <1>8, <2>2 DEF EntriesOf
    <3>2. /\ \A e \in EntriesOf(j) : e.session = session => racks'[j].custody = session
          /\ racks'[j].custody # 0 => \E e \in EntriesOf(j) :
                /\ e.session = racks'[j].custody
                /\ e.late \/ racks'[j].custody = session
      <4>1. CASE j \in DOMAIN racks
        <5>1. racks'[j].custody = racks[j].custody
          BY <1>12, <2>2, <4>1
        <5>. QED
          BY <4>1, <5>1 DEF IInv, CustodyIsTheShift
      <4>2. CASE j \notin DOMAIN racks
        <5>1. EntriesOf(j) = {}
          BY <4>2 DEF IInv, SessionsOK, EntriesOf
        <5>. QED
          BY <1>12, <2>2, <4>2, <5>1
      <4>. QED
        BY <4>1, <4>2
    <3>. QED
      BY <3>1, <3>2
  <2>. QED
    BY <2>1, <2>2
<1>. QED
  BY <1>13, <1>14, <1>15 DEF IInv

(* No entry is of the session that opens, and with no session open a rack  *)
(* is in custody through a late scan only.                                 *)
LEMMA OpenSessionOK ==
    ASSUME IInv, OpenSession
    PROVE  IInv'
<1>1. /\ session = 0 /\ opened \in Nat
      /\ opened' = opened + 1 /\ session' = opened + 1
      /\ UNCHANGED <<racks, entries, desk>>
      /\ queue' = [q \in Runs |-> IF queue[q].status = "ACTIVA"
                                  THEN [queue[q] EXCEPT !.session = opened + 1]
                                  ELSE queue[q]]
  BY DEF IInv, SessionsOK, OpenSession
<1>2. SessionsOK'
  <2>1. queue' \in [Runs -> [status : Statuses, session : 0..opened + 1]]
    BY <1>1 DEF IInv, SessionsOK
  <2>2. desk \in [Clerks -> {Idle} \cup [op : {"ready"}, session : 1..opened + 1]]
    <3>1. {Idle} \cup [op : {"ready"}, session : 1..opened]
             \subseteq {Idle} \cup [op : {"ready"}, session : 1..opened + 1]
      BY <1>1
    <3>. QED
      BY <3>1, Zenon DEF IInv, SessionsOK
  <2>3. \A e \in entries : e.rack \in DOMAIN racks /\ e.session \in 1..opened + 1
    BY <1>1 DEF IInv, SessionsOK
  <2>. QED
    BY <1>1, <2>1, <2>2, <2>3 DEF SessionsOK
<1>3. CustodyIsTheShift'
  <2>1. \A e \in entries : e.session # opened + 1 /\ e.session # 0
    BY <1>1 DEF IInv, SessionsOK
  <2>2. \A k \in DOMAIN racks : racks[k].custody # 0 =>
           \E e \in EntriesOf(k) : e.session = racks[k].custody /\ e.late
    BY <1>1 DEF IInv, CustodyIsTheShift
  <2>. QED
    BY <1>1, <2>1, <2>2 DEF CustodyIsTheShift, EntriesOf
<1>4. RacksOK'
  BY <1>1 DEF IInv, RacksOK, RacksOf
<1>. QED
  BY <1>2, <1>3, <1>4 DEF IInv

(* Closing a session releases the racks in its custody; another rack is in *)
(* custody through a late scan.                                            *)
LEMMA CloseSessionOK ==
    ASSUME IInv, CloseSession
    PROVE  IInv'
<1>1. /\ session # 0 /\ session' = 0
      /\ UNCHANGED <<opened, entries, desk>>
      /\ queue' = [q \in Runs |-> IF queue[q] = [status |-> "ACTIVA", session |-> session]
                                  THEN [queue[q] EXCEPT !.status = "PAUSADA"]
                                  ELSE queue[q]]
      /\ racks' = [k \in DOMAIN racks |-> IF racks[k].custody = session
                                          THEN [racks[k] EXCEPT !.custody = 0]
                                          ELSE racks[k]]
  BY DEF CloseSession
<1>2. \A k \in DOMAIN racks :
         /\ IsRack(racks'[k])
         /\ racks'[k].custody = IF racks[k].custody = session THEN 0 ELSE racks[k].custody
  BY <1>1, ReleasedIsARack DEF IInv, RacksOK
<1>3. RacksOK'
  <2>1. PICK m \in Nat : DOMAIN racks = 1..m
    BY DEF IInv, RacksOK
  <2>2. racks' = [k \in 1..m |-> racks'[k]]
    BY <1>1, <2>1
  <2>3. racks' \in Seq(RacksOf(racks'))
    BY <2>2, TableOfRacks
  <2>. QED
    BY <1>1, <1>2, <2>3 DEF RacksOK, RacksOf
<1>4. SessionsOK'
  <2>1. queue' \in [Runs -> [status : Statuses, session : 0..opened]]
    BY <1>1 DEF IInv, SessionsOK, Statuses
  <2>. QED
    BY <1>1, <2>1 DEF IInv, SessionsOK
<1>5. CustodyIsTheShift'
  <2>1. \A e \in entries : e.session # 0
    BY DEF IInv, SessionsOK
  <2>2. \A k \in DOMAIN racks : racks[k].custody \notin {0, session} =>
           \E e \in EntriesOf(k) : e.session = racks[k].custody /\ e.late
    BY DEF IInv, CustodyIsTheShift
  <2>. QED
    BY <1>1, <1>2, <2>1, <2>2 DEF CustodyIsTheShift, EntriesOf
<1>. QED
  BY <1>3, <1>4, <1>5 DEF IInv

(* Loads and edits keep the custody of the rack.                           *)
LEMMA SameCustody ==
    ASSUME IInv, UNCHANGED <<session, opened, queue, entries, desk>>,
           NEW k, NEW r, racks' = [racks EXCEPT ![k] = r],
           k \in DOMAIN racks => IsRack(r) /\ r.custody = racks[k].custody
    PROVE  IInv'
<1>1. PICK m \in Nat : DOMAIN racks = 1..m
  BY DEF IInv, RacksOK
<1>2. racks' = [j \in 1..m |-> racks'[j]]
  BY <1>1
<1>3. racks' \in Seq(RacksOf(racks'))
  BY <1>2, TableOfRacks
<1>4. \A j \in DOMAIN racks : IsRack(racks'[j]) /\ racks'[j].custody = racks[j].custody
  BY DEF IInv, RacksOK
<1>5. RacksOK'
  BY <1>1, <1>2, <1>3, <1>4 DEF RacksOK, RacksOf
<1>6. desk \in [Clerks -> {Idle} \cup [op : {"ready"}, session : 1..opened]]
  BY DEF IInv, SessionsOK
<1>. QED
  BY <1>1, <1>2, <1>4, <1>5, <1>6, SameTables

(* A load keeps the custody.                                               *)
LEMMA LoadCreelOK ==
    ASSUME IInv, NEW k \in DOMAIN racks, NEW n, LoadCreel(k, n)
    PROVE  IInv'
<1> DEFINE kg == Hundredths(n * (IF racks[k].unit > 0 THEN racks[k].unit
                                 ELSE Standard[racks[k].cargo]))
           p == racks[k].pieces - n
           w == racks[k].kg - kg
           r == Saved([racks[k] EXCEPT !.pieces = p, !.kg = w])
<1>1. racks' = [racks EXCEPT ![k] = r]
  BY Zenon DEF LoadCreel
<1>2. UNCHANGED <<session, opened, queue, entries, desk>>
  BY DEF LoadCreel, production
<1>3. IsRack(r) /\ r.custody = racks[k].custody
  <2>1. IsRack(racks[k])
    BY DEF IInv, RacksOK
  <2> HIDE DEF p, w
  <2>. QED
    BY <2>1, SavedIsARack
<1> HIDE DEF r
<1>. QED
  BY <1>1, <1>2, <1>3, SameCustody

(* An edit of the price keeps the custody.                                 *)
LEMMA SavePriceOK ==
    ASSUME IInv, NEW unit, SavePrice(unit)
    PROVE  IInv'
<1> DEFINE k == edit.rack
           rack == [racks[k] EXCEPT !.unit = unit]
           emptied == [rack EXCEPT !.pieces = 0,
                                   !.cargo = IF edit.bare THEN @ ELSE Empty]
           r == IF edit.empty THEN emptied ELSE rack
<1>1. racks' = [racks EXCEPT ![k] = r]
  BY Zenon DEF SavePrice
<1>2. UNCHANGED <<session, opened, queue, entries, desk>>
  BY DEF SavePrice, production
<1>3. k \in DOMAIN racks => IsRack(r) /\ r.custody = racks[k].custody
  <2> SUFFICES ASSUME k \in DOMAIN racks
               PROVE  IsRack(r) /\ r.custody = racks[k].custody
    OBVIOUS
  <2>1. IsRack(racks[k])
    BY DEF IInv, RacksOK
  <2>2. IsRack(rack) /\ rack.custody = racks[k].custody
    BY <2>1 DEF IsRack, Columns
  <2> HIDE DEF rack
  <2>3. IsRack(emptied) /\ emptied.custody = rack.custody
    BY <2>2 DEF IsRack, Columns
  <2>. QED
    BY <2>2, <2>3
<1> HIDE DEF r
<1>. QED
  BY <1>1, <1>2, <1>3, SameCustody

-----------------------------------------------------------------------------
(* The custody at the start.                                               *)
LEMMA InitOK == Init => IInv
<1> SUFFICES ASSUME Init PROVE IInv
  OBVIOUS
<1>1. RacksOK
  BY DEF Init, RacksOK, RacksOf
<1>2. SessionsOK
  BY DEF Init, SessionsOK, Statuses
<1>3. CustodyIsTheShift
  BY DEF Init, CustodyIsTheShift
<1>. QED
  BY <1>1, <1>2, <1>3 DEF IInv

(* And after every step.                                                   *)
LEMMA StepOK == IInv /\ [Next]_vars => IInv'
<1> SUFFICES ASSUME IInv, [Next]_vars
             PROVE  IInv'
  OBVIOUS
<1>1. ASSUME NEW c \in Clerks, Handle(c)
      PROVE  IInv'
  BY <1>1, BeginOK, RollbackOK, ActivateOK, ScanRackOK DEF Handle
<1>2. ASSUME NEW k \in DOMAIN racks, ReadPrice(k)
      PROVE  IInv'
  <2>1. UNCHANGED <<session, opened, queue, entries, racks, desk>>
    BY <1>2 DEF ReadPrice, production
  <2>. QED
    BY <2>1 DEF IInv, RacksOK, RacksOf, SessionsOK, CustodyIsTheShift, EntriesOf
<1>3. CASE UNCHANGED vars
  <2>1. UNCHANGED <<session, opened, queue, entries, racks, desk>>
    BY <1>3 DEF vars
  <2>. QED
    BY <2>1 DEF IInv, RacksOK, RacksOf, SessionsOK, CustodyIsTheShift, EntriesOf
<1>. QED
  BY <1>1, <1>2, <1>3, CreateRackOK, OpenSessionOK, CloseSessionOK, LoadCreelOK,
     SavePriceOK DEF Next

(* What the open session scanned into a rack stays in its custody, by any  *)
(* number of overlapping requests, so that no loom takes it until that     *)
(* session is closed ("Turno que produjo este PTI; bloquea movimientos     *)
(* hasta su cierre"); and custody is of a session that did fill the rack,  *)
(* and of a closed one only through a scan registered after its closing.   *)
THEOREM Custody == Spec => []CustodyIsTheShift
<1>1. IInv => CustodyIsTheShift
  BY DEF IInv
<1>. QED
  BY <1>1, InitOK, StepOK, PTL DEF Spec

-----------------------------------------------------------------------------
(* What the code computes of weights are naturals.                         *)
LEMMA DivIsNat ==
    ASSUME NEW a \in Nat, NEW b \in Nat \ {0}
    PROVE  a \div b \in Nat
OBVIOUS

(* A rounded quotient of naturals.                                         *)
LEMMA RoundedIsNat ==
    ASSUME NEW a \in Nat, NEW b \in Nat \ {0}
    PROVE  Rounded(a, b) \in Nat
<1>1. 2 * a + b \in Nat /\ 2 * b \in Nat \ {0}
  OBVIOUS
<1>. QED
  BY <1>1, DivIsNat DEF Rounded

(* A weight in hundredths.                                                 *)
LEMMA HundredthsIsNat ==
    ASSUME NEW kg \in Nat
    PROVE  Hundredths(kg) \in Nat
BY RoundedIsNat DEF Hundredths

(* Of some racks that are filled, one is the last: all others are ahead.   *)
LEMMA LastIsBehind ==
    ASSUME NEW S, NEW T \in SUBSET S, S \subseteq Int, IsFiniteSet(T), T # {}, NEW k
    PROVE  \E z \in T : /\ T \ {z} = Ahead(S, k, z) \cap T
                        /\ \A i \in T : z \notin Ahead(S, k, i)
<1>1. CASE T \ {k} = {}
  BY <1>1 DEF Ahead
<1>2. CASE T \ {k} # {}
  <2>1. IsFiniteSet(T \ {k}) /\ T \ {k} \subseteq Int
    BY FS_Subset
  <2>2. PICK z \in T \ {k} : \A i \in T \ {k} : i <= z
    BY <1>2, <2>1, FiniteMaximum
  <2>3. T \ {z} = Ahead(S, k, z) \cap T
    BY <2>1, <2>2 DEF Ahead
  <2>4. \A i \in T : z \notin Ahead(S, k, i)
    BY <2>1, <2>2 DEF Ahead
  <2>. QED
    BY <2>3, <2>4
<1>. QED
  BY <1>1, <1>2

Shares(S, k, given, pieces, net) ==
    [j \in S |-> ShareFor(S, k, given, pieces, net, j)]

(* The racks of a scan share its net weight, and nothing of it is lost to  *)
(* the rounding.                                                           *)
LEMMA SharesSum ==
    ASSUME NEW S, S \subseteq Int, IsFiniteSet(S), S # {}, NEW k,
           NEW given, \A j \in S : given[j] \in Nat,
           NEW pieces \in Nat \ {0}, NEW net \in Nat
    PROVE  /\ \A j \in S : Shares(S, k, given, pieces, net)[j] \in Nat
           /\ Total(Shares(S, k, given, pieces, net), S) = net
<1> DEFINE w == [i \in S |-> Rounded(net * given[i], pieces)]
           share == Shares(S, k, given, pieces, net)
           Before(j) == Ahead(S, k, j) \cap S
           Prefix(T) == \A j \in T : Before(j) \subseteq T
<1>1. \A T \in SUBSET S : IsFiniteSet(T)
  BY FS_Subset
<1>2. \A j \in S : w[j] \in Nat
  <2>1. \A j \in S : net * given[j] \in Nat
    OBVIOUS
  <2>. QED
    BY <2>1, RoundedIsNat
<1> HIDE DEF w
<1>3. \A T \in SUBSET S : Total(w, T) \in Nat
  BY <1>1, <1>2, TotalNat
<1>4. PICK z \in S : /\ S \ {z} = Before(z)
                     /\ \A i \in S : z \notin Ahead(S, k, i)
  BY LastIsBehind
<1>5. share[z] = Less(net, Total(w, Before(z)))
  BY <1>4, Zenon DEF Shares, ShareFor, w
<1>6. ASSUME NEW j \in S \ {z}
      PROVE  share[j] = Smaller(Less(net, Total(w, Before(j))), w[j])
  <2>1. ~\A i \in S : j \notin Ahead(S, k, i)
    BY <1>4
  <2>. QED
    BY <2>1, Zenon DEF Shares, ShareFor, w
<1>7. \A j \in S : share[j] \in Nat
  <2>1. \A j \in S : Total(w, Before(j)) \in Nat
    BY <1>3
  <2> HIDE DEF share, Before
  <2>2. share[z] \in Nat
    BY <1>5, <2>1 DEF Less
  <2>3. ASSUME NEW j \in S \ {z} PROVE share[j] \in Nat
    BY <1>2, <1>6, <2>1 DEF Less, Smaller
  <2>. QED
    BY <2>2, <2>3
<1> DEFINE Good == {T \in SUBSET (S \ {z}) :
                      Prefix(T) => Total(share, T) = Smaller(net, Total(w, T))}
<1>9. ASSUME NEW T \in SUBSET (S \ {z}), \A U \in SUBSET T : U # T => U \in Good, Prefix(T)
      PROVE  Total(share, T) = Smaller(net, Total(w, T))
  <2>1. CASE T = {}
    BY <2>1, TotalEmpty DEF Smaller
  <2>2. CASE T # {}
    <3>1. PICK x \in T : /\ T \ {x} = Ahead(S, k, x) \cap T
                         /\ \A i \in T : x \notin Ahead(S, k, i)
      BY <1>1, <2>2, LastIsBehind
    <3>2. T \ {x} = Before(x)
      BY <1>9, <3>1
    <3>3. Prefix(T \ {x})
      BY <1>9, <3>1
    <3>4. Total(share, T \ {x}) = Smaller(net, Total(w, T \ {x}))
      <4>1. T \ {x} \in SUBSET T /\ T \ {x} # T
        BY <3>1
      <4>. QED
        BY <1>9, <3>3, <4>1
    <3>5. share[x] = Smaller(Less(net, Total(w, T \ {x})), w[x])
      BY <1>6, <3>2
    <3>6. IsFiniteSet(T) /\ \A j \in T : share[j] \in Int /\ w[j] \in Int
      BY <1>1, <1>2, <1>7
    <3> HIDE DEF share
    <3>7. /\ Total(share, T) = share[x] + Total(share, T \ {x})
          /\ Total(w, T) = w[x] + Total(w, T \ {x})
      <4>1. \A j \in T : share[j] \in Int
        BY <3>6
      <4>2. Total(share, T) = share[x] + Total(share, T \ {x})
        BY <3>6, <4>1, TotalRemove
      <4>3. \A j \in T : w[j] \in Int
        BY <3>6
      <4>4. Total(w, T) = w[x] + Total(w, T \ {x})
        BY <3>6, <4>3, TotalRemove
      <4>. QED
        BY <4>2, <4>4
    <3>8. Total(w, T \ {x}) \in Nat /\ w[x] \in Nat
      BY <1>2, <1>3
    <3>. QED
      BY <3>4, <3>5, <3>7, <3>8 DEF Smaller, Less
  <2>. QED
    BY <2>1, <2>2
<1>10. S \ {z} \in Good
  <2>1. \A T \in SUBSET (S \ {z}) :
          (\A U \in SUBSET T : U # T => U \in Good) => T \in Good
    BY <1>9
  <2> DEFINE R == S \ {z}
  <2>2. IsFiniteSet(R)
    BY <1>1
  <2> HIDE DEF Good, R
  <2>3. \A T \in SUBSET R : (\A U \in SUBSET T : U # T => U \in Good) => T \in Good
    BY <2>1 DEF R
  <2>4. \A T \in SUBSET R : T \in Good
    BY <2>2, <2>3, SubsetInduction
  <2>. QED
    BY <2>4 DEF R
<1>11. Prefix(S \ {z})
  BY <1>4
<1>12. Total(share, S \ {z}) = Smaller(net, Total(w, S \ {z}))
  BY <1>10, <1>11
<1>13. Total(share, S) = net
  <2>1. \A j \in S : share[j] \in Int
    BY <1>7
  <2>2. Total(w, S \ {z}) \in Nat
    BY <1>3
  <2>3. share[z] = Less(net, Total(w, S \ {z}))
    BY <1>4, <1>5
  <2> HIDE DEF share
  <2>4. Total(share, S) = share[z] + Total(share, S \ {z})
    BY <2>1, TotalRemove
  <2>. QED
    BY <1>12, <2>2, <2>3, <2>4 DEF Smaller, Less
<1>. QED
  BY <1>7, <1>13

-----------------------------------------------------------------------------
(* The rows of the three tables name each other: scans are numbered, an    *)
(* entry is of one scan and one rack, and a rack that holds bobbins was    *)
(* last filled with its product.                                           *)
LastFill(k, e) ==
    /\ e \in EntriesOf(k)
    /\ Cargo[e.run] = racks[k].cargo
    /\ \A d \in EntriesOf(k) : d.scan <= e.scan
Rows ==
    /\ IsFiniteSet(entries)
    /\ \E n \in Nat : Scans = 1..n
    /\ \A e \in entries : e.rack \in DOMAIN racks
    /\ \A d, e \in entries : d.rack = e.rack /\ d.scan = e.scan => d = e
    /\ \A i \in DOMAIN loads : loads[i].rack \in DOMAIN racks
    /\ edit # Idle => edit.rack \in DOMAIN racks
    /\ \A k \in DOMAIN racks : racks[k].pieces > 0 => \E e : LastFill(k, e)

Reconciled(k) ==
    k \notin zeroed =>
        /\ racks[k].pieces + Total(LoadedPieces, LoadsOf(k)) =
              Total(ScannedPieces, EntriesOf(k))
        /\ racks[k].pieces <= racks[k].capacity
Weighed(k) == racks[k].kg + Total(LoadedKg, LoadsOf(k)) = Total(ScannedKg, EntriesOf(k))
GivenBy(q) == Mixture[q] = left[q] + Total(ScannedKg, {e \in entries : e.run = q})

RackInv ==
    /\ TypeOK
    /\ Rows
    /\ \A k \in DOMAIN racks : Reconciled(k) /\ Weighed(k)
    /\ \A q \in Runs : GivenBy(q)
    /\ SpoolTraceIsRight

-----------------------------------------------------------------------------
(* A table that is indexed from 1 is a sequence.                           *)
LEMMA TableIsSeq ==
    ASSUME NEW T, NEW rs, NEW n \in Nat, rs = [k \in 1..n |-> rs[k]],
           \A k \in 1..n : rs[k] \in T
    PROVE  rs \in Seq(T)
OBVIOUS

(* The rows of the typed tables.                                           *)
LEMMA RacksAreSeq ==
    ASSUME TypeOK
    PROVE  /\ Len(racks) \in Nat /\ DOMAIN racks = 1..Len(racks)
           /\ racks = [k \in 1..Len(racks) |-> racks[k]]
           /\ \A k \in DOMAIN racks : racks[k] \in RackType
           /\ Len(loads) \in Nat /\ DOMAIN loads = 1..Len(loads)
           /\ \A i \in DOMAIN loads : loads[i] \in LoadType
           /\ \A e \in entries : e \in EntryType
BY DEF TypeOK

(* What is added up is finite, and of naturals.                            *)
LEMMA SumsAreOfNats ==
    ASSUME TypeOK, IsFiniteSet(entries)
    PROVE  /\ \A S \in SUBSET entries : IsFiniteSet(S)
           /\ \A S \in SUBSET DOMAIN loads : IsFiniteSet(S)
           /\ \A e \in entries : ScannedPieces[e] \in Nat /\ ScannedKg[e] \in Nat
           /\ \A i \in DOMAIN loads : LoadedPieces[i] \in Nat /\ LoadedKg[i] \in Nat
<1>1. IsFiniteSet(DOMAIN loads)
  <2>1. Len(loads) \in Nat /\ DOMAIN loads = 1..Len(loads)
    BY RacksAreSeq
  <2>2. IsFiniteSet(1..Len(loads))
    BY <2>1, FS_Interval
  <2>. QED
    BY <2>1, <2>2
<1>2. \A e \in entries : e.pieces \in Nat /\ e.net \in Nat
  BY RacksAreSeq DEF EntryType
<1>3. \A i \in DOMAIN loads : loads[i].pieces \in Nat /\ loads[i].kg \in Nat
  BY RacksAreSeq DEF LoadType
<1>. QED
  BY <1>1, <1>2, <1>3, FS_Subset DEF ScannedPieces, ScannedKg, LoadedPieces, LoadedKg

(* A rack that holds bobbins knows its last production.                    *)
LEMMA LatestIsLastFill ==
    ASSUME TypeOK, Rows, NEW k \in DOMAIN racks, racks[k].pieces > 0
    PROVE  LastFill(k, LatestOf(k)) /\ LatestOf(k) \in EntryType
<1>1. PICK e : LastFill(k, e)
  BY DEF Rows
<1>2. /\ LatestOf(k) \in EntriesOf(k)
      /\ \A d \in EntriesOf(k) : d.scan <= LatestOf(k).scan
  BY <1>1 DEF LatestOf, LastFill
<1>3. \A d \in EntriesOf(k) : d \in entries /\ d.rack = k /\ d.scan \in Nat /\ d \in EntryType
  BY RacksAreSeq DEF EntriesOf, EntryType
<1>4. LatestOf(k).scan = e.scan
  BY <1>1, <1>2, <1>3 DEF LastFill
<1>5. LatestOf(k) = e
  BY <1>1, <1>2, <1>3, <1>4 DEF LastFill, Rows
<1>. QED
  BY <1>1, <1>3, <1>5 DEF LastFill

-----------------------------------------------------------------------------
(* A step that neither produces nor loads: racks may be added empty, and   *)
(* an edit may overwrite the pieces of a rack, which then counts as        *)
(* zeroed.                                                                 *)
LEMMA SameRows ==
    ASSUME RackInv, TypeOK', UNCHANGED <<left, entries, loads>>, zeroed \subseteq zeroed',
           DOMAIN racks \subseteq DOMAIN racks',
           \A k \in DOMAIN racks :
              /\ racks'[k].kg = racks[k].kg
              /\ \/ /\ racks'[k].pieces = racks[k].pieces
                    /\ racks'[k].cargo = racks[k].cargo
                    /\ racks'[k].capacity = racks[k].capacity
                 \/ /\ racks'[k].pieces = 0
                    /\ \/ k \in zeroed'
                       \/ racks[k].pieces = 0 /\ racks'[k].capacity = racks[k].capacity,
           \A k \in DOMAIN racks' \ DOMAIN racks : racks'[k].pieces = 0 /\ racks'[k].kg = 0,
           edit' = Idle \/ edit'.rack \in DOMAIN racks
    PROVE  RackInv'
<1>1. UNCHANGED <<Scans, LoadedPieces, LoadedKg, ScannedPieces, ScannedKg>>
  BY DEF Scans, LoadedPieces, LoadedKg, ScannedPieces, ScannedKg
<1>2. \A k : EntriesOf(k)' = EntriesOf(k) /\ LoadsOf(k)' = LoadsOf(k)
  BY DEF EntriesOf, LoadsOf
<1>3. Rows'
  <2>1. ASSUME NEW k \in DOMAIN racks', racks'[k].pieces > 0
        PROVE  \E e : LastFill(k, e)'
    <3>1. k \in DOMAIN racks
      BY <2>1
    <3>2. racks'[k].pieces = racks[k].pieces /\ racks'[k].cargo = racks[k].cargo
      BY <2>1, <3>1
    <3>3. PICK e : LastFill(k, e)
      BY <2>1, <3>1, <3>2 DEF RackInv, Rows
    <3>4. LastFill(k, e)'
      BY <1>2, <3>2, <3>3 DEF LastFill
    <3>. QED
      BY <3>4
  <2>2. /\ IsFiniteSet(entries)
        /\ \E n \in Nat : Scans = 1..n
        /\ \A e \in entries : e.rack \in DOMAIN racks
        /\ \A d, e \in entries : d.rack = e.rack /\ d.scan = e.scan => d = e
        /\ \A i \in DOMAIN loads : loads[i].rack \in DOMAIN racks
    BY DEF RackInv, Rows
  <2>. QED
    BY <1>1, <2>1, <2>2 DEF Rows
<1>4. ASSUME NEW k \in DOMAIN racks'
      PROVE  Reconciled(k)' /\ Weighed(k)'
  <2>1. CASE k \in DOMAIN racks
    <3>1. Reconciled(k) /\ Weighed(k) /\ racks[k].capacity \in Nat
      BY <2>1, RacksAreSeq DEF RackInv, RackType
    <3>2. Weighed(k)'
      BY <1>1, <1>2, <2>1, <3>1 DEF Weighed
    <3>3. Reconciled(k)'
      <4>1. CASE k \in zeroed'
        BY <4>1 DEF Reconciled
      <4>2. CASE k \notin zeroed'
        <5>1. racks'[k].pieces = racks[k].pieces /\ racks'[k].capacity = racks[k].capacity
          BY <2>1, <4>2
        <5>. QED
          BY <1>1, <1>2, <3>1, <4>2, <5>1 DEF Reconciled
      <4>. QED
        BY <4>1, <4>2
    <3>. QED
      BY <3>2, <3>3
  <2>2. CASE k \notin DOMAIN racks
    <3>1. racks'[k].pieces = 0 /\ racks'[k].kg = 0 /\ racks'[k].capacity \in Nat
      <4>1. racks'[k] \in RackType
        BY DEF TypeOK
      <4>. QED
        BY <2>2, <4>1 DEF RackType
    <3>2. EntriesOf(k) = {} /\ LoadsOf(k) = {}
      BY <2>2 DEF EntriesOf, LoadsOf, RackInv, Rows
    <3>3. /\ Total(LoadedPieces, {}) = 0 /\ Total(ScannedPieces, {}) = 0
          /\ Total(LoadedKg, {}) = 0 /\ Total(ScannedKg, {}) = 0
      BY TotalEmpty
    <3>4. LoadsOf(k)' = {} /\ EntriesOf(k)' = {}
      BY <1>2, <3>2
    <3>. QED
      BY <1>1, <3>1, <3>3, <3>4 DEF Reconciled, Weighed
  <2>. QED
    BY <2>1, <2>2
<1>5. \A q \in Runs : GivenBy(q)'
  BY <1>1 DEF RackInv, GivenBy
<1>6. SpoolTraceIsRight'
  BY <1>2 DEF RackInv, SpoolTraceIsRight
<1>. QED
  BY <1>3, <1>4, <1>5, <1>6 DEF RackInv

(* A session in a request, and a row of the queue.                         *)
DeskType == {Idle} \cup [op : {"ready"}, session : Nat]
QueueType == [status : Statuses, session : Nat]

(* The rows of a rack that the handlers make.                              *)
LEMMA NewRackType ==
    ASSUME NEW capacity \in Nat, NEW unit \in Nat
    PROVE  NewRack(capacity, unit) \in RackType
BY DEF NewRack, RackType

(* The table with its new racks.                                           *)
LEMMA WithNewType ==
    ASSUME TypeOK, NEW n \in Nat, NEW new \in RackType
    PROVE  /\ Len(racks) + n \in Nat
           /\ DOMAIN WithNew(n, new) = 1..(Len(racks) + n)
           /\ DOMAIN racks \subseteq DOMAIN WithNew(n, new)
           /\ WithNew(n, new) = [k \in 1..(Len(racks) + n) |-> WithNew(n, new)[k]]
           /\ \A k \in DOMAIN WithNew(n, new) :
                 /\ WithNew(n, new)[k] = IF k \in DOMAIN racks THEN racks[k] ELSE new
                 /\ WithNew(n, new)[k] \in RackType
           /\ WithNew(n, new) \in Seq(RackType)
<1>1. Len(racks) + n \in Nat /\ DOMAIN racks \subseteq 1..(Len(racks) + n)
  BY RacksAreSeq
<1>2. \A k \in DOMAIN racks : racks[k] \in RackType
  BY RacksAreSeq
<1> DEFINE all == WithNew(n, new)
<1>3. all = [k \in 1..(Len(racks) + n) |-> IF k \in DOMAIN racks THEN racks[k] ELSE new]
  BY DEF WithNew
<1> HIDE DEF all
<1>4. \A k \in 1..(Len(racks) + n) :
         /\ all[k] = IF k \in DOMAIN racks THEN racks[k] ELSE new
         /\ all[k] \in RackType
  BY <1>2, <1>3
<1>5. all \in Seq(RackType)
  BY <1>1, <1>3, <1>4, TableIsSeq
<1>. QED
  BY <1>1, <1>3, <1>4, <1>5 DEF all

(* The steps of Extrusion that scan nothing.                               *)
LEMMA DeskKept ==
    ASSUME RackInv, NEW c \in Clerks,
           Begin(c) \/ Rollback(c) \/ \E q \in Runs : Activate(c, q)
    PROVE  RackInv'
<1>1. UNCHANGED <<session, opened, left, racks, entries, loads, edit, edits, zeroed>>
  BY DEF Begin, Rollback, Activate, production, edition
<1>2. desk \in [Clerks -> DeskType] /\ session \in Nat
  BY DEF RackInv, TypeOK, DeskType
<1>3. desk' \in [Clerks -> DeskType]
  BY <1>2 DEF Begin, Rollback, Activate, Answer, DeskType
<1>4. queue' \in [Runs -> QueueType]
  <2>1. queue \in [Runs -> QueueType]
    BY DEF RackInv, TypeOK, QueueType, Statuses
  <2>2. ASSUME NEW q \in Runs, Activate(c, q) PROVE queue' \in [Runs -> QueueType]
    <3>1. desk[c].session \in Nat
      BY <1>2, <2>2 DEF Activate, Ready, DeskType, Idle
    <3>2. [status |-> "ACTIVA", session |-> desk[c].session] \in QueueType
      BY <3>1 DEF QueueType, Statuses
    <3>. QED
      BY <2>1, <2>2, <3>2, Zenon DEF Activate
  <2>. QED
    BY <2>1, <2>2 DEF Begin, Rollback, production
<1>5. TypeOK'
  BY <1>1, <1>3, <1>4 DEF RackInv, TypeOK, DeskType, QueueType, Statuses
<1>6. edit' = Idle \/ edit'.rack \in DOMAIN racks
  BY <1>1 DEF RackInv, Rows
<1>. QED
  BY <1>1, <1>5, <1>6, SameRows

(* A rack is created empty.                                                *)
LEMMA CreateRackKept ==
    ASSUME RackInv, NEW capacity \in Capacities, CreateRack(capacity)
    PROVE  RackInv'
<1> DEFINE new == NewRack(capacity, 0)
           all == WithNew(1, new)
<1>1. new \in RackType /\ new.pieces = 0 /\ new.kg = 0
  BY RackAssumption, NewRackType DEF NewRack
<1>2. racks' = all
  BY DEF CreateRack
<1> HIDE DEF new
<1>3. /\ DOMAIN racks \subseteq DOMAIN all
      /\ \A k \in DOMAIN all : all[k] = IF k \in DOMAIN racks THEN racks[k] ELSE new
      /\ \A k \in DOMAIN all : all[k] \in RackType
      /\ all \in Seq(RackType)
  <2>1. TypeOK /\ 1 \in Nat
    BY DEF RackInv
  <2>. QED
    BY <1>1, <2>1, WithNewType
<1> HIDE DEF all
<1>4. UNCHANGED <<session, opened, queue, left, entries, loads, desk, edit, edits, zeroed>>
  BY DEF CreateRack, production, edition
<1>5. \A k \in DOMAIN racks' : racks'[k].pieces > 0 => racks'[k].cargo # Empty
  BY <1>1, <1>2, <1>3 DEF RackInv, TypeOK
<1>6. TypeOK'
  BY <1>2, <1>3, <1>4, <1>5 DEF RackInv, TypeOK
<1>7. edit' = Idle \/ edit'.rack \in DOMAIN racks
  BY <1>4 DEF RackInv, Rows
<1>8. \A k \in DOMAIN racks : racks'[k] = racks[k]
  BY <1>2, <1>3
<1>9. \A k \in DOMAIN racks' \ DOMAIN racks : racks'[k].pieces = 0 /\ racks'[k].kg = 0
  BY <1>1, <1>2, <1>3
<1>. QED
  BY <1>2, <1>3, <1>4, <1>6, <1>7, <1>8, <1>9, SameRows

(* Opening and closing a session touch only the custody of racks.          *)
LEMMA SessionsKept ==
    ASSUME RackInv, OpenSession \/ CloseSession
    PROVE  RackInv'
<1>1. UNCHANGED <<left, entries, loads, desk, edit, edits, zeroed>>
  BY DEF OpenSession, CloseSession, edition
<1>2. session' \in Nat /\ opened' \in Nat
  BY DEF OpenSession, CloseSession, RackInv, TypeOK
<1>3. queue' \in [Runs -> QueueType]
  <2>1. queue \in [Runs -> QueueType] /\ opened + 1 \in Nat
    BY DEF RackInv, TypeOK, QueueType, Statuses
  <2>2. \A q \in Runs : /\ [queue[q] EXCEPT !.session = opened + 1] \in QueueType
                        /\ [queue[q] EXCEPT !.status = "PAUSADA"] \in QueueType
    BY <2>1 DEF QueueType, Statuses
  <2>. QED
    BY <2>1, <2>2 DEF OpenSession, CloseSession
<1>4. DOMAIN racks' = DOMAIN racks /\ racks' = [k \in DOMAIN racks |-> racks'[k]]
  BY RacksAreSeq DEF OpenSession, CloseSession, RackInv
<1>5. \A k \in DOMAIN racks :
         /\ racks'[k] \in RackType /\ racks'[k].kg = racks[k].kg
         /\ racks'[k].pieces = racks[k].pieces /\ racks'[k].cargo = racks[k].cargo
         /\ racks'[k].capacity = racks[k].capacity
  <2>1. \A k \in DOMAIN racks : racks[k] \in RackType
    BY RacksAreSeq DEF RackInv
  <2>. QED
    BY <2>1 DEF OpenSession, CloseSession, RackType
<1>6. TypeOK'
  <2>1. racks' \in Seq(RackType)
    BY <1>4, <1>5, RacksAreSeq, TableIsSeq DEF RackInv
  <2>2. \A k \in DOMAIN racks' : racks'[k].pieces > 0 => racks'[k].cargo # Empty
    BY <1>4, <1>5 DEF RackInv, TypeOK
  <2>. QED
    BY <1>1, <1>2, <1>3, <2>1, <2>2 DEF RackInv, TypeOK, QueueType, Statuses
<1>7. edit' = Idle \/ edit'.rack \in DOMAIN racks
  BY <1>1 DEF RackInv, Rows
<1>. QED
  BY <1>1, <1>4, <1>5, <1>6, <1>7, SameRows

(* An edit reads a rack that exists.                                       *)
LEMMA ReadPriceKept ==
    ASSUME RackInv, NEW k \in DOMAIN racks, ReadPrice(k)
    PROVE  RackInv'
<1>1. /\ UNCHANGED <<session, opened, queue, left, racks, entries, loads, desk, zeroed>>
      /\ edits' = edits + 1
      /\ edit' = [op |-> "edit", rack |-> k, empty |-> racks[k].pieces = 0,
                  bare |-> racks[k].cargo = Empty]
  BY DEF ReadPrice, production
<1>2. k \in Nat
  BY RacksAreSeq DEF RackInv
<1>3. edit' \in [op : {"edit"}, rack : Nat, empty : BOOLEAN, bare : BOOLEAN]
  BY <1>1, <1>2
<1>4. edit'.rack \in DOMAIN racks
  BY <1>1
<1>5. TypeOK'
  BY <1>1, <1>3 DEF RackInv, TypeOK
<1>. QED
  BY <1>1, <1>4, <1>5, SameRows

(* An edit that saves the unit weight, and maybe overwrites the pieces.    *)
LEMMA SavePriceKept ==
    ASSUME RackInv, NEW unit \in Units, SavePrice(unit)
    PROVE  RackInv'
<1> DEFINE k == edit.rack
           rack == [racks[k] EXCEPT !.unit = unit]
           cargo == IF edit.bare THEN rack.cargo ELSE Empty
           emptied == [rack EXCEPT !.pieces = 0, !.cargo = cargo]
           r == IF edit.empty THEN emptied ELSE rack
<1>1. /\ edit.op = "edit" /\ racks' = [racks EXCEPT ![k] = r]
      /\ zeroed' = (IF edit.empty /\ rack.pieces > 0 THEN zeroed \cup {k} ELSE zeroed)
      /\ edit' = Idle
      /\ UNCHANGED <<session, opened, queue, left, entries, loads, desk, edits>>
  BY Zenon DEF SavePrice, production
<1>2. k \in DOMAIN racks
  BY <1>1 DEF RackInv, Rows, Idle
<1>3. racks[k] \in RackType /\ unit \in Nat /\ k \in Nat
  BY <1>2, RacksAreSeq, RackAssumption DEF RackInv
<1>4. /\ rack \in RackType /\ rack.pieces = racks[k].pieces /\ rack.kg = racks[k].kg
      /\ rack.cargo = racks[k].cargo /\ rack.capacity = racks[k].capacity
  BY <1>3 DEF RackType
<1> HIDE DEF rack
<1>5. cargo \in Cargoes \cup {Empty}
  BY <1>4 DEF RackType
<1> HIDE DEF cargo
<1>6. /\ emptied \in RackType /\ emptied.pieces = 0 /\ emptied.kg = racks[k].kg
      /\ emptied.capacity = racks[k].capacity
  BY <1>4, <1>5 DEF RackType
<1> HIDE DEF emptied
<1>7. /\ r \in RackType /\ r.kg = racks[k].kg /\ r.capacity = racks[k].capacity
      /\ \/ r.pieces = racks[k].pieces /\ r.cargo = racks[k].cargo
         \/ r.pieces = 0 /\ (k \in zeroed' \/ racks[k].pieces = 0)
  <2>1. racks[k].pieces \in Nat
    BY <1>3 DEF RackType
  <2>. QED
    BY <1>1, <1>4, <1>6, <2>1
<1> HIDE DEF r
<1>8. /\ DOMAIN racks' = DOMAIN racks /\ racks'[k] = r
      /\ \A j \in DOMAIN racks \ {k} : racks'[j] = racks[j]
  BY <1>1, <1>2
<1>9. TypeOK'
  <2>1. racks' \in Seq(RackType)
    BY <1>1, <1>2, <1>7 DEF RackInv, TypeOK
  <2>2. \A j \in DOMAIN racks' : racks'[j].pieces > 0 => racks'[j].cargo # Empty
    BY <1>2, <1>7, <1>8 DEF RackInv, TypeOK
  <2>3. zeroed' \subseteq Nat
    BY <1>1, <1>3 DEF RackInv, TypeOK
  <2>. QED
    BY <1>1, <2>1, <2>2, <2>3 DEF RackInv, TypeOK
<1>10. zeroed \subseteq zeroed'
  BY <1>1
<1>11. \A j \in DOMAIN racks :
          /\ racks'[j].kg = racks[j].kg
          /\ \/ /\ racks'[j].pieces = racks[j].pieces
                /\ racks'[j].cargo = racks[j].cargo
                /\ racks'[j].capacity = racks[j].capacity
             \/ /\ racks'[j].pieces = 0
                /\ \/ j \in zeroed'
                   \/ racks[j].pieces = 0 /\ racks'[j].capacity = racks[j].capacity
  BY <1>7, <1>8
<1>. QED
  BY <1>1, <1>8, <1>9, <1>10, <1>11, SameRows

(* One load more of a rack.                                                *)
LEMMA LoadsGrow ==
    ASSUME TypeOK, IsFiniteSet(entries), NEW x \in LoadType, loads' = Append(loads, x), NEW j
    PROVE  /\ Total(LoadedPieces', LoadsOf(j)') =
                 Total(LoadedPieces, LoadsOf(j)) + (IF j = x.rack THEN x.pieces ELSE 0)
           /\ Total(LoadedKg', LoadsOf(j)') =
                 Total(LoadedKg, LoadsOf(j)) + (IF j = x.rack THEN x.kg ELSE 0)
<1> DEFINE n == Len(loads) + 1
           L == LoadsOf(j)
<1>1. n \in Nat /\ DOMAIN loads = 1..Len(loads) /\ n \notin DOMAIN loads
  BY RacksAreSeq
<1>2. /\ DOMAIN loads' = DOMAIN loads \cup {n}
      /\ \A i \in DOMAIN loads : loads'[i] = loads[i]
      /\ loads'[n] = x
  BY <1>1 DEF TypeOK
<1> HIDE DEF n
<1>3. LoadsOf(j)' = IF j = x.rack THEN L \cup {n} ELSE L
  BY <1>1, <1>2 DEF LoadsOf
<1>4. /\ IsFiniteSet(L) /\ n \notin L
      /\ \A i \in L : /\ LoadedPieces[i] \in Int /\ LoadedPieces'[i] = LoadedPieces[i]
                      /\ LoadedKg[i] \in Int /\ LoadedKg'[i] = LoadedKg[i]
      /\ LoadedPieces'[n] = x.pieces /\ LoadedKg'[n] = x.kg
  <2>1. L \subseteq DOMAIN loads
    BY DEF LoadsOf
  <2>2. IsFiniteSet(L)
    BY <2>1, SumsAreOfNats
  <2>3. \A i \in L : LoadedPieces[i] \in Int /\ LoadedKg[i] \in Int
    BY <2>1, SumsAreOfNats
  <2>. QED
    BY <1>1, <1>2, <2>1, <2>2, <2>3 DEF LoadedPieces, LoadedKg
<1>5. x.pieces \in Nat /\ x.kg \in Nat
  BY DEF LoadType
<1> HIDE DEF L
<1>6. Total(LoadedPieces', L) = Total(LoadedPieces, L) /\ Total(LoadedKg', L) = Total(LoadedKg, L)
  <2>1. \A i \in L : LoadedPieces[i] = LoadedPieces'[i]
    BY <1>4
  <2>2. \A i \in L : LoadedKg[i] = LoadedKg'[i]
    BY <1>4
  <2>3. Total(LoadedPieces, L) = Total(LoadedPieces', L)
    BY <1>4, <2>1, TotalEqual
  <2>4. Total(LoadedKg, L) = Total(LoadedKg', L)
    BY <1>4, <2>2, TotalEqual
  <2>. QED
    BY <2>3, <2>4
<1>7. Total(LoadedPieces, L) \in Int /\ Total(LoadedKg, L) \in Int
  BY <1>4, TotalInt
<1>8. Total(LoadedPieces', L \cup {n}) = x.pieces + Total(LoadedPieces', L)
  <2>1. \A i \in L \cup {n} : LoadedPieces'[i] \in Int
    BY <1>4, <1>5
  <2>. QED
    BY <1>4, <2>1, TotalAdd
<1>9. Total(LoadedKg', L \cup {n}) = x.kg + Total(LoadedKg', L)
  <2>1. \A i \in L \cup {n} : LoadedKg'[i] \in Int
    BY <1>4, <1>5
  <2>. QED
    BY <1>4, <2>1, TotalAdd
<1>10. CASE j = x.rack
  <2>1. LoadsOf(j)' = L \cup {n}
    BY <1>3, <1>10
  <2>. QED
    BY <1>5, <1>6, <1>7, <1>8, <1>9, <1>10, <2>1 DEF L
<1>11. CASE j # x.rack
  <2>1. LoadsOf(j)' = L
    BY <1>3, <1>11
  <2>. QED
    BY <1>6, <1>7, <1>11, <2>1 DEF L
<1>. QED
  BY <1>10, <1>11

(* What a loom takes leaves the rack, and is traced to its last production.*)
LEMMA LoadCreelKept ==
    ASSUME RackInv, NEW k \in DOMAIN racks, NEW n \in 1..racks[k].pieces, LoadCreel(k, n)
    PROVE  RackInv'
<1> DEFINE rack == racks[k]
           unit == IF rack.unit > 0 THEN rack.unit ELSE Standard[rack.cargo]
           kg == Hundredths(n * unit)
           x == [rack |-> k, cargo |-> rack.cargo, pieces |-> n, kg |-> kg,
                 source |-> LatestOf(k)]
           p == rack.pieces - n
           w == rack.kg - kg
           left1 == [rack EXCEPT !.pieces = p, !.kg = w]
           r == Saved(left1)
<1>1. /\ loads' = Append(loads, x) /\ racks' = [racks EXCEPT ![k] = r]
      /\ UNCHANGED <<session, opened, queue, left, entries, desk, edit, edits, zeroed>>
  BY Zenon DEF LoadCreel, production, edition
<1>2. rack \in RackType /\ k \in Nat
  BY RacksAreSeq DEF RackInv
<1>3. n \in Nat /\ n > 0 /\ n <= rack.pieces /\ rack.pieces \in Nat
  BY <1>2 DEF RackType
<1>4. rack.cargo \in Cargoes /\ rack.cargo # Empty
  <2>1. rack.pieces > 0
    BY <1>3
  <2>2. rack.cargo # Empty
    BY <2>1 DEF RackInv, TypeOK
  <2>. QED
    BY <1>2, <2>2 DEF RackType
<1>5. unit \in Nat
  <2>1. Standard[rack.cargo] \in Nat
    BY <1>4, RackAssumption DEF Cargoes
  <2>. QED
    BY <1>2, <2>1 DEF RackType
<1>6. kg \in Nat
  <2> HIDE DEF unit
  <2>1. n * unit \in Nat
    BY <1>3, <1>5
  <2>. QED
    BY <2>1, HundredthsIsNat
<1> HIDE DEF unit, kg
<1>7. LastFill(k, LatestOf(k)) /\ LatestOf(k) \in EntryType
  <2>1. racks[k].pieces > 0
    BY <1>3
  <2>. QED
    BY <2>1, LatestIsLastFill DEF RackInv
<1>8. /\ x \in LoadType /\ x.rack = k /\ x.pieces = n /\ x.kg = kg
      /\ x.source = LatestOf(k) /\ x.cargo = rack.cargo
  BY <1>2, <1>3, <1>4, <1>6, <1>7 DEF LoadType
<1> HIDE DEF x
<1>9. p \in Nat /\ p = rack.pieces - n /\ w \in Int /\ w = rack.kg - kg
  BY <1>2, <1>3, <1>6 DEF RackType
<1> HIDE DEF p, w
<1>10. /\ left1 \in RackType /\ left1.pieces = p /\ left1.kg = w
       /\ left1.cargo = rack.cargo /\ left1.capacity = rack.capacity
  BY <1>2, <1>9 DEF RackType
<1> HIDE DEF left1
<1>11. /\ r \in RackType /\ r.pieces = p /\ r.kg = w /\ r.capacity = rack.capacity
       /\ p > 0 => r.cargo = rack.cargo
  BY <1>9, <1>10 DEF Saved, RackType
<1> HIDE DEF r
<1>12. /\ DOMAIN racks' = DOMAIN racks /\ racks'[k] = r
       /\ \A j \in DOMAIN racks \ {k} : racks'[j] = racks[j]
  BY <1>1
<1>13. TypeOK'
  <2>1. racks' \in Seq(RackType)
    BY <1>1, <1>11 DEF RackInv, TypeOK
  <2>2. \A j \in DOMAIN racks' : racks'[j].pieces > 0 => racks'[j].cargo # Empty
    BY <1>4, <1>11, <1>12 DEF RackInv, TypeOK
  <2>3. loads' \in Seq(LoadType)
    BY <1>1, <1>8 DEF RackInv, TypeOK
  <2>. QED
    BY <1>1, <2>1, <2>2, <2>3 DEF RackInv, TypeOK
<1>14. /\ DOMAIN loads' = DOMAIN loads \cup {Len(loads) + 1}
       /\ \A i \in DOMAIN loads : loads'[i] = loads[i]
       /\ loads'[Len(loads) + 1] = x
  BY <1>1 DEF RackInv, TypeOK
<1>15. \A j : EntriesOf(j)' = EntriesOf(j)
  BY <1>1 DEF EntriesOf
<1>16. Rows'
  <2>1. ASSUME NEW j \in DOMAIN racks', racks'[j].pieces > 0
        PROVE  \E e : LastFill(j, e)'
    <3>1. racks[j].pieces > 0 /\ racks'[j].cargo = racks[j].cargo /\ j \in DOMAIN racks
      BY <1>3, <1>9, <1>11, <1>12, <2>1
    <3>2. PICK e : LastFill(j, e)
      BY <3>1 DEF RackInv, Rows
    <3>3. LastFill(j, e)'
      BY <1>15, <3>1, <3>2 DEF LastFill
    <3>. QED
      BY <3>3
  <2>2. \A i \in DOMAIN loads' : loads'[i].rack \in DOMAIN racks
    BY <1>8, <1>14 DEF RackInv, Rows
  <2>3. edit' # Idle => edit'.rack \in DOMAIN racks
    BY <1>1 DEF RackInv, Rows
  <2>4. /\ IsFiniteSet(entries)
        /\ \E m \in Nat : Scans = 1..m
        /\ \A e \in entries : e.rack \in DOMAIN racks
        /\ \A d, e \in entries : d.rack = e.rack /\ d.scan = e.scan => d = e
    BY DEF RackInv, Rows
  <2>5. Scans' = Scans
    BY <1>1 DEF Scans
  <2>. QED
    BY <1>1, <1>12, <2>1, <2>2, <2>3, <2>4, <2>5 DEF Rows
<1>17. UNCHANGED <<ScannedPieces, ScannedKg>>
  BY <1>1 DEF ScannedPieces, ScannedKg
<1>18. ASSUME NEW j \in DOMAIN racks'
       PROVE  Reconciled(j)' /\ Weighed(j)'
  <2>1. Reconciled(j) /\ Weighed(j) /\ racks[j] \in RackType
    BY <1>12, <1>18, RacksAreSeq DEF RackInv
  <2>2. /\ Total(LoadedPieces', LoadsOf(j)') =
              Total(LoadedPieces, LoadsOf(j)) + (IF j = k THEN n ELSE 0)
        /\ Total(LoadedKg', LoadsOf(j)') =
              Total(LoadedKg, LoadsOf(j)) + (IF j = k THEN kg ELSE 0)
    BY <1>1, <1>8, LoadsGrow DEF RackInv, Rows
  <2>3. /\ racks'[j].pieces = racks[j].pieces - (IF j = k THEN n ELSE 0)
        /\ racks'[j].kg = racks[j].kg - (IF j = k THEN kg ELSE 0)
        /\ racks'[j].capacity = racks[j].capacity
    BY <1>9, <1>11, <1>12, <1>18, <2>1 DEF RackType
  <2> DEFINE a == Total(LoadedPieces, LoadsOf(j))
             b == Total(LoadedKg, LoadsOf(j))
  <2>4. a \in Int /\ b \in Int
    <3>1. LoadsOf(j) \subseteq DOMAIN loads
      BY DEF LoadsOf
    <3>2. TypeOK /\ IsFiniteSet(entries)
      BY DEF RackInv, Rows
    <3>3. /\ IsFiniteSet(LoadsOf(j))
          /\ \A i \in LoadsOf(j) : LoadedPieces[i] \in Int /\ LoadedKg[i] \in Int
      BY <3>1, <3>2, SumsAreOfNats
    <3>. QED
      BY <3>3, TotalInt
  <2>5. racks[j].pieces \in Nat /\ racks[j].kg \in Int /\ racks[j].capacity \in Nat
    BY <2>1 DEF RackType
  <2>6. Reconciled(j)'
    <3> SUFFICES ASSUME j \notin zeroed'
                 PROVE  /\ racks'[j].pieces + Total(LoadedPieces', LoadsOf(j)') =
                              Total(ScannedPieces', EntriesOf(j)')
                        /\ racks'[j].pieces <= racks'[j].capacity
      BY DEF Reconciled
    <3>1. /\ racks[j].pieces + a = Total(ScannedPieces, EntriesOf(j))
          /\ racks[j].pieces <= racks[j].capacity
      BY <1>1, <2>1 DEF Reconciled
    <3>2. Total(LoadedPieces', LoadsOf(j)') = a + (IF j = k THEN n ELSE 0)
      BY <2>2
    <3> HIDE DEF a
    <3>. QED
      BY <1>3, <1>15, <1>17, <2>3, <2>4, <2>5, <3>1, <3>2
  <2>7. Weighed(j)'
    <3>1. racks[j].kg + b = Total(ScannedKg, EntriesOf(j))
      BY <2>1 DEF Weighed
    <3>2. Total(LoadedKg', LoadsOf(j)') = b + (IF j = k THEN kg ELSE 0)
      BY <2>2
    <3> HIDE DEF b
    <3>. QED
      BY <1>6, <1>15, <1>17, <2>3, <2>4, <2>5, <3>1, <3>2 DEF Weighed
  <2>. QED
    BY <2>6, <2>7
<1>19. \A q \in Runs : GivenBy(q)'
  BY <1>1, <1>17 DEF RackInv, GivenBy
<1>20. SpoolTraceIsRight'
  <2>1. ASSUME NEW i \in DOMAIN loads'
        PROVE  /\ loads'[i].source \in EntriesOf(loads'[i].rack)
               /\ Cargo[loads'[i].source.run] = loads'[i].cargo
    <3>1. CASE i \in DOMAIN loads
      BY <1>14, <3>1 DEF RackInv, SpoolTraceIsRight
    <3>2. CASE i = Len(loads) + 1
      BY <1>7, <1>8, <1>14, <3>2 DEF LastFill
    <3>. QED
      BY <1>14, <2>1, <3>1, <3>2
  <2>. QED
    BY <1>15, <2>1 DEF SpoolTraceIsRight
<1>. QED
  BY <1>13, <1>16, <1>18, <1>19, <1>20 DEF RackInv

-----------------------------------------------------------------------------
(* What a scan of run q does: it serves some racks, each with an entry; it *)
(* gives each the pieces that fit and a share of the net weight.           *)
HadPieces(j) == IF j \in DOMAIN racks THEN racks[j].pieces ELSE 0
HadKg(j) == IF j \in DOMAIN racks THEN racks[j].kg ELSE 0
EntryOf(q, s, given, kg, j) ==
    [scan |-> Cardinality(Scans) + 1, rack |-> j, run |-> q, session |-> s,
     late |-> s # session, pieces |-> given[j], net |-> kg[j]]
Serves(served, given, kg, net) ==
    /\ served \subseteq DOMAIN racks' /\ served # {} /\ IsFiniteSet(served)
    /\ \A j \in served : given[j] \in Nat \ {0} /\ kg[j] \in Nat
    /\ net \in Nat /\ Total(kg, served) = net
    /\ kg = [j \in served |-> kg[j]]
Fills(q, served, given, kg) ==
    /\ DOMAIN racks \subseteq DOMAIN racks' /\ racks' \in Seq(RackType)
    /\ \A j \in served :
          /\ racks'[j].pieces = HadPieces(j) + given[j]
          /\ racks'[j].kg = HadKg(j) + kg[j]
          /\ racks'[j].pieces <= racks'[j].capacity
          /\ racks'[j].cargo = Cargo[q]
    /\ \A j \in DOMAIN racks' \ served :
          IF j \in DOMAIN racks THEN racks'[j] = racks[j]
          ELSE racks'[j].pieces = 0 /\ racks'[j].kg = 0
NewEntries(q, s, served, given, kg) == {EntryOf(q, s, given, kg, j) : j \in served}
Documents(q, s, served, given, kg) ==
    entries' = entries \cup NewEntries(q, s, served, given, kg)

(* What fits in the racks that a scan may fill.                            *)
LEMMA RoomsAreNat ==
    ASSUME NEW all \in Seq(RackType)
    PROVE  /\ \A j \in DOMAIN all : Rooms(all)[j] = Room(all[j]) /\ Room(all[j]) \in Nat
           /\ \A S \in SUBSET DOMAIN all : IsFiniteSet(S) /\ Total(Rooms(all), S) \in Nat
<1>1. \A j \in DOMAIN all : all[j].capacity \in Nat /\ all[j].pieces \in Nat
  <2>1. \A j \in DOMAIN all : all[j] \in RackType
    OBVIOUS
  <2>. QED
    BY <2>1 DEF RackType
<1>2. \A j \in DOMAIN all : Rooms(all)[j] = Room(all[j]) /\ Room(all[j]) \in Nat
  BY <1>1 DEF Rooms, Room, Less
<1>3. \A S \in SUBSET DOMAIN all : IsFiniteSet(S)
  <2>1. Len(all) \in Nat /\ DOMAIN all = 1..Len(all)
    OBVIOUS
  <2>2. IsFiniteSet(1..Len(all))
    BY <2>1, FS_Interval
  <2>. QED
    BY <2>1, <2>2, FS_Subset
<1>4. ASSUME NEW S \in SUBSET DOMAIN all
      PROVE  Total(Rooms(all), S) \in Nat
  <2>1. IsFiniteSet(S) /\ \A j \in S : Rooms(all)[j] \in Nat
    BY <1>2, <1>3
  <2>. QED
    BY <2>1, TotalNat
<1>. QED
  BY <1>2, <1>3, <1>4

(* Each rack takes no more than fits; if there is room, some rack takes    *)
(* some pieces.                                                            *)
LEMMA PiecesFit ==
    ASSUME NEW all \in Seq(RackType), NEW S \in SUBSET DOMAIN all, NEW k \in S,
           NEW pieces \in Nat \ {0}
    PROVE  /\ \A j \in S : /\ PiecesFor(all, S, k, pieces, j) \in Nat
                           /\ PiecesFor(all, S, k, pieces, j) <= Room(all[j])
           /\ (\E j \in S : Room(all[j]) > 0) =>
                 \E j \in S : PiecesFor(all, S, k, pieces, j) > 0
<1> DEFINE ahead(j) == Total(Rooms(all), Ahead(S, k, j))
<1>1. \A j \in S : Ahead(S, k, j) \in SUBSET DOMAIN all
  BY DEF Ahead
<1>2. \A j \in S : ahead(j) \in Nat /\ Room(all[j]) \in Nat
  BY <1>1, RoomsAreNat
<1>3. \A j \in S : PiecesFor(all, S, k, pieces, j) = Smaller(Room(all[j]), Less(pieces, ahead(j)))
  BY Zenon DEF PiecesFor
<1>4. \A j \in S : /\ PiecesFor(all, S, k, pieces, j) \in Nat
                   /\ PiecesFor(all, S, k, pieces, j) <= Room(all[j])
  <2> HIDE DEF ahead
  <2>. QED
    BY <1>2, <1>3 DEF Smaller, Less
<1>5. ASSUME NEW j \in S, Room(all[j]) > 0, \A i \in Ahead(S, k, j) : Room(all[i]) = 0
      PROVE  PiecesFor(all, S, k, pieces, j) > 0
  <2>1. Ahead(S, k, j) \in SUBSET DOMAIN all /\ IsFiniteSet(Ahead(S, k, j))
    BY <1>1, RoomsAreNat
  <2>2. \A i \in Ahead(S, k, j) : Rooms(all)[i] = 0
    BY <1>5, <2>1, RoomsAreNat
  <2>3. ahead(j) = 0
    BY <2>1, <2>2, TotalZero
  <2>. QED
    BY <1>2, <1>3, <1>5, <2>3 DEF Smaller, Less
<1>6. ASSUME \E j \in S : Room(all[j]) > 0
      PROVE  \E j \in S : PiecesFor(all, S, k, pieces, j) > 0
  <2>1. CASE Room(all[k]) > 0
    <3>1. Ahead(S, k, k) = {}
      BY DEF Ahead
    <3>. QED
      BY <1>5, <2>1, <3>1
  <2>2. CASE ~(Room(all[k]) > 0)
    <3> DEFINE R == {j \in S : Room(all[j]) > 0}
    <3>1. IsFiniteSet(R) /\ R # {} /\ R \subseteq Int
      <4>1. R \in SUBSET DOMAIN all
        OBVIOUS
      <4>. QED
        BY <1>6, <4>1, RoomsAreNat
    <3>2. PICK j \in R : \A i \in R : j <= i
      <4> HIDE DEF R
      <4>. QED
        BY <3>1, FiniteMinimum
    <3>3. \A i \in Ahead(S, k, j) : Room(all[i]) = 0
      <4>1. \A i \in Ahead(S, k, j) : i \in S /\ i \notin R
        BY <2>2, <3>1, <3>2 DEF Ahead
      <4>. QED
        BY <1>2, <4>1
    <3>. QED
      BY <1>5, <3>2, <3>3
  <2>. QED
    BY <2>1, <2>2
<1>. QED
  BY <1>4, <1>6

(* What a scan makes of a rack that it serves.                             *)
LEMMA FilledType ==
    ASSUME NEW r \in RackType, NEW cargo \in Cargoes, NEW s \in Nat, NEW pieces \in Nat,
           NEW unit \in Nat, NEW kg \in Nat
    PROVE  /\ Filled(r, cargo, s, pieces, unit, kg) \in RackType
           /\ Filled(r, cargo, s, pieces, unit, kg).pieces = r.pieces + pieces
           /\ Filled(r, cargo, s, pieces, unit, kg).kg = r.kg + kg
           /\ Filled(r, cargo, s, pieces, unit, kg).cargo = cargo
           /\ Filled(r, cargo, s, pieces, unit, kg).capacity = r.capacity
<1> DEFINE p == r.pieces + pieces
           u == IF r.pieces = 0 \/ r.unit = 0 THEN unit ELSE r.unit
           w == r.kg + kg
           f == Filled(r, cargo, s, pieces, unit, kg)
<1>1. f = [r EXCEPT !.cargo = cargo, !.custody = s, !.pieces = p, !.unit = u, !.kg = w]
  BY Zenon DEF Filled, Custodian
<1>2. p \in Nat /\ u \in Nat /\ w \in Int
  BY DEF RackType
<1> HIDE DEF f, u
<1>3. f.pieces = p /\ f.kg = w /\ f.cargo = cargo /\ f.capacity = r.capacity
  BY <1>1 DEF RackType
<1> HIDE DEF p, w
<1>4. f \in RackType
  BY <1>1, <1>2 DEF RackType
<1>. QED
  BY <1>3, <1>4 DEF f, p, w

(* What the scan weighs: by the scale, or by the unit weight of the rack   *)
(* or of the catalogue.                                                    *)
LEMMA ScanWeighs ==
    ASSUME TypeOK, NEW q \in Runs, NEW k \in DOMAIN racks,
           NEW pieces \in Pieces, NEW scale \in Scales \cup {0}
    PROVE  LET known == UnitOf(racks[k], Cargo[q])
               unit == IF known = 0 THEN Rounded(scale, pieces) ELSE known
           IN  unit \in Nat /\ NetOf(pieces, known, scale) \in Nat
<1> DEFINE known == UnitOf(racks[k], Cargo[q])
<1>1. pieces \in Nat \ {0} /\ scale \in Nat /\ Standard[Cargo[q]] \in Nat
  BY RackAssumption
<1>2. racks[k].unit \in Nat
  BY RacksAreSeq DEF RackType
<1>3. known \in Nat
  BY <1>1, <1>2 DEF UnitOf
<1>4. Rounded(scale, pieces) \in Nat
  BY <1>1, RoundedIsNat
<1> HIDE DEF known
<1>5. pieces * known \in Nat
  BY <1>1, <1>3
<1>6. NetOf(pieces, known, scale) \in Nat
  BY <1>1, <1>5 DEF NetOf
<1>. QED
  BY <1>3, <1>4, <1>6 DEF known

(* The racks that are created make room for what did not fit.              *)
LEMMA RoomIsMade ==
    ASSUME TypeOK, NEW cargo \in Cargoes, NEW s \in Nat, NEW capacity \in Nat, NEW unit \in Nat,
           NEW pieces \in Nat \ {0}, NEW n \in Nat,
           Needed(n, capacity, Missing(cargo, s, pieces))
    PROVE  LET all == WithNew(n, NewRack(capacity, unit))
           IN  \E j \in Filling(all, cargo, s) : Room(all[j]) > 0
<1> DEFINE new == NewRack(capacity, unit)
           all == WithNew(n, new)
           S == Filling(racks, cargo, s)
           room == Total(Rooms(racks), S)
<1>1. /\ new \in RackType /\ new.custody = 0 /\ new.pieces = 0 /\ new.capacity = capacity
  BY NewRackType DEF NewRack
<1> HIDE DEF new
<1>2. /\ Len(racks) + n \in Nat /\ DOMAIN all = 1..(Len(racks) + n)
      /\ \A k \in DOMAIN all : all[k] = IF k \in DOMAIN racks THEN racks[k] ELSE new
  BY <1>1, WithNewType
<1> HIDE DEF all
<1>3. Len(racks) \in Nat /\ DOMAIN racks = 1..Len(racks) /\ racks \in Seq(RackType)
  BY RacksAreSeq DEF TypeOK
<1>4. S \in SUBSET DOMAIN racks
  BY DEF Filling
<1>5. room \in Nat /\ IsFiniteSet(S)
  BY <1>3, <1>4, RoomsAreNat
<1>6. Needed(n, capacity, Less(pieces, room))
  BY DEF Missing
<1>7. CASE n = 0
  <2>1. room > 0
    <3> HIDE DEF room
    <3>1. Less(pieces, room) <= 0 * capacity /\ 0 * capacity = 0
      BY <1>6, <1>7 DEF Needed
    <3>. QED
      BY <1>5, <3>1 DEF Less
  <2>2. \E j \in S : Room(racks[j]) > 0
    <3>1. SUFFICES ASSUME \A j \in S : ~(Room(racks[j]) > 0) PROVE FALSE
      OBVIOUS
    <3>2. \A j \in S : Room(racks[j]) \in Nat /\ Rooms(racks)[j] = Room(racks[j])
      BY <1>3, <1>4, RoomsAreNat
    <3>3. \A j \in S : Rooms(racks)[j] = 0
      BY <3>1, <3>2
    <3>4. room = 0
      <4> HIDE DEF S
      <4>. QED
        BY <1>5, <3>3, TotalZero
    <3>. QED
      BY <2>1, <3>4
  <2>3. PICK j \in S : Room(racks[j]) > 0
    BY <2>2
  <2>4. j \in DOMAIN all /\ all[j] = racks[j]
    BY <1>2, <1>3, <1>4, <1>7
  <2>5. j \in Filling(all, cargo, s)
    BY <2>4 DEF Filling
  <2>. QED
    BY <2>3, <2>4, <2>5 DEF all, new
<1>8. CASE n > 0
  <2> DEFINE j == Len(racks) + n
  <2>1. j \in DOMAIN all /\ all[j] = new
    BY <1>2, <1>3, <1>8
  <2> HIDE DEF j
  <2>2. j \in Filling(all, cargo, s)
    BY <1>1, <2>1 DEF Filling, Accepts
  <2>3. capacity > 0
    <3>1. SUFFICES ASSUME capacity = 0 PROVE FALSE
      OBVIOUS
    <3>2. Less(pieces, room) <= n * 0 /\ (n - 1) * 0 < Less(pieces, room)
      BY <1>6, <1>8, <3>1 DEF Needed
    <3>3. n * 0 = 0 /\ (n - 1) * 0 = 0
      OBVIOUS
    <3>4. Less(pieces, room) \in Nat
      BY <1>5 DEF Less
    <3>. QED
      BY <3>2, <3>3, <3>4
  <2>4. Room(all[j]) > 0
    BY <1>1, <2>1, <2>3 DEF Room, Less
  <2>. QED
    BY <2>2, <2>4 DEF all, new
<1>. QED
  BY <1>7, <1>8

(* The racks that a scan serves, with the pieces and the weight of each.   *)
LEMMA ScanEffect ==
    ASSUME TypeOK, NEW c \in Clerks, NEW q \in Runs, NEW k \in DOMAIN racks,
           NEW pieces \in Pieces, NEW scale \in Scales \cup {0},
           ScanRack(c, q, k, pieces, scale)
    PROVE  \E served, given, kg, net :
              /\ Serves(served, given, kg, net)
              /\ Fills(q, served, given, kg)
              /\ Documents(q, desk[c].session, served, given, kg)
              /\ desk[c].session \in Nat
              /\ net <= left[q] /\ left' = [left EXCEPT ![q] = @ - net]
<1> DEFINE s == desk[c].session
           cargo == Cargo[q]
           known == UnitOf(racks[k], Cargo[q])
           unit == IF known = 0 THEN Rounded(scale, pieces) ELSE known
           net == NetOf(pieces, known, scale)
           new == NewRack(racks[k].capacity, unit)
<1>1. PICK n \in 0..pieces :
         /\ Needed(n, racks[k].capacity, Missing(Cargo[q], s, pieces))
         /\ ScanInto(WithNew(n, new), c, q, k, pieces, net, unit)
  BY Zenon DEF ScanRack
<1> DEFINE all == WithNew(n, new)
           S == Filling(all, cargo, s)
           given == [j \in DOMAIN all |-> PiecesFor(all, S, k, pieces, j)]
           served == {j \in S : given[j] > 0}
           share(j) == ShareFor(served, k, given, pieces, net, j)
           kg == Shares(served, k, given, pieces, net)
<1>2. /\ Ready(c) /\ Accepts(racks[k], cargo, s)
      /\ net > 0 /\ net <= left[q]
      /\ left' = [left EXCEPT ![q] = @ - net]
  BY Zenon DEF ScanRack
<1>3. pieces \in Nat \ {0} /\ n \in Nat /\ cargo \in Cargoes
  BY RackAssumption DEF Cargoes
<1>4. s \in Nat
  BY <1>2 DEF TypeOK, Ready, Idle
<1>5. unit \in Nat /\ net \in Nat
  BY ScanWeighs
<1>6. racks[k].capacity \in Nat
  BY RacksAreSeq DEF RackType
<1>7. /\ racks' = [j \in DOMAIN all |->
            IF j \in served THEN Filled(all[j], cargo, s, given[j], unit, share(j)) ELSE all[j]]
      /\ entries' = entries \cup
            {[scan |-> Cardinality(Scans) + 1, rack |-> j, run |-> q, session |-> s,
              late |-> s # session, pieces |-> given[j], net |-> share(j)] : j \in served}
  BY <1>1, Zenon DEF ScanInto
<1> HIDE DEF known, unit, net
<1>8. \E j \in S : Room(all[j]) > 0
  BY <1>1, <1>3, <1>4, <1>5, <1>6, RoomIsMade
<1>9. new \in RackType /\ new.pieces = 0 /\ new.kg = 0
  BY <1>5, <1>6, NewRackType DEF NewRack
<1> HIDE DEF new
<1>10. /\ Len(racks) + n \in Nat
       /\ DOMAIN all = 1..(Len(racks) + n)
       /\ DOMAIN racks \subseteq DOMAIN all
       /\ \A j \in DOMAIN all : all[j] = IF j \in DOMAIN racks THEN racks[j] ELSE new
       /\ \A j \in DOMAIN all : all[j] \in RackType
       /\ all \in Seq(RackType)
  <2>1. /\ Len(racks) + n \in Nat
        /\ DOMAIN WithNew(n, new) = 1..(Len(racks) + n)
        /\ DOMAIN racks \subseteq DOMAIN WithNew(n, new)
        /\ \A j \in DOMAIN WithNew(n, new) :
              /\ WithNew(n, new)[j] = IF j \in DOMAIN racks THEN racks[j] ELSE new
              /\ WithNew(n, new)[j] \in RackType
        /\ WithNew(n, new) \in Seq(RackType)
    <3>1. n \in Nat /\ new \in RackType
      BY <1>3, <1>9
    <3>. QED
      BY <3>1, WithNewType
  <2>. QED
    BY <2>1
<1> HIDE DEF all
<1>11. S \in SUBSET DOMAIN all /\ k \in S
  BY <1>2, <1>10 DEF Filling
<1> HIDE DEF S
<1>12. /\ \A j \in S : given[j] \in Nat /\ given[j] <= Room(all[j])
       /\ \E j \in S : given[j] > 0
  BY <1>3, <1>8, <1>10, <1>11, PiecesFit
<1> HIDE DEF given
<1>13. served \subseteq S /\ served # {} /\ \A j \in served : given[j] \in Nat \ {0}
  BY <1>12
<1> HIDE DEF served
<1>14. IsFiniteSet(served) /\ served \subseteq Int
  <2>1. served \in SUBSET DOMAIN all
    BY <1>11, <1>13
  <2>. QED
    BY <1>10, <2>1, RoomsAreNat
<1>15. /\ \A j \in served : share(j) \in Nat
       /\ Total(kg, served) = net
  <2>1. \A j \in served : given[j] \in Nat
    BY <1>13
  <2>2. pieces \in Nat \ {0} /\ net \in Nat
    BY <1>3, <1>5
  <2>3. \A j \in served : kg[j] = share(j)
    BY DEF Shares
  <2>4. (\A j \in served : kg[j] \in Nat) /\ Total(kg, served) = net
    BY <1>13, <1>14, <2>1, <2>2, SharesSum
  <2>. QED
    BY <2>3, <2>4
<1> HIDE DEF share
<1>16. \A j \in served : kg[j] = share(j) /\ kg[j] \in Nat
  BY <1>15 DEF share, Shares
<1>17. kg = [j \in served |-> kg[j]]
  BY DEF Shares
<1> HIDE DEF kg
<1>18. /\ DOMAIN racks' = DOMAIN all
       /\ \A j \in served :
             /\ racks'[j] = Filled(all[j], cargo, s, given[j], unit, kg[j])
       /\ \A j \in DOMAIN all \ served : racks'[j] = all[j]
  BY <1>7, <1>11, <1>13, <1>16
<1>19. \A j \in served :
          /\ racks'[j] \in RackType
          /\ racks'[j].pieces = all[j].pieces + given[j]
          /\ racks'[j].kg = all[j].kg + kg[j]
          /\ racks'[j].cargo = cargo
          /\ racks'[j].capacity = all[j].capacity
  <2> SUFFICES ASSUME NEW j \in served
               PROVE  /\ racks'[j] \in RackType
                      /\ racks'[j].pieces = all[j].pieces + given[j]
                      /\ racks'[j].kg = all[j].kg + kg[j]
                      /\ racks'[j].cargo = cargo
                      /\ racks'[j].capacity = all[j].capacity
    OBVIOUS
  <2>1. all[j] \in RackType /\ given[j] \in Nat /\ kg[j] \in Nat
    BY <1>10, <1>11, <1>13, <1>16
  <2>2. racks'[j] = Filled(all[j], cargo, s, given[j], unit, kg[j])
    BY <1>18
  <2> HIDE DEF s, cargo
  <2> DEFINE r == all[j]
             f == Filled(r, cargo, s, given[j], unit, kg[j])
  <2>3. r \in RackType /\ given[j] \in Nat /\ kg[j] \in Nat
    BY <2>1
  <2> HIDE DEF r
  <2>4. \A g, w \in Nat :
           /\ Filled(r, cargo, s, g, unit, w) \in RackType
           /\ Filled(r, cargo, s, g, unit, w).pieces = r.pieces + g
           /\ Filled(r, cargo, s, g, unit, w).kg = r.kg + w
           /\ Filled(r, cargo, s, g, unit, w).cargo = cargo
           /\ Filled(r, cargo, s, g, unit, w).capacity = r.capacity
    <3>1. cargo \in Cargoes /\ s \in Nat /\ unit \in Nat /\ r \in RackType
      BY <1>3, <1>4, <1>5, <2>3
    <3>. QED
      BY <3>1, FilledType
  <2>5. racks'[j] = f
    BY <2>2 DEF r
  <2> HIDE DEF f
  <2>. QED
    BY <2>1, <2>4, <2>5 DEF r, f
<1>20. Serves(served, given, kg, net)
  BY <1>5, <1>11, <1>13, <1>14, <1>15, <1>16, <1>17, <1>18 DEF Serves
<1>21. Fills(q, served, given, kg)
  <2>1. racks' \in Seq(RackType)
    <3>1. \A j \in DOMAIN all : racks'[j] \in RackType
      BY <1>10, <1>18, <1>19
    <3>2. racks' = [j \in 1..(Len(racks) + n) |-> racks'[j]]
      BY <1>7, <1>10
    <3>. QED
      BY <1>10, <3>1, <3>2, TableIsSeq
  <2>2. \A j \in DOMAIN all : all[j].pieces = HadPieces(j) /\ all[j].kg = HadKg(j)
    BY <1>9, <1>10 DEF HadPieces, HadKg
  <2>3. ASSUME NEW j \in served
        PROVE  racks'[j].pieces <= racks'[j].capacity
    <3>1. all[j].capacity \in Nat /\ all[j].pieces \in Nat /\ given[j] \in Nat \ {0}
      BY <1>10, <1>11, <1>13 DEF RackType
    <3>2. given[j] <= Less(all[j].capacity, all[j].pieces)
      BY <1>12, <1>13 DEF Room
    <3>3. racks'[j].pieces = all[j].pieces + given[j] /\ racks'[j].capacity = all[j].capacity
      BY <1>19
    <3>. QED
      BY <3>1, <3>2, <3>3 DEF Less
  <2>4. \A j \in DOMAIN racks' \ served :
           IF j \in DOMAIN racks THEN racks'[j] = racks[j]
           ELSE racks'[j].pieces = 0 /\ racks'[j].kg = 0
    BY <1>9, <1>10, <1>18
  <2>. QED
    BY <1>10, <1>11, <1>13, <1>18, <1>19, <2>1, <2>2, <2>3, <2>4 DEF Fills
<1>22. Documents(q, s, served, given, kg)
  <2>1. \A j \in served :
           EntryOf(q, s, given, kg, j) =
              [scan |-> Cardinality(Scans) + 1, rack |-> j, run |-> q, session |-> s,
               late |-> s # session, pieces |-> given[j], net |-> share(j)]
    BY <1>16 DEF EntryOf
  <2>. QED
    BY <1>7, <2>1 DEF Documents, NewEntries
<1>. QED
  BY <1>2, <1>4, <1>20, <1>21, <1>22

(* The entries of a scan are new, one of each rack that it serves.         *)
LEMMA EntriesGrow ==
    ASSUME TypeOK, Rows, NEW q \in Runs, NEW s \in Nat, NEW served, NEW given, NEW kg, NEW net,
           Serves(served, given, kg, net), DOMAIN racks' \subseteq Nat,
           Documents(q, s, served, given, kg)
    PROVE  /\ \A j \in served : /\ EntryOf(q, s, given, kg, j) \in EntryType
                                 /\ EntryOf(q, s, given, kg, j).rack = j
                                 /\ EntryOf(q, s, given, kg, j).run = q
           /\ \A e \in NewEntries(q, s, served, given, kg) :
                 e \notin entries /\ \A d \in entries : d.scan < e.scan
           /\ IsFiniteSet(NewEntries(q, s, served, given, kg))
           /\ entries' \subseteq EntryType /\ IsFiniteSet(entries')
           /\ \A j : EntriesOf(j)' = EntriesOf(j) \cup
                        (IF j \in served THEN {EntryOf(q, s, given, kg, j)} ELSE {})
           /\ \E m \in Nat : Scans' = 1..m
<1> DEFINE E(j) == EntryOf(q, s, given, kg, j)
           New == NewEntries(q, s, served, given, kg)
<1>1. PICK n \in Nat : Scans = 1..n
  BY DEF Rows
<1>2. Cardinality(Scans) = n
  BY <1>1, FS_Interval
<1>3. \A j \in served : /\ j \in Nat /\ given[j] \in Nat \ {0} /\ kg[j] \in Nat
  BY DEF Serves
<1>4. \A j \in served : /\ E(j) \in EntryType /\ E(j).rack = j /\ E(j).run = q
                        /\ E(j).scan = n + 1 /\ E(j).pieces = given[j] /\ E(j).net = kg[j]
  BY <1>2, <1>3 DEF EntryOf, EntryType
<1>5. \A d \in entries : d.scan \in 1..n
  BY <1>1 DEF Scans
<1>6. entries' = entries \cup New
  BY DEF Documents, New
<1>7. served # {} /\ IsFiniteSet(served)
  BY DEF Serves
<1> HIDE DEF E
<1>0. New = {E(j) : j \in served}
  BY DEF NewEntries, E
<1> HIDE DEF New
<1>8. \A e \in New : e \notin entries /\ \A d \in entries : d.scan < e.scan
  BY <1>0, <1>4, <1>5
<1>9. IsFiniteSet(New)
  <2> DEFINE g == [j \in served |-> E(j)]
  <2>1. IsFiniteSet({g[j] : j \in served})
    <3> HIDE DEF g
    <3>. QED
      BY <1>7, FiniteImage
  <2>. QED
    BY <1>0, <2>1
<1>10. entries' \subseteq EntryType
  BY <1>0, <1>4, <1>6, RacksAreSeq
<1>11. IsFiniteSet(entries')
  BY <1>6, <1>9, FS_Union DEF Rows
<1>12. \A j : EntriesOf(j)' = EntriesOf(j) \cup (IF j \in served THEN {E(j)} ELSE {})
  BY <1>0, <1>4, <1>6 DEF EntriesOf
<1>13. Scans' = 1..(n + 1)
  <2>1. Scans' = Scans \cup {e.scan : e \in New}
    BY <1>6 DEF Scans
  <2>2. {e.scan : e \in New} = {n + 1}
    BY <1>0, <1>4, <1>7
  <2>3. 1..(n + 1) = (1..n) \cup {n + 1}
    BY <1>1
  <2>. QED
    BY <1>1, <2>1, <2>2, <2>3
<1>14. n + 1 \in Nat
  OBVIOUS
<1>. QED
  BY <1>4, <1>8, <1>9, <1>10, <1>11, <1>12, <1>13, <1>14 DEF E, New

(* What was scanned into each rack, and of each run, after the scan.       *)
LEMMA TotalsGrow ==
    ASSUME TypeOK, Rows, NEW q \in Runs, NEW s \in Nat, NEW served, NEW given, NEW kg, NEW net,
           Serves(served, given, kg, net), DOMAIN racks' \subseteq Nat,
           Documents(q, s, served, given, kg)
    PROVE  /\ \A j : /\ Total(ScannedPieces', EntriesOf(j)') =
                           Total(ScannedPieces, EntriesOf(j))
                              + (IF j \in served THEN given[j] ELSE 0)
                     /\ Total(ScannedKg', EntriesOf(j)') =
                           Total(ScannedKg, EntriesOf(j)) + (IF j \in served THEN kg[j] ELSE 0)
           /\ \A p \in Runs : Total(ScannedKg', {e \in entries' : e.run = p}) =
                 Total(ScannedKg, {e \in entries : e.run = p}) + (IF p = q THEN net ELSE 0)
<1> DEFINE E(j) == EntryOf(q, s, given, kg, j)
           New == NewEntries(q, s, served, given, kg)
<1>1. /\ \A j \in served : E(j) \in EntryType /\ E(j).rack = j /\ E(j).run = q
      /\ \A e \in New : e \notin entries
      /\ IsFiniteSet(New) /\ IsFiniteSet(entries')
      /\ \A j : EntriesOf(j)' = EntriesOf(j) \cup (IF j \in served THEN {E(j)} ELSE {})
  BY EntriesGrow
<1>2. entries' = entries \cup New /\ New = {E(j) : j \in served}
  BY DEF Documents, NewEntries
<1>3. \A j \in served : /\ E(j).pieces = given[j] /\ given[j] \in Nat
                        /\ E(j).net = kg[j] /\ kg[j] \in Nat
  BY DEF EntryOf, Serves
<1> HIDE DEF E, New
<1>4. /\ \A e \in entries : /\ ScannedPieces'[e] = ScannedPieces[e] /\ ScannedPieces[e] \in Int
                            /\ ScannedKg'[e] = ScannedKg[e] /\ ScannedKg[e] \in Int
      /\ \A j \in served : /\ ScannedPieces'[E(j)] = given[j]
                           /\ ScannedKg'[E(j)] = kg[j]
  <2>1. \A e \in entries : ScannedPieces[e] \in Int /\ ScannedKg[e] \in Int
    BY SumsAreOfNats DEF Rows
  <2>. QED
    BY <1>2, <1>3, <2>1 DEF ScannedPieces, ScannedKg
<1>5. \A S \in SUBSET entries : IsFiniteSet(S)
  BY SumsAreOfNats DEF Rows
<1>6. ASSUME NEW S \in SUBSET entries
      PROVE  /\ Total(ScannedPieces', S) = Total(ScannedPieces, S)
             /\ Total(ScannedKg', S) = Total(ScannedKg, S)
             /\ Total(ScannedPieces, S) \in Int /\ Total(ScannedKg, S) \in Int
  <2>1. IsFiniteSet(S)
    BY <1>5
  <2>2. \A e \in S : ScannedPieces[e] = ScannedPieces'[e]
    BY <1>4
  <2>3. \A e \in S : ScannedKg[e] = ScannedKg'[e]
    BY <1>4
  <2>4. Total(ScannedPieces, S) = Total(ScannedPieces', S)
    BY <2>1, <2>2, TotalEqual
  <2>5. Total(ScannedKg, S) = Total(ScannedKg', S)
    BY <2>1, <2>3, TotalEqual
  <2>6. Total(ScannedPieces, S) \in Int
    <3>1. \A e \in S : ScannedPieces[e] \in Int
      BY <1>4
    <3>. QED
      BY <2>1, <3>1, TotalInt
  <2>7. Total(ScannedKg, S) \in Int
    <3>1. \A e \in S : ScannedKg[e] \in Int
      BY <1>4
    <3>. QED
      BY <2>1, <3>1, TotalInt
  <2>. QED
    BY <2>4, <2>5, <2>6, <2>7
<1>7. ASSUME NEW j
      PROVE  /\ Total(ScannedPieces', EntriesOf(j)') =
                   Total(ScannedPieces, EntriesOf(j)) + (IF j \in served THEN given[j] ELSE 0)
             /\ Total(ScannedKg', EntriesOf(j)') =
                   Total(ScannedKg, EntriesOf(j)) + (IF j \in served THEN kg[j] ELSE 0)
  <2> DEFINE S == EntriesOf(j)
  <2>1. S \in SUBSET entries
    BY DEF EntriesOf
  <2>2. /\ Total(ScannedPieces', S) = Total(ScannedPieces, S)
        /\ Total(ScannedKg', S) = Total(ScannedKg, S)
        /\ Total(ScannedPieces, S) \in Int /\ Total(ScannedKg, S) \in Int
    BY <1>6, <2>1
  <2>3. EntriesOf(j)' = S \cup (IF j \in served THEN {E(j)} ELSE {})
    BY <1>1
  <2> HIDE DEF S
  <2>4. CASE j \in served
    <3>1. EntriesOf(j)' = S \cup {E(j)}
      BY <2>3, <2>4
    <3>2. IsFiniteSet(S) /\ E(j) \notin S
      BY <1>1, <1>2, <1>5, <2>1, <2>4
    <3>3. \A e \in S \cup {E(j)} : ScannedPieces'[e] \in Int
      BY <1>3, <1>4, <2>1, <2>4
    <3>4. \A e \in S \cup {E(j)} : ScannedKg'[e] \in Int
      BY <1>3, <1>4, <2>1, <2>4
    <3>5. Total(ScannedPieces', S \cup {E(j)}) = ScannedPieces'[E(j)] + Total(ScannedPieces', S)
      BY <3>2, <3>3, TotalAdd
    <3>6. Total(ScannedKg', S \cup {E(j)}) = ScannedKg'[E(j)] + Total(ScannedKg', S)
      BY <3>2, <3>4, TotalAdd
    <3>7. ScannedPieces'[E(j)] = given[j] /\ ScannedKg'[E(j)] = kg[j]
      BY <1>4, <2>4
    <3>8. given[j] \in Nat /\ kg[j] \in Nat
      BY <1>3, <2>4
    <3>. QED
      BY <2>2, <2>4, <3>1, <3>5, <3>6, <3>7, <3>8 DEF S
  <2>5. CASE j \notin served
    <3>1. EntriesOf(j)' = S
      BY <2>3, <2>5
    <3>. QED
      BY <2>2, <2>5, <3>1 DEF S
  <2>. QED
    BY <2>4, <2>5
<1>8. Total(ScannedKg', New) = net
  <2> DEFINE g == [j \in served |-> E(j)]
             h == [j \in served |-> ScannedKg'[g[j]]]
  <2>1. /\ \A i, j \in served : g[i] = g[j] => i = j
        /\ \A j \in served : ScannedKg'[g[j]] \in Int
    BY <1>1, <1>3, <1>4
  <2>2. New = {g[j] : j \in served}
    BY <1>2
  <2>3. h = [j \in served |-> kg[j]]
    BY <1>4
  <2>4. kg = [j \in served |-> kg[j]] /\ Total(kg, served) = net /\ IsFiniteSet(served)
    BY DEF Serves
  <2> HIDE DEF g
  <2>5. Total(ScannedKg', {g[j] : j \in served})
           = Total([j \in served |-> ScannedKg'[g[j]]], served)
    BY <2>1, <2>4, TotalImage
  <2>. QED
    BY <2>2, <2>3, <2>4, <2>5
<1>9. ASSUME NEW p \in Runs
      PROVE  Total(ScannedKg', {e \in entries' : e.run = p}) =
                Total(ScannedKg, {e \in entries : e.run = p}) + (IF p = q THEN net ELSE 0)
  <2> DEFINE S == {e \in entries : e.run = p}
  <2>1. S \in SUBSET entries /\ IsFiniteSet(S)
    BY <1>5
  <2>2. Total(ScannedKg', S) = Total(ScannedKg, S) /\ Total(ScannedKg, S) \in Int
    BY <1>6, <2>1
  <2>3. {e \in entries' : e.run = p} = S \cup (IF p = q THEN New ELSE {})
    BY <1>1, <1>2
  <2>4. CASE p = q
    <3>1. IsFiniteSet(New) /\ S \cap New = {}
      BY <1>1
    <3>2. \A e \in S \cup New : ScannedKg'[e] \in Int
      BY <1>2, <1>3, <1>4
    <3> HIDE DEF S
    <3>3. Total(ScannedKg', S \cup New) = Total(ScannedKg', S) + Total(ScannedKg', New)
      BY <2>1, <3>1, <3>2, TotalUnion
    <3>. QED
      BY <1>8, <2>2, <2>3, <2>4, <3>3 DEF S
  <2>5. CASE p # q
    BY <2>2, <2>3, <2>5
  <2>. QED
    BY <2>4, <2>5
<1>. QED
  BY <1>7, <1>9

(* A scan keeps the tables: what is scanned is in the entries, by rack and *)
(* by run.                                                                 *)
LEMMA ScanRackKept ==
    ASSUME RackInv, NEW c \in Clerks, NEW q \in Runs, NEW k \in DOMAIN racks,
           NEW pieces \in Pieces, NEW scale \in Scales \cup {0},
           ScanRack(c, q, k, pieces, scale)
    PROVE  RackInv'
<1> DEFINE s == desk[c].session
<1>1. TypeOK /\ Rows
  BY DEF RackInv
<1>2. PICK served, given, kg, net :
         /\ Serves(served, given, kg, net)
         /\ Fills(q, served, given, kg)
         /\ Documents(q, s, served, given, kg)
         /\ s \in Nat
         /\ net <= left[q] /\ left' = [left EXCEPT ![q] = @ - net]
  BY <1>1, ScanEffect
<1> HIDE DEF s
<1> DEFINE E(j) == EntryOf(q, s, given, kg, j)
           New == NewEntries(q, s, served, given, kg)
<1>3. /\ UNCHANGED <<session, opened, loads, edit, edits, zeroed>>
      /\ Answer(c)
      /\ \E st \in Statuses : queue' = [queue EXCEPT ![q].status = st]
  <2>1. PICK b : queue' = [queue EXCEPT ![q].status = IF b THEN "COMPLETADA" ELSE @]
    BY Zenon DEF ScanRack
  <2>2. queue[q].status \in Statuses
    BY <1>1 DEF TypeOK, Statuses
  <2>. QED
    BY <2>1, <2>2 DEF ScanRack, edition, Statuses
<1>4. /\ racks' \in Seq(RackType) /\ DOMAIN racks' \subseteq Nat
      /\ DOMAIN racks \subseteq DOMAIN racks'
  BY <1>2 DEF Fills
<1>5. \A j \in DOMAIN racks' : racks'[j] \in RackType
  BY <1>4
<1>6. /\ \A j \in served : E(j) \in EntryType /\ E(j).rack = j /\ E(j).run = q
      /\ \A e \in New : e \notin entries /\ \A d \in entries : d.scan < e.scan
      /\ IsFiniteSet(New)
      /\ entries' \subseteq EntryType /\ IsFiniteSet(entries')
      /\ \A j : EntriesOf(j)' = EntriesOf(j) \cup (IF j \in served THEN {E(j)} ELSE {})
      /\ \E m \in Nat : Scans' = 1..m
  BY <1>1, <1>2, <1>4, EntriesGrow
<1>7. entries' = entries \cup New /\ New = {E(j) : j \in served}
  BY <1>2 DEF Documents, NewEntries
<1>8. /\ served \subseteq DOMAIN racks'
      /\ \A j \in served : given[j] \in Nat \ {0} /\ kg[j] \in Nat
      /\ net \in Nat
  BY <1>2 DEF Serves
<1>9. \A j \in served : /\ racks'[j].pieces = HadPieces(j) + given[j]
                        /\ racks'[j].kg = HadKg(j) + kg[j]
                        /\ racks'[j].pieces <= racks'[j].capacity
                        /\ racks'[j].cargo = Cargo[q]
  BY <1>2 DEF Fills
<1>10. \A j \in DOMAIN racks' \ served :
          IF j \in DOMAIN racks THEN racks'[j] = racks[j]
          ELSE racks'[j].pieces = 0 /\ racks'[j].kg = 0
  BY <1>2 DEF Fills
<1> HIDE DEF E, New
<1>11. TypeOK'
  <2>1. left' \in [Runs -> Nat]
    <3>1. left[q] - net \in Nat
      BY <1>1, <1>2, <1>8 DEF TypeOK
    <3>. QED
      BY <1>1, <1>2, <3>1 DEF TypeOK
  <2>2. queue' \in [Runs -> [status : Statuses, session : Nat]]
    <3>1. queue \in [Runs -> [status : Statuses, session : Nat]]
      BY <1>1 DEF TypeOK, Statuses
    <3>. QED
      BY <1>3, <3>1
  <2>3. desk' \in [Clerks -> {Idle} \cup [op : {"ready"}, session : Nat]]
    BY <1>1, <1>3 DEF TypeOK, Answer
  <2>4. \A j \in DOMAIN racks' : racks'[j].pieces > 0 => racks'[j].cargo # Empty
    <3>1. ASSUME NEW j \in DOMAIN racks', racks'[j].pieces > 0
          PROVE  racks'[j].cargo # Empty
      <4>1. CASE j \in served
        BY <1>9, <4>1, RackAssumption DEF Empty
      <4>2. CASE j \notin served
        <5>1. j \in DOMAIN racks /\ racks'[j] = racks[j]
          BY <1>10, <3>1, <4>2
        <5>. QED
          BY <1>1, <3>1, <5>1 DEF TypeOK
      <4>. QED
        BY <4>1, <4>2
    <3>. QED
      BY <3>1
  <2>. QED
    BY <1>1, <1>3, <1>4, <1>6, <2>1, <2>2, <2>3, <2>4 DEF TypeOK, Statuses
<1>12. Rows'
  <2>1. \A e \in entries' : e.rack \in DOMAIN racks'
    BY <1>1, <1>4, <1>6, <1>7, <1>8 DEF Rows
  <2>2. ASSUME NEW d \in entries', NEW e \in entries', d.rack = e.rack, d.scan = e.scan
        PROVE  d = e
    <3>1. \A f \in entries : f.scan \in Nat
      BY <1>1 DEF TypeOK, EntryType
    <3>2. CASE d \in entries /\ e \in entries
      BY <1>1, <2>2, <3>2 DEF Rows
    <3>3. CASE d \in New /\ e \in New
      BY <1>6, <1>7, <2>2, <3>3
    <3>4. CASE d \in entries /\ e \in New
      BY <1>6, <2>2, <3>1, <3>4
    <3>5. CASE d \in New /\ e \in entries
      BY <1>6, <2>2, <3>1, <3>5
    <3>. QED
      BY <1>7, <3>2, <3>3, <3>4, <3>5
  <2>3. \A i \in DOMAIN loads' : loads'[i].rack \in DOMAIN racks'
    BY <1>1, <1>3, <1>4 DEF Rows
  <2>4. edit' # Idle => edit'.rack \in DOMAIN racks'
    BY <1>1, <1>3, <1>4 DEF Rows
  <2>5. ASSUME NEW j \in DOMAIN racks', racks'[j].pieces > 0
        PROVE  \E e : LastFill(j, e)'
    <3>1. CASE j \in served
      <4>1. EntriesOf(j)' = EntriesOf(j) \cup {E(j)}
        BY <1>6, <3>1
      <4>2. \A d \in EntriesOf(j) : d \in entries /\ d.scan \in Nat
        BY <1>1 DEF EntriesOf, TypeOK, EntryType
      <4>3. E(j) \in New /\ E(j).scan \in Nat
        BY <1>6, <1>7, <3>1 DEF EntryType
      <4>4. \A d \in EntriesOf(j)' : d.scan <= E(j).scan
        BY <1>6, <4>1, <4>2, <4>3
      <4>5. Cargo[E(j).run] = racks'[j].cargo
        BY <1>6, <1>9, <3>1
      <4>6. E(j) \in EntriesOf(j)'
        BY <4>1
      <4>7. PICK x : /\ x \in EntriesOf(j)' /\ Cargo[x.run] = racks'[j].cargo
                     /\ \A d \in EntriesOf(j)' : d.scan <= x.scan
        BY <4>4, <4>5, <4>6
      <4>8. LastFill(j, x)'
        BY <4>7 DEF LastFill
      <4>. QED
        BY <4>8
    <3>2. CASE j \notin served
      <4>1. j \in DOMAIN racks /\ racks'[j] = racks[j]
        BY <1>10, <2>5, <3>2
      <4>2. PICK e : LastFill(j, e)
        BY <1>1, <2>5, <4>1 DEF Rows
      <4>3. EntriesOf(j)' = EntriesOf(j)
        BY <1>6, <3>2
      <4>4. LastFill(j, e)'
        BY <4>1, <4>2, <4>3 DEF LastFill
      <4>. QED
        BY <4>4
    <3>. QED
      BY <3>1, <3>2
  <2>. QED
    BY <1>6, <2>1, <2>2, <2>3, <2>4, <2>5 DEF Rows
<1>13. /\ \A j : /\ Total(ScannedPieces', EntriesOf(j)') =
                       Total(ScannedPieces, EntriesOf(j)) + (IF j \in served THEN given[j] ELSE 0)
                 /\ Total(ScannedKg', EntriesOf(j)') =
                       Total(ScannedKg, EntriesOf(j)) + (IF j \in served THEN kg[j] ELSE 0)
       /\ \A p \in Runs : Total(ScannedKg', {e \in entries' : e.run = p}) =
             Total(ScannedKg, {e \in entries : e.run = p}) + (IF p = q THEN net ELSE 0)
  BY <1>1, <1>2, <1>4, TotalsGrow
<1>14. UNCHANGED <<LoadedPieces, LoadedKg>> /\ \A j : LoadsOf(j)' = LoadsOf(j)
  BY <1>3 DEF LoadedPieces, LoadedKg, LoadsOf
<1>15. ASSUME NEW j \in DOMAIN racks'
       PROVE  Reconciled(j)' /\ Weighed(j)'
  <2> DEFINE a == Total(LoadedPieces, LoadsOf(j))
             b == Total(LoadedKg, LoadsOf(j))
             x == Total(ScannedPieces, EntriesOf(j))
             y == Total(ScannedKg, EntriesOf(j))
  <2>1. a \in Int /\ b \in Int /\ x \in Int /\ y \in Int
    <3>1. LoadsOf(j) \in SUBSET DOMAIN loads /\ EntriesOf(j) \in SUBSET entries
      BY DEF LoadsOf, EntriesOf
    <3>2. /\ IsFiniteSet(LoadsOf(j)) /\ IsFiniteSet(EntriesOf(j))
          /\ \A i \in LoadsOf(j) : LoadedPieces[i] \in Int
          /\ \A i \in LoadsOf(j) : LoadedKg[i] \in Int
          /\ \A e \in EntriesOf(j) : ScannedPieces[e] \in Int
          /\ \A e \in EntriesOf(j) : ScannedKg[e] \in Int
      BY <1>1, <3>1, SumsAreOfNats DEF Rows
    <3>3. a \in Int
      BY <3>2, TotalInt
    <3>4. b \in Int
      BY <3>2, TotalInt
    <3>5. x \in Int
      BY <3>2, TotalInt
    <3>6. y \in Int
      BY <3>2, TotalInt
    <3>. QED
      BY <3>3, <3>4, <3>5, <3>6
  <2>2. /\ HadPieces(j) + a = x \/ j \in zeroed
        /\ HadKg(j) + b = y
    <3>1. CASE j \in DOMAIN racks
      BY <3>1 DEF RackInv, Reconciled, Weighed, HadPieces, HadKg
    <3>2. CASE j \notin DOMAIN racks
      <4>1. LoadsOf(j) = {} /\ EntriesOf(j) = {}
        BY <1>1, <3>2 DEF LoadsOf, EntriesOf, Rows
      <4>2. a = 0 /\ b = 0 /\ x = 0 /\ y = 0
        BY <4>1, TotalEmpty
      <4>. QED
        BY <3>2, <4>2 DEF HadPieces, HadKg
    <3>. QED
      BY <3>1, <3>2
  <2>3. HadPieces(j) \in Nat /\ HadKg(j) \in Int
    BY <1>1, RacksAreSeq DEF HadPieces, HadKg, RackType
  <2>4. /\ racks'[j].pieces = HadPieces(j) + (IF j \in served THEN given[j] ELSE 0)
        /\ racks'[j].kg = HadKg(j) + (IF j \in served THEN kg[j] ELSE 0)
    <3>1. CASE j \in served
      BY <1>9, <3>1
    <3>2. CASE j \notin served
      BY <1>10, <2>3, <3>2 DEF HadPieces, HadKg
    <3>. QED
      BY <3>1, <3>2
  <2>5. j \in zeroed \/ racks'[j].pieces <= racks'[j].capacity
    <3>1. CASE j \in served
      BY <1>9, <3>1
    <3>2. CASE j \notin served /\ j \in DOMAIN racks
      BY <1>10, <3>2 DEF RackInv, Reconciled
    <3>3. CASE j \notin served /\ j \notin DOMAIN racks
      BY <1>5, <1>10, <3>3 DEF RackType
    <3>. QED
      BY <3>1, <3>2, <3>3
  <2>6. /\ Total(LoadedPieces', LoadsOf(j)') = a /\ Total(LoadedKg', LoadsOf(j)') = b
        /\ Total(ScannedPieces', EntriesOf(j)') = x + (IF j \in served THEN given[j] ELSE 0)
        /\ Total(ScannedKg', EntriesOf(j)') = y + (IF j \in served THEN kg[j] ELSE 0)
    BY <1>13, <1>14
  <2>7. zeroed' = zeroed
    BY <1>3
  <2> HIDE DEF a, b, x, y
  <2>8. Weighed(j)'
    BY <1>8, <2>1, <2>2, <2>3, <2>4, <2>6 DEF Weighed
  <2>9. Reconciled(j)'
    BY <1>8, <2>1, <2>2, <2>3, <2>4, <2>5, <2>6, <2>7 DEF Reconciled
  <2>. QED
    BY <2>8, <2>9
<1>16. ASSUME NEW p \in Runs
       PROVE  GivenBy(p)'
  <2> DEFINE x == Total(ScannedKg, {e \in entries : e.run = p})
  <2>1. x \in Int
    <3>1. {e \in entries : e.run = p} \in SUBSET entries
      OBVIOUS
    <3>2. /\ IsFiniteSet({e \in entries : e.run = p})
          /\ \A e \in {f \in entries : f.run = p} : ScannedKg[e] \in Int
      BY <1>1, <3>1, SumsAreOfNats DEF Rows
    <3>. QED
      BY <3>2, TotalInt
  <2>2. Mixture[p] = left[p] + x
    BY DEF RackInv, GivenBy
  <2>3. Total(ScannedKg', {e \in entries' : e.run = p}) = x + (IF p = q THEN net ELSE 0)
    BY <1>13
  <2>4. left[p] \in Nat /\ left'[p] = left[p] - (IF p = q THEN net ELSE 0)
    BY <1>1, <1>2, <1>8 DEF TypeOK
  <2> HIDE DEF x
  <2>. QED
    BY <1>8, <2>1, <2>2, <2>3, <2>4 DEF GivenBy
<1>17. SpoolTraceIsRight'
  BY <1>3, <1>6 DEF RackInv, SpoolTraceIsRight
<1>. QED
  BY <1>11, <1>12, <1>15, <1>16, <1>17 DEF RackInv

-----------------------------------------------------------------------------
(* The invariant at the start.                                             *)
LEMMA RackInit == Init => RackInv
<1> SUFFICES ASSUME Init PROVE RackInv
  OBVIOUS
<1>1. TypeOK
  BY RackAssumption DEF Init, TypeOK
<1>2. Rows
  <2>1. Scans = 1..0 /\ IsFiniteSet(entries)
    BY FS_EmptySet DEF Init, Scans
  <2>. QED
    BY <2>1 DEF Init, Rows
<1>3. \A q \in Runs : GivenBy(q)
  <2> SUFFICES ASSUME NEW q \in Runs PROVE GivenBy(q)
    OBVIOUS
  <2>1. {e \in entries : e.run = q} = {} /\ left[q] = Mixture[q] /\ Mixture[q] \in Nat
    BY RackAssumption DEF Init
  <2>2. Total(ScannedKg, {}) = 0
    BY TotalEmpty
  <2> DEFINE x == Total(ScannedKg, {e \in entries : e.run = q})
  <2>3. x = 0
    BY <2>1, <2>2
  <2> HIDE DEF x
  <2>4. Mixture[q] = left[q] + x
    BY <2>1, <2>3
  <2>. QED
    BY <2>4 DEF GivenBy, x
<1>4. SpoolTraceIsRight
  BY DEF Init, SpoolTraceIsRight
<1>5. DOMAIN racks = {}
  BY DEF Init
<1>. QED
  BY <1>1, <1>2, <1>3, <1>4, <1>5 DEF RackInv

(* And after every step.                                                   *)
LEMMA RackStep == RackInv /\ [Next]_vars => RackInv'
<1> SUFFICES ASSUME RackInv, [Next]_vars
             PROVE  RackInv'
  OBVIOUS
<1>1. ASSUME NEW c \in Clerks, Handle(c)
      PROVE  RackInv'
  BY <1>1, DeskKept, ScanRackKept DEF Handle
<1>2. CASE UNCHANGED vars
  <2>1. UNCHANGED <<session, opened, queue, left, racks, entries, loads, desk, edit, edits, zeroed>>
    BY <1>2 DEF vars
  <2>2. TypeOK'
    BY <2>1 DEF RackInv, TypeOK
  <2>3. edit' = Idle \/ edit'.rack \in DOMAIN racks
    BY <2>1 DEF RackInv, Rows
  <2>. QED
    BY <2>1, <2>2, <2>3, SameRows
<1>. QED
  BY <1>1, <1>2, CreateRackKept, SessionsKept, LoadCreelKept, ReadPriceKept, SavePriceKept
     DEF Next

(* Every table of the racks is well formed, and no bobbin is in a rack, or *)
(* in a loom, without its product.                                         *)
THEOREM TablesAreTyped == Spec => []TypeOK
<1>1. RackInv => TypeOK
  BY DEF RackInv
<1>. QED
  BY RackInit, RackStep, <1>1, PTL DEF Spec

(* Over any scans, overflows into other racks and into new ones, loads and *)
(* edits, a rack holds exactly the bobbins that were scanned into it and   *)
(* not loaded, and never more than fit (except the racks whose pieces an   *)
(* edit of the price overwrote).                                           *)
THEOREM PiecesAreKept == Spec => []PiecesReconcile
<1>1. RackInv => PiecesReconcile
  BY DEF RackInv, PiecesReconcile, Reconciled
<1>. QED
  BY RackInit, RackStep, <1>1, PTL DEF Spec

(* What a mixture gave is in the production entries, to the last gram of   *)
(* the rounded shares, and what was scanned into a rack is in the balance  *)
(* of its QR or in the looms.                                              *)
THEOREM MassIsKept == Spec => []MassReconcile
<1>1. RackInv => MassReconcile
  BY DEF RackInv, MassReconcile, GivenBy, Weighed
<1>. QED
  BY RackInit, RackStep, <1>1, PTL DEF Spec

(* The production that debitRackTraceability writes on a load of a loom is *)
(* one of that rack, of the product and route of the bobbins.              *)
THEOREM TraceIsOfTheBobbins == Spec => []SpoolTraceIsRight
<1>1. RackInv => SpoolTraceIsRight
  BY DEF RackInv
<1>. QED
  BY RackInit, RackStep, <1>1, PTL DEF Spec
=============================================================================
