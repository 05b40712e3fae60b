----------------------- MODULE ConsumptionOrdersProofs -----------------------
(***************************************************************************)
(* Proofs about ConsumptionOrders, for every number of orders, lots, lines *)
(* and clerks.  The invariants of the child QRs are not inductive one by   *)
(* one: a scan finds the WIP row of its line only because a label was made *)
(* for one line (LabelExists with madeFor), and finds no row under a fresh *)
(* label only because every row has a line that delivered it               *)
(* (WipHasItsLine) and nothing is consumed under a label without a row     *)
(* (UsedFromRows).  What a line received is counted over all the labels    *)
(* ever made for it (BroughtByLabels): two overlapping requests may label  *)
(* a line twice, and the rows of the first label stay.                     *)
(* That the orders implement the ledger of MaterialIssue needs more: every *)
(* line is of a placed order, and its lot of its material (LedgerInv).     *)
(***************************************************************************)
EXTENDS ConsumptionOrders, TotalTheorems, TLAPS

(* A line's label exists and was made for that line; only raw material has *)
(* one.                                                                    *)
LabelExists ==
    \A i \in DOMAIN items :
        /\ items[i].child # NoQr => /\ items[i].child \in DOMAIN qrs
                                   /\ madeFor[items[i].child] = i
        /\ ~Raw(items[i].material) => items[i].child = NoQr

(* Nothing is consumed under a label that never had a WIP row.             *)
UsedFromRows ==
    \A q \in DOMAIN qrs : used[q] > 0 => \E r \in DOMAIN wip : r[2] = q

(* The lines an open request is about to label are lines of raw material.  *)
BareKnown ==
    \A c \in Clerks : desk[c].op = "label" =>
        \A i \in desk[c].bare : i \in DOMAIN items /\ Raw(items[i].material)

(* The WIP rows of the labels made for a line brought what it received.    *)
MadeRows(i) == {r \in DOMAIN wip : madeFor[r[2]] = i}
BroughtByLabels ==
    \A i \in DOMAIN items :
        Raw(items[i].material) => Total(Brought, MadeRows(i)) = items[i].fulfilled

(* The inductive invariant.                                                *)
IInv ==
    /\ TablesOK
    /\ NeverOverDelivered
    /\ LabelExists
    /\ UsedFromRows
    /\ BareKnown
    /\ BroughtByLabels
    /\ WipHasItsLine
    /\ TraceMatchesWip
    /\ LiveLabelHasStock

(* No label is shared: each was made for one line.                         *)
LEMMA LabelsHaveOneLine == IInv => LabelOwnedOnce
BY DEF IInv, LabelExists, LabelOwnedOnce

(* Two WIP rows never share a label: they would be of the lot of one line. *)
LEMMA LabelHasOneRow ==
    ASSUME IInv, NEW r \in DOMAIN wip, NEW s \in DOMAIN wip, r[2] = s[2]
    PROVE  r = s
<1>1. r[1] = s[1]
    BY DEF IInv, WipHasItsLine
<1>2. r \in Lots \X DOMAIN trace /\ s \in Lots \X DOMAIN trace
    BY DEF IInv, TablesOK
<1> QED
    BY <1>1, <1>2

(* The rows of a line's labels are all under the lot the line has.         *)
LEMMA RowsByLine == IInv => DeliveredIsInPlant
<1> SUFFICES ASSUME IInv, NEW i \in DOMAIN items, Raw(items[i].material)
             PROVE  Total(Brought, RowsOfLine(i)) = items[i].fulfilled
    BY DEF DeliveredIsInPlant
<1>1. RowsOfLine(i) = MadeRows(i)
    BY DEF RowsOfLine, MadeRows, IInv, WipHasItsLine
<1> QED
    BY <1>1 DEF IInv, BroughtByLabels

(* The rows are finitely many, and what each brought is a natural number.  *)
RowsSummable ==
    /\ \A S \in SUBSET (DOMAIN wip) : IsFiniteSet(S)
    /\ \A r \in DOMAIN wip :
          /\ r[2] \in DOMAIN qrs /\ wip[r] \in Nat /\ used[r[2]] \in Nat
          /\ Brought[r] = wip[r] + used[r[2]] /\ Brought[r] \in Nat

(* There are finitely many lots and labels.                                *)
LEMMA RowFacts == IInv => RowsSummable
<1> SUFFICES ASSUME IInv PROVE RowsSummable
  OBVIOUS
<1>1. /\ nextId \in Nat /\ DOMAIN qrs \subseteq 1..nextId /\ used \in [DOMAIN qrs -> Nat]
      /\ DOMAIN trace \subseteq DOMAIN qrs
      /\ DOMAIN wip \subseteq Lots \X DOMAIN trace /\ wip \in [DOMAIN wip -> Nat]
  BY DEF IInv, TablesOK
<1>2. IsFiniteSet(1..nextId) /\ IsFiniteSet(Lots)
  <2>1. NumLots \in Nat
    BY LotAssumption DEF LotAssumption
  <2>2. ASSUME NEW n \in Nat PROVE IsFiniteSet(1..n)
    BY FS_Interval
  <2>. QED
    BY <1>1, <2>1, <2>2 DEF Lots
<1>3. IsFiniteSet(DOMAIN trace)
  BY <1>1, <1>2, FS_Subset
<1>4. IsFiniteSet(Lots \X DOMAIN trace)
  BY <1>2, <1>3, FS_Product
<1>5. IsFiniteSet(DOMAIN wip)
  BY <1>1, <1>4, FS_Subset
<1>6. \A S \in SUBSET (DOMAIN wip) : IsFiniteSet(S)
  BY <1>5, FS_Subset
<1>7. ASSUME NEW r \in DOMAIN wip
      PROVE  /\ r[2] \in DOMAIN qrs /\ wip[r] \in Nat /\ used[r[2]] \in Nat
             /\ Brought[r] = wip[r] + used[r[2]] /\ Brought[r] \in Nat
  <2>1. r[2] \in DOMAIN qrs /\ wip[r] \in Nat
    BY <1>1
  <2>. QED
    BY <1>1, <2>1 DEF Brought
<1>. QED
  BY <1>6, <1>7 DEF RowsSummable

(* The initial rows of a legacy order satisfy the invariant: they have no  *)
(* label and received nothing.                                             *)
LEMMA InitIInv == Init => IInv
<1> SUFFICES ASSUME Init PROVE IInv
    OBVIOUS
<1> USE LotAssumption DEF Init
<1>1. TablesOK
  <2>1. available \in [Lots -> Nat] /\ isActive \in [Lots -> BOOLEAN]
    OBVIOUS
  <2>2. orders \in [Orders -> Statuses \cup {"NONE"}]
    BY DEF Statuses
  <2>3. DOMAIN items \subseteq 1..nextId /\ nextId \in Nat
    BY DEF Lots
  <2>4. items \in [DOMAIN items -> LineType]
    <3> SUFFICES ASSUME NEW l \in LegacyLots
                 PROVE [order |-> LegacyOrder, material |-> MaterialOf[l], lote |-> l,
                   requested |-> Received[l], fulfilled |-> 0, child |-> NoQr] \in LineType
      OBVIOUS
    <3> QED
      BY DEF LineType, NoQr
  <2>5. desk \in [Clerks -> DeskType]
    BY DEF DeskType
  <2>6. /\ DOMAIN qrs = {} /\ DOMAIN used = {} /\ DOMAIN wip = {} /\ DOMAIN trace = {}
    OBVIOUS
  <2>7. /\ qrs \in [DOMAIN qrs -> QrStatuses] /\ used \in [DOMAIN qrs -> Nat]
        /\ madeFor \in [DOMAIN qrs -> Nat]
        /\ trace \in [DOMAIN trace -> Nat] /\ wip \in [DOMAIN wip -> Nat]
    OBVIOUS
  <2> QED
    BY <2>1, <2>2, <2>3, <2>4, <2>5, <2>6, <2>7 DEF TablesOK
<1>2. NeverOverDelivered /\ LabelExists /\ UsedFromRows /\ BareKnown
  <2>1. BareKnown
    BY DEF BareKnown, Idle
  <2>. QED
    BY <2>1 DEF NeverOverDelivered, LabelExists, UsedFromRows, NoQr, Lots
<1>3. WipHasItsLine /\ TraceMatchesWip /\ LiveLabelHasStock
    BY DEF WipHasItsLine, TraceMatchesWip, LiveLabelHasStock
<1>4. BroughtByLabels
  <2> SUFFICES ASSUME NEW i \in DOMAIN items
               PROVE  Total(Brought, MadeRows(i)) = items[i].fulfilled
    BY DEF BroughtByLabels
  <2>1. MadeRows(i) = {} /\ items[i].fulfilled = 0
    BY DEF MadeRows
  <2>. QED
    BY <2>1, TotalEmpty
<1> QED
    BY <1>1, <1>2, <1>3, <1>4 DEF IInv
-----------------------------------------------------------------------------
(* A scan of lot l for order o that fulfils line K.  The lemmas that       *)
(* follow take from here what the scan does to the lines and the labels.   *)

Line(l, K) == IF Splits(items[K], l) THEN nextId + 1 ELSE K
Relabels(l, K) == Raw(MaterialOf[l]) /\ ~KeepsLabel(items[K], l)
Label(l, K) == IF Relabels(l, K) THEN nextId + 1 ELSE items[K].child
RowOf(l, K) == <<l, Label(l, K)>>
Before(l, K) == IF RowOf(l, K) \in DOMAIN wip THEN wip[RowOf(l, K)] ELSE 0

(* What the line a scan fulfils holds.                                     *)
LEMMA LineDelivered ==
    ASSUME NEW i \in LineType, NEW l \in Lots, NEW take \in Nat, NEW child \in Nat,
           take <= i.requested - i.fulfilled,
           NEW d, d = DeliveredLine(i, l, take, child)
    PROVE  /\ d \in LineType
           /\ d.order = i.order /\ d.material = i.material
           /\ d.lote = l /\ d.child = child
           /\ d.requested = IF Splits(i, l) THEN i.requested - i.fulfilled
                            ELSE i.requested
           /\ d.fulfilled = IF Splits(i, l) THEN take ELSE i.fulfilled + take
<1>1. PICK a \in Nat, b \in Nat :
        /\ a = IF Splits(i, l) THEN i.requested - i.fulfilled ELSE i.requested
        /\ b = IF Splits(i, l) THEN take ELSE i.fulfilled + take
    BY DEF LineType, Splits
<1>2. d = [i EXCEPT !.lote = l, !.child = child, !.requested = a, !.fulfilled = b]
    BY <1>1 DEF DeliveredLine, Remainder, DeliveredSoFar, Splits
<1>3. /\ d \in LineType
      /\ d.order = i.order /\ d.material = i.material
      /\ d.lote = l /\ d.child = child /\ d.requested = a /\ d.fulfilled = b
    BY <1>2 DEF LineType
<1> QED
    BY <1>1, <1>3

(* The line a scan fulfils is a pending line of the order and the lot's    *)
(* material, and the scan takes a positive quantity it waits for.          *)
LEMMA ScanTakes ==
    ASSUME IInv, NEW o \in Orders, NEW l \in Lots, NEW K \in LineFor(o, l),
           isActive[l], available[l] > 0
    PROVE  /\ K \in DOMAIN items
           /\ items[K] \in LineType
           /\ items[K].order = o
           /\ items[K].material = MaterialOf[l]
           /\ Take(items[K], l) \in Nat
           /\ Take(items[K], l) > 0
           /\ Take(items[K], l) <= items[K].requested - items[K].fulfilled
           /\ Take(items[K], l) <= available[l]
<1>1. K \in Pending(o, MaterialOf[l])
    BY DEF LineFor
<1>2. K \in DOMAIN items /\ items[K].order = o /\ items[K].material = MaterialOf[l]
      /\ items[K].fulfilled < items[K].requested
    BY <1>1 DEF Pending, LinesOf
<1>3. items[K] \in LineType /\ available[l] \in Nat
    BY <1>2 DEF IInv, TablesOK
<1> QED
    BY <1>2, <1>3 DEF Take, Smaller, LineType

(* Of the other lines only the split one changes, and only in what it asks *)
(* for.                                                                    *)
LEMMA ScanOtherLines ==
    ASSUME IInv, NEW o \in Orders, NEW l \in Lots, NEW K \in LineFor(o, l),
           Scan(o, l, K), NEW k \in DOMAIN items, k # Line(l, K)
    PROVE  /\ items'[k].material = items[k].material
           /\ items'[k].lote = items[k].lote
           /\ items'[k].child = items[k].child
           /\ items'[k].fulfilled = items[k].fulfilled
           /\ items'[k].requested \in {items[k].requested, items[k].fulfilled}
<1>1. items[K] \in LineType
    BY ScanTakes DEF Scan
<1>2. items'[k] = IF k = K THEN [items[K] EXCEPT !.requested = items[K].fulfilled]
                  ELSE items[k]
    BY DEF Scan, Line
<1> QED
    BY <1>1, <1>2 DEF LineType

(* The line the scan fulfils, and the type of them all.                    *)
LEMMA ScanLines ==
    ASSUME IInv, NEW o \in Orders, NEW l \in Lots, NEW K \in LineFor(o, l),
           Scan(o, l, K)
    PROVE  /\ DOMAIN items' = DOMAIN items \cup {Line(l, K)}
           /\ items' \in [DOMAIN items' -> LineType]
           /\ items'[Line(l, K)].order = o
           /\ items'[Line(l, K)].material = MaterialOf[l]
           /\ items'[Line(l, K)].lote = l
           /\ items'[Line(l, K)].child = Label(l, K)
           /\ items'[Line(l, K)].fulfilled =
                (IF Splits(items[K], l) THEN 0 ELSE items[K].fulfilled)
                + Take(items[K], l)
           /\ items'[Line(l, K)].fulfilled > 0
           /\ items'[Line(l, K)].fulfilled <= items'[Line(l, K)].requested
<1> DEFINE i == items[K]
           take == Take(i, l)
           line == Line(l, K)
           delivered == DeliveredLine(i, l, take, Label(l, K))
<1>1. isActive[l] /\ available[l] > 0
    BY DEF Scan
<1>2. /\ K \in DOMAIN items /\ i \in LineType /\ i.order = o
      /\ i.material = MaterialOf[l] /\ take \in Nat /\ take > 0
      /\ take <= i.requested - i.fulfilled
    BY <1>1, ScanTakes
<1>3. items' = [k \in DOMAIN items \cup {line} |->
                    IF k = line THEN delivered
                    ELSE IF k = K THEN [i EXCEPT !.requested = i.fulfilled]
                    ELSE items[k]]
    BY DEF Scan, Line, Label, Relabels
<1>4. /\ i.requested \in Nat /\ i.fulfilled \in Nat /\ i.child \in Nat
      /\ items \in [DOMAIN items -> LineType] /\ nextId \in Nat
      /\ DOMAIN items \subseteq 1..nextId
    BY <1>2 DEF LineType, IInv, TablesOK
<1>5. Label(l, K) \in Nat
    BY <1>4 DEF Label
<1>6. /\ delivered \in LineType
      /\ delivered.order = o
      /\ delivered.material = MaterialOf[l]
      /\ delivered.lote = l
      /\ delivered.child = Label(l, K)
      /\ delivered.fulfilled = IF Splits(i, l) THEN take ELSE i.fulfilled + take
      /\ delivered.requested = IF Splits(i, l) THEN i.requested - i.fulfilled
                               ELSE i.requested
    BY <1>2, <1>5, LineDelivered
<1>7. items'[line] = delivered /\ DOMAIN items' = DOMAIN items \cup {line}
    BY <1>3
<1>8. ASSUME NEW k \in DOMAIN items \ {line}
      PROVE  items'[k] = IF k = K THEN [i EXCEPT !.requested = i.fulfilled]
                         ELSE items[k]
    BY <1>3
<1>9. [i EXCEPT !.requested = i.fulfilled] \in LineType
    BY <1>2, <1>4 DEF LineType
<1>10. items' \in [DOMAIN items' -> LineType]
  <2> SUFFICES ASSUME NEW k \in DOMAIN items' PROVE items'[k] \in LineType
    BY <1>3
  <2> QED
    BY <1>4, <1>6, <1>7, <1>8, <1>9
<1>11. /\ items'[line].fulfilled > 0
       /\ items'[line].fulfilled <= items'[line].requested
    BY <1>2, <1>4, <1>6, <1>7
<1>12. items'[line].fulfilled = (IF Splits(i, l) THEN 0 ELSE i.fulfilled) + take
    BY <1>2, <1>4, <1>6, <1>7
<1> QED
    BY <1>6, <1>7, <1>10, <1>11, <1>12

(* The scan's label is the line's own one or a fresh one, and the only WIP *)
(* row it may already have is the one of the scanned lot.                  *)
LEMMA ScanLabel ==
    ASSUME IInv, NEW o \in Orders, NEW l \in Lots, NEW K \in LineFor(o, l),
           Scan(o, l, K)
    PROVE  LET m == MaterialOf[l] IN
           /\ Label(l, K) \in Nat
           /\ ~Raw(m) => Label(l, K) = NoQr /\ items[K].child = NoQr
           /\ Relabels(l, K) => Label(l, K) = nextId + 1
           /\ Raw(m) /\ ~Relabels(l, K) =>
                /\ ~Splits(items[K], l)
                /\ items[K].lote = l
                /\ Label(l, K) = items[K].child
                /\ items[K].child \in DOMAIN qrs
                /\ madeFor[items[K].child] = K
           /\ Raw(m) =>
                /\ Label(l, K) > 0
                /\ Before(l, K) \in Nat
                /\ \A r \in DOMAIN wip : r[2] = Label(l, K) =>
                      r = RowOf(l, K) /\ madeFor[Label(l, K)] = Line(l, K)
<1> DEFINE i == items[K]
           m == MaterialOf[l]
           q == Label(l, K)
           row == RowOf(l, K)
<1>1. /\ K \in DOMAIN items /\ i \in LineType /\ i.material = m
      /\ i.child \in Nat /\ i.fulfilled \in Nat
    BY ScanTakes DEF Scan, LineType
<1>2. /\ nextId \in Nat /\ DOMAIN qrs \subseteq 1..nextId
      /\ DOMAIN wip \subseteq Lots \X DOMAIN trace /\ DOMAIN trace \subseteq DOMAIN qrs
      /\ wip \in [DOMAIN wip -> Nat]
    BY DEF IInv, TablesOK
<1>3. q \in Nat /\ (Relabels(l, K) => q = nextId + 1)
      /\ (~Relabels(l, K) => q = i.child)
    BY <1>1, <1>2 DEF Label
<1>4. ~Raw(m) => i.child = NoQr /\ ~Relabels(l, K)
    BY <1>1 DEF IInv, LabelExists, Relabels
<1>5. Raw(m) /\ ~Relabels(l, K) => ~Splits(i, l) /\ i.lote = l /\ i.child # NoQr
    BY DEF Relabels, KeepsLabel
<1>6. Raw(m) /\ ~Relabels(l, K) => i.child \in DOMAIN qrs /\ madeFor[i.child] = K
    BY <1>1, <1>5 DEF IInv, LabelExists
<1>7. Raw(m) => q > 0
    BY <1>2, <1>3, <1>6
<1>8. Before(l, K) \in Nat
    BY <1>2 DEF Before
<1>9. ASSUME Raw(m), NEW r \in DOMAIN wip, r[2] = q
      PROVE  r = row /\ madeFor[q] = Line(l, K)
  <2>1. r[2] \in DOMAIN qrs
    BY <1>2
  <2>2. ~Relabels(l, K)
    BY <1>2, <1>3, <1>9, <2>1
  <2>3. madeFor[q] = K /\ i.lote = l /\ Line(l, K) = K
    BY <1>3, <1>5, <1>6, <1>9, <2>2 DEF Line
  <2>4. r[1] = l
    BY <1>9, <2>3 DEF IInv, WipHasItsLine
  <2>5. r \in Lots \X DOMAIN trace
    BY <1>2
  <2> QED
    BY <1>9, <2>3, <2>4, <2>5 DEF RowOf
<1> QED
    BY <1>3, <1>4, <1>5, <1>6, <1>7, <1>8, <1>9

(* The tables a scan of raw material writes besides the lines.             *)
LEMMA ScanTables ==
    ASSUME NEW o, NEW l, NEW K, Scan(o, l, K), Raw(MaterialOf[l])
    PROVE  /\ wip' = [r \in DOMAIN wip \cup {RowOf(l, K)} |->
                IF r = RowOf(l, K) THEN Before(l, K) + Take(items[K], l) ELSE wip[r]]
           /\ trace' = [p \in DOMAIN trace \cup {Label(l, K)} |->
                IF p = Label(l, K) THEN Before(l, K) + Take(items[K], l) ELSE trace[p]]
           /\ used' = [p \in DOMAIN used \cup {Label(l, K)} |->
                IF p \in DOMAIN used THEN used[p] ELSE 0]
           /\ madeFor' = [p \in DOMAIN madeFor \cup {Label(l, K)} |->
                IF p = Label(l, K) THEN Line(l, K) ELSE madeFor[p]]
           /\ qrs' = [p \in DOMAIN qrs \cup {Label(l, K)} |->
                IF p = Label(l, K) THEN "IN_WIP"
                ELSE IF Relabels(l, K) /\ ~Splits(items[K], l) /\ p = items[K].child
                     THEN "CANCELADO" ELSE qrs[p]]
BY DEF Scan, Line, Label, Relabels, RowOf, Before, TraceAfter

(* The rows after a scan: its own one grows by what it took, is of the     *)
(* line it delivered, and was so already if it existed.                    *)
RowsAfterScan(row, line, take) ==
    /\ DOMAIN wip' = DOMAIN wip \cup {row}
    /\ \A r \in DOMAIN wip \ {row} :
          /\ wip'[r] = wip[r] /\ madeFor'[r[2]] = madeFor[r[2]]
          /\ used'[r[2]] = used[r[2]] /\ Brought'[r] = Brought[r]
    /\ madeFor'[row[2]] = line
    /\ row \in DOMAIN wip => /\ madeFor[row[2]] = line /\ used'[row[2]] = used[row[2]]
                             /\ Brought'[row] = Brought[row] + take
    /\ row \notin DOMAIN wip => used'[row[2]] = 0 /\ Brought'[row] = take

(* A scan of raw material writes that: a label without a row is unused.    *)
LEMMA ScanRows ==
    ASSUME IInv, NEW o \in Orders, NEW l \in Lots, NEW K \in LineFor(o, l),
           Scan(o, l, K), Raw(MaterialOf[l])
    PROVE  RowsAfterScan(RowOf(l, K), Line(l, K), Take(items[K], l))
<1> DEFINE q == Label(l, K)
           row == RowOf(l, K)
           line == Line(l, K)
           take == Take(items[K], l)
           before == Before(l, K)
<1>1. /\ take \in Nat /\ DOMAIN used = DOMAIN qrs /\ used \in [DOMAIN qrs -> Nat]
      /\ DOMAIN madeFor = DOMAIN qrs
    BY ScanTakes DEF Scan, IInv, TablesOK
<1>2. /\ before = IF row \in DOMAIN wip THEN wip[row] ELSE 0
      /\ row = <<l, q>> /\ row[2] = q
    BY DEF Before, RowOf
<1>3. \A r \in DOMAIN wip : r[2] = q => r = row /\ madeFor[q] = line
    BY ScanLabel
<1>4. /\ wip' = [r \in DOMAIN wip \cup {row} |->
                    IF r = row THEN before + take ELSE wip[r]]
      /\ used' = [p \in DOMAIN used \cup {q} |->
                    IF p \in DOMAIN used THEN used[p] ELSE 0]
      /\ madeFor' = [p \in DOMAIN madeFor \cup {q} |->
                    IF p = q THEN line ELSE madeFor[p]]
  <2>1. /\ wip' = [r \in DOMAIN wip \cup {row} |->
                    IF r = row THEN before + take ELSE wip[r]]
        /\ trace' = [p \in DOMAIN trace \cup {q} |->
                    IF p = q THEN before + take ELSE trace[p]]
        /\ used' = [p \in DOMAIN used \cup {q} |->
                    IF p \in DOMAIN used THEN used[p] ELSE 0]
        /\ madeFor' = [p \in DOMAIN madeFor \cup {q} |->
                    IF p = q THEN line ELSE madeFor[p]]
        /\ qrs' = [p \in DOMAIN qrs \cup {q} |-> IF p = q THEN "IN_WIP"
                    ELSE IF Relabels(l, K) /\ ~Splits(items[K], l) /\ p = items[K].child
                         THEN "CANCELADO" ELSE qrs[p]]
    BY ScanTables
  <2> HIDE DEF row, line, take, q, before
  <2> QED
    BY <2>1
<1>5. RowsSummable
    BY RowFacts
<1>13. RowsAfterScan(RowOf(l, K), Line(l, K), Take(items[K], l))
      = RowsAfterScan(row, line, take)
    OBVIOUS
<1> HIDE DEF q, row, line, take, before
<1>6. Brought' = [r \in DOMAIN wip' |-> wip'[r] + used'[r[2]]]
    BY DEF Brought
<1>7. ASSUME NEW r \in DOMAIN wip \ {row}
      PROVE  /\ wip'[r] = wip[r] /\ madeFor'[r[2]] = madeFor[r[2]]
             /\ used'[r[2]] = used[r[2]] /\ Brought'[r] = Brought[r]
  <2>1. r \in DOMAIN wip /\ r \in DOMAIN wip' /\ r[2] # q /\ r[2] \in DOMAIN qrs
        /\ Brought[r] = wip[r] + used[r[2]]
    BY <1>3, <1>4, <1>5 DEF RowsSummable
  <2>2. wip'[r] = wip[r] /\ madeFor'[r[2]] = madeFor[r[2]] /\ used'[r[2]] = used[r[2]]
    BY <1>1, <1>4, <2>1
  <2> QED
    BY <1>6, <2>1, <2>2
<1>8. /\ DOMAIN wip' = DOMAIN wip \cup {row} /\ madeFor'[row[2]] = line
      /\ wip'[row] = before + take
      /\ used'[row[2]] = IF q \in DOMAIN used THEN used[q] ELSE 0
    BY <1>2, <1>4
<1>9. Brought'[row] = wip'[row] + used'[row[2]]
    BY <1>6, <1>8
<1>10. ASSUME row \in DOMAIN wip
       PROVE  /\ madeFor[row[2]] = line /\ used'[row[2]] = used[row[2]]
              /\ Brought'[row] = Brought[row] + take
  <2>1. /\ q \in DOMAIN qrs /\ wip[row] \in Nat /\ used[q] \in Nat
        /\ Brought[row] = wip[row] + used[q]
    BY <1>2, <1>5, <1>10 DEF RowsSummable
  <2>2. used'[row[2]] = used[q] /\ before = wip[row] /\ madeFor[q] = line
    BY <1>1, <1>2, <1>3, <1>8, <1>10, <2>1
  <2>3. Brought'[row] = (wip[row] + take) + used[q]
    BY <1>8, <1>9, <2>2
  <2> QED
    BY <1>1, <1>2, <2>1, <2>2, <2>3
<1>11. ASSUME row \notin DOMAIN wip PROVE used'[row[2]] = 0 /\ Brought'[row] = take
  <2>1. q \in DOMAIN qrs => used[q] = 0
    BY <1>1, <1>3, <1>11 DEF IInv, UsedFromRows
  <2>2. used'[row[2]] = 0 /\ before = 0
    BY <1>1, <1>2, <1>8, <1>11, <2>1
  <2>3. Brought'[row] = (0 + take) + 0
    BY <1>8, <1>9, <2>2
  <2> QED
    BY <1>1, <2>2, <2>3
<1>12. RowsAfterScan(row, line, take)
    BY <1>7, <1>8, <1>10, <1>11 DEF RowsAfterScan
<1> QED
    BY <1>13, <1>12

(* So the line it delivers on has in its rows what it received, and the    *)
(* rows of the others are as they were.                                    *)
LEMMA ScanBrings ==
    ASSUME IInv, NEW row, NEW line, NEW take \in Nat, RowsAfterScan(row, line, take)
    PROVE  /\ Total(Brought', MadeRows(line)') = Total(Brought, MadeRows(line)) + take
           /\ \A k : k # line =>
                 Total(Brought', MadeRows(k)') = Total(Brought, MadeRows(k))
<1> USE DEF RowsAfterScan
<1>1. RowsSummable
    BY RowFacts
<1>2. ASSUME NEW k, k # line
      PROVE  Total(Brought', MadeRows(k)') = Total(Brought, MadeRows(k))
  <2> DEFINE S == MadeRows(k)
  <2>1. MadeRows(k)' = S
    BY <1>2 DEF MadeRows
  <2>2. IsFiniteSet(S) /\ \A r \in S : r \in DOMAIN wip \ {row}
    BY <1>1, <1>2 DEF MadeRows, RowsSummable
  <2>3. \A r \in S : Brought'[r] = Brought[r]
    BY <2>2
  <2>4. MadeRows(k) = S
    OBVIOUS
  <2> HIDE DEF S
  <2>5. Total(Brought', S) = Total(Brought, S)
    BY <2>2, <2>3, TotalEqual
  <2> QED
    BY <2>1, <2>4, <2>5
<1>3. Total(Brought', MadeRows(line)') = Total(Brought, MadeRows(line)) + take
  <2> DEFINE S == MadeRows(line)
  <2>1. MadeRows(line)' = S \cup {row} /\ MadeRows(line) = S
    BY DEF MadeRows
  <2>2. IsFiniteSet(S) /\ S \subseteq DOMAIN wip /\ \A r \in S : Brought[r] \in Int
    BY <1>1 DEF MadeRows, RowsSummable
  <2>3. row \in DOMAIN wip => row \in S
    BY DEF MadeRows
  <2> HIDE DEF S
  <2>4. \A r \in S \ {row} : Brought'[r] = Brought[r]
    BY <2>2
  <2>5. row \in S => Brought'[row] = Brought[row] + take
    BY <2>2
  <2>6. row \notin S => Brought'[row] = take
    BY <2>3
  <2>7. take \in Int
    OBVIOUS
  <2>8. Total(Brought', S \cup {row}) = Total(Brought, S) + take
    BY <2>2, <2>4, <2>5, <2>6, <2>7, TotalPut
  <2> QED
    BY <2>1, <2>8
<1> QED
    BY <1>2, <1>3

(* A scan of raw material keeps the invariant: the fulfilled line and its  *)
(* WIP row grow together, every other line keeps its own rows.             *)
LEMMA ScanRawIInv ==
    ASSUME IInv, NEW o \in Orders, NEW l \in Lots, NEW K \in LineFor(o, l),
           Scan(o, l, K), Raw(MaterialOf[l])
    PROVE  IInv'
<1> DEFINE i == items[K]
           m == MaterialOf[l]
           take == Take(i, l)
           line == Line(l, K)
           q == Label(l, K)
           row == RowOf(l, K)
           before == Before(l, K)
<1>1. /\ nextId \in Nat /\ DOMAIN items \subseteq 1..nextId
      /\ items \in [DOMAIN items -> LineType]
      /\ DOMAIN qrs \subseteq 1..nextId /\ qrs \in [DOMAIN qrs -> QrStatuses]
      /\ used \in [DOMAIN qrs -> Nat] /\ madeFor \in [DOMAIN qrs -> Nat]
      /\ DOMAIN trace \subseteq DOMAIN qrs /\ trace \in [DOMAIN trace -> Nat]
      /\ DOMAIN wip \subseteq Lots \X DOMAIN trace /\ wip \in [DOMAIN wip -> Nat]
      /\ available \in [Lots -> Nat] /\ isActive \in [Lots -> BOOLEAN]
      /\ orders \in [Orders -> Statuses \cup {"NONE"}]
      /\ desk \in [Clerks -> DeskType]
    BY DEF IInv, TablesOK
<1>2. /\ K \in DOMAIN items /\ i \in LineType /\ i.material = m
      /\ take \in Nat /\ take > 0 /\ take <= available[l]
      /\ i.fulfilled \in Nat /\ i.requested \in Nat /\ i.child \in Nat
    BY ScanTakes DEF Scan, LineType
<1>3. /\ q \in Nat /\ q > 0
      /\ Relabels(l, K) => q = nextId + 1
      /\ ~Relabels(l, K) => /\ ~Splits(i, l) /\ i.lote = l
                            /\ q = i.child /\ i.child \in DOMAIN qrs
                            /\ madeFor[q] = K
      /\ before \in Nat
      /\ \A r \in DOMAIN wip : r[2] = q => r = row
    BY ScanLabel
<1>4. /\ DOMAIN items' = DOMAIN items \cup {line}
      /\ items' \in [DOMAIN items' -> LineType]
      /\ items'[line].material = m /\ items'[line].lote = l
      /\ items'[line].child = q
      /\ items'[line].fulfilled = (IF Splits(i, l) THEN 0 ELSE i.fulfilled) + take
      /\ items'[line].fulfilled > 0
      /\ items'[line].fulfilled <= items'[line].requested
    BY <1>2, ScanLines
<1>5. \A k \in DOMAIN items \ {line} :
        /\ items'[k].material = items[k].material
        /\ items'[k].lote = items[k].lote
        /\ items'[k].child = items[k].child
        /\ items'[k].fulfilled = items[k].fulfilled
        /\ items'[k].requested \in {items[k].requested, items[k].fulfilled}
  <2> HIDE DEF i, m, take, q, row, before
  <2> TAKE k \in DOMAIN items \ {line}
  <2> QED
    BY ScanOtherLines
<1>6. /\ DOMAIN qrs' = DOMAIN qrs \cup {q} /\ qrs'[q] = "IN_WIP"
      /\ \A p \in DOMAIN qrs \ {q} : qrs'[p] \in {qrs[p], "CANCELADO"}
      /\ wip' = [r \in DOMAIN wip \cup {row} |->
                    IF r = row THEN before + take ELSE wip[r]]
      /\ trace' = [p \in DOMAIN trace \cup {q} |->
                    IF p = q THEN before + take ELSE trace[p]]
      /\ used' = [p \in DOMAIN used \cup {q} |->
                    IF p \in DOMAIN used THEN used[p] ELSE 0]
      /\ madeFor' = [p \in DOMAIN madeFor \cup {q} |->
                    IF p = q THEN line ELSE madeFor[p]]
  <2> DEFINE dropped(p) == Relabels(l, K) /\ ~Splits(i, l) /\ p = i.child
  <2>1. /\ wip' = [r \in DOMAIN wip \cup {row} |->
                    IF r = row THEN before + take ELSE wip[r]]
        /\ trace' = [p \in DOMAIN trace \cup {q} |->
                    IF p = q THEN before + take ELSE trace[p]]
        /\ used' = [p \in DOMAIN used \cup {q} |->
                    IF p \in DOMAIN used THEN used[p] ELSE 0]
        /\ madeFor' = [p \in DOMAIN madeFor \cup {q} |->
                    IF p = q THEN line ELSE madeFor[p]]
        /\ qrs' = [p \in DOMAIN qrs \cup {q} |-> IF p = q THEN "IN_WIP"
                    ELSE IF dropped(p) THEN "CANCELADO" ELSE qrs[p]]
    BY ScanTables
  <2> HIDE DEF i, m, take, line, q, row, before, dropped
  <2> QED
    BY <2>1
<1>7. /\ line = (IF Splits(i, l) THEN nextId + 1 ELSE K)
      /\ row = <<l, q>>
    BY DEF Line, RowOf
<1>8. /\ nextId' = IF Splits(i, l) \/ Relabels(l, K) THEN nextId + 1 ELSE nextId
      /\ available' = [available EXCEPT ![l] = available[l] - take]
      /\ isActive' = [isActive EXCEPT ![l] = StillActive(available[l] - take)]
      /\ \E s \in {orders[o], "SURTIDA"} : orders' = [orders EXCEPT ![o] = s]
      /\ desk' = desk
    BY DEF Scan, Relabels
<1>9. RowsAfterScan(row, line, take)
  BY ScanRows
<1> HIDE DEF i, m, take, line, q, row, before
<1>10. TablesOK'
  <2>1. available' \in [Lots -> Nat] /\ isActive' \in [Lots -> BOOLEAN]
    BY <1>1, <1>2, <1>8 DEF StillActive
  <2>2. orders' \in [Orders -> Statuses \cup {"NONE"}]
    BY <1>1, <1>8 DEF Statuses
  <2>3. nextId' \in Nat /\ nextId <= nextId'
    BY <1>1, <1>8
  <2>4. DOMAIN items' \subseteq 1..nextId' /\ line \in Nat
    BY <1>1, <1>2, <1>4, <1>7, <1>8, <2>3
  <2>5. DOMAIN qrs' \subseteq 1..nextId'
    BY <1>1, <1>3, <1>6, <1>8, <2>3
  <2>6. qrs' \in [DOMAIN qrs' -> QrStatuses]
    <3>1. qrs' = [p \in DOMAIN qrs' |-> qrs'[p]]
      BY DEF Scan
    <3> SUFFICES ASSUME NEW p \in DOMAIN qrs' PROVE qrs'[p] \in QrStatuses
      BY <3>1
    <3> QED
      BY <1>1, <1>6 DEF QrStatuses
  <2>7. used' \in [DOMAIN qrs' -> Nat] /\ madeFor' \in [DOMAIN qrs' -> Nat]
    BY <1>1, <1>6, <2>4
  <2>8. before + take \in Nat
    BY <1>2, <1>3
  <2>9. DOMAIN trace' \subseteq DOMAIN qrs' /\ trace' \in [DOMAIN trace' -> Nat]
    BY <1>1, <1>6, <2>8
  <2>10. DOMAIN wip' \subseteq Lots \X DOMAIN trace' /\ wip' \in [DOMAIN wip' -> Nat]
    BY <1>1, <1>6, <1>7, <2>8
  <2> QED
    BY <1>1, <1>4, <1>8, <2>1, <2>2, <2>3, <2>4, <2>5, <2>6, <2>7, <2>9, <2>10
    DEF TablesOK
<1>11. NeverOverDelivered'
  <2> SUFFICES ASSUME NEW k \in DOMAIN items'
               PROVE  items'[k].fulfilled <= items'[k].requested
    BY DEF NeverOverDelivered
  <2>1. CASE k = line
    BY <1>4, <2>1
  <2>2. CASE k # line
    BY <1>1, <1>4, <1>5, <2>2 DEF IInv, NeverOverDelivered, LineType
  <2> QED
    BY <2>1, <2>2
<1>12. LabelExists'
  <2> SUFFICES ASSUME NEW k \in DOMAIN items'
               PROVE  /\ items'[k].child # NoQr => /\ items'[k].child \in DOMAIN qrs'
                                                   /\ madeFor'[items'[k].child] = k
                      /\ ~Raw(items'[k].material) => items'[k].child = NoQr
    BY DEF LabelExists, Raw
  <2>1. CASE k = line
    BY <1>4, <1>6, <2>1 DEF m
  <2>2. CASE k # line
    <3>1. /\ items[k].child # NoQr => /\ items[k].child \in DOMAIN qrs
                                      /\ madeFor[items[k].child] = k
          /\ ~Raw(items[k].material) => items[k].child = NoQr
          /\ k \in DOMAIN items
      BY <1>4, <2>2 DEF IInv, LabelExists
    <3>2. items[k].child # NoQr => items[k].child # q
      BY <1>1, <1>3, <1>7, <2>2, <3>1
    <3> QED
      BY <1>1, <1>5, <1>6, <2>2, <3>1, <3>2
  <2> QED
    BY <2>1, <2>2
<1>13. UsedFromRows'
  <2> SUFFICES ASSUME NEW p \in DOMAIN qrs', used'[p] > 0
               PROVE  \E r \in DOMAIN wip' : r[2] = p
    BY DEF UsedFromRows
  <2>1. CASE p = q
    BY <1>6, <1>7, <2>1
  <2>2. CASE p # q
    BY <1>1, <1>6, <2>2 DEF IInv, UsedFromRows
  <2> QED
    BY <2>1, <2>2
(* The lines stay, and of their materials. *)
<1>14. \A k \in DOMAIN items : k \in DOMAIN items' /\ items'[k].material = items[k].material
  <2>1. ASSUME line \in DOMAIN items PROVE items[line].material = m
    BY <1>1, <1>2, <1>7, <2>1 DEF i
  <2> QED
    BY <1>4, <1>5, <2>1
<1>15. BareKnown'
    BY <1>8, <1>14 DEF IInv, BareKnown, Raw
<1>16. BroughtByLabels'
  <2> SUFFICES ASSUME NEW k \in DOMAIN items', Raw(items'[k].material)
               PROVE  Total(Brought', MadeRows(k)') = items'[k].fulfilled
    BY DEF BroughtByLabels, Raw
  <2>1. PICK n \in Nat, t \in Nat : n = line /\ t = take
    BY <1>1, <1>2, <1>4, <1>7
  <2>2. RowsAfterScan(row, n, t)
    BY <1>9, <2>1
  <2>3. /\ Total(Brought', MadeRows(n)') = Total(Brought, MadeRows(n)) + t
        /\ k # n => Total(Brought', MadeRows(k)') = Total(Brought, MadeRows(k))
    BY <2>2, ScanBrings
  <2>4. CASE k # n
    <3>1. /\ k \in DOMAIN items /\ items'[k].fulfilled = items[k].fulfilled
          /\ Raw(items[k].material)
      BY <1>4, <1>5, <2>1, <2>4
    <3> QED
      BY <2>3, <2>4, <3>1 DEF IInv, BroughtByLabels
  <2>5. CASE k = n
    <3>1. items'[k].fulfilled = (IF Splits(i, l) THEN 0 ELSE i.fulfilled) + t
      BY <1>4, <2>1, <2>5
    <3>2. Total(Brought, MadeRows(n)) = IF Splits(i, l) THEN 0 ELSE i.fulfilled
      <4>1. CASE Splits(i, l)
        <5>1. MadeRows(n) = {}
          BY <1>1, <1>7, <2>1, <4>1 DEF MadeRows, IInv, WipHasItsLine
        <5> QED
          BY <4>1, <5>1, TotalEmpty
      <4>2. CASE ~Splits(i, l)
        <5>1. n = K /\ K \in DOMAIN items /\ Raw(items[K].material)
          BY <1>2, <1>7, <2>1, <4>2 DEF i, m
        <5>2. Total(Brought, MadeRows(n)) = items[K].fulfilled
          BY <5>1 DEF IInv, BroughtByLabels
        <5> QED
          BY <4>2, <5>2 DEF i
      <4> QED
        BY <4>1, <4>2
    <3> QED
      BY <2>3, <2>5, <3>1, <3>2
  <2> QED
    BY <2>4, <2>5
<1>17. WipHasItsLine'
  <2> SUFFICES ASSUME NEW r \in DOMAIN wip', NEW k, k = madeFor'[r[2]]
               PROVE  /\ k \in DOMAIN items'
                      /\ Raw(items'[k].material) /\ items'[k].fulfilled > 0
                      /\ items'[k].lote = r[1]
    BY DEF WipHasItsLine, Raw
  <2>1. CASE r = row
    BY <1>4, <1>7, <1>9, <2>1 DEF RowsAfterScan, m
  <2>2. CASE r # row
    <3>1. r \in DOMAIN wip /\ k = madeFor[r[2]]
      BY <1>9, <2>2 DEF RowsAfterScan
    <3>2. /\ k \in DOMAIN items /\ Raw(items[k].material)
          /\ items[k].fulfilled > 0 /\ items[k].lote = r[1]
      BY <3>1 DEF IInv, WipHasItsLine
    <3>3. CASE k # line
      BY <1>4, <1>5, <3>2, <3>3
    <3>4. CASE k = line
      <4>1. k = K /\ ~Splits(i, l)
        BY <1>1, <1>2, <1>7, <3>2, <3>4
      <4>2. items[k].lote = l
        BY <3>2, <4>1 DEF Splits, i
      <4> QED
        BY <1>4, <3>2, <3>4, <4>2 DEF m
    <3> QED
      BY <3>3, <3>4
  <2> QED
    BY <2>1, <2>2
<1>18. TraceMatchesWip'
  <2> SUFFICES ASSUME NEW r \in DOMAIN wip' PROVE trace'[r[2]] = wip'[r]
    BY DEF TraceMatchesWip
  <2>1. CASE r = row
    BY <1>6, <1>7, <2>1
  <2>2. CASE r # row
    <3>1. r \in DOMAIN wip /\ r[2] # q /\ r[2] \in DOMAIN trace
      BY <1>1, <1>3, <1>6, <2>2
    <3>2. trace[r[2]] = wip[r]
      BY <3>1 DEF IInv, TraceMatchesWip
    <3> QED
      BY <1>6, <2>2, <3>1, <3>2
  <2> QED
    BY <2>1, <2>2
<1>19. LiveLabelHasStock'
  <2> SUFFICES ASSUME NEW p \in DOMAIN qrs', qrs'[p] = "IN_WIP"
               PROVE  \E r \in DOMAIN wip' : r[2] = p /\ wip'[r] > 0
    BY DEF LiveLabelHasStock
  <2>1. CASE p = q
    <3>1. row \in DOMAIN wip' /\ wip'[row] = before + take /\ row[2] = q
      BY <1>6, <1>7
    <3> QED
      BY <1>2, <1>3, <2>1, <3>1
  <2>2. CASE p # q
    <3>1. p \in DOMAIN qrs /\ qrs[p] = "IN_WIP"
      BY <1>6, <2>2
    <3>2. PICK r \in DOMAIN wip : r[2] = p /\ wip[r] > 0
      BY <3>1 DEF IInv, LiveLabelHasStock
    <3>3. r # row
      BY <1>7, <2>2, <3>2
    <3> QED
      BY <1>6, <3>2, <3>3
  <2> QED
    BY <2>1, <2>2
<1> QED
  BY <1>10, <1>11, <1>12, <1>13, <1>15, <1>16, <1>17, <1>18, <1>19 DEF IInv

(* A scan of a consumable writes no label and no WIP row.                  *)
LEMMA ScanConsumableIInv ==
    ASSUME IInv, NEW o \in Orders, NEW l \in Lots, NEW K \in LineFor(o, l),
           Scan(o, l, K), ~Raw(MaterialOf[l])
    PROVE  IInv'
<1> DEFINE i == items[K]
           line == Line(l, K)
<1>1. TablesOK
    BY DEF IInv
<1>2. /\ K \in DOMAIN items /\ i \in LineType /\ i.material = MaterialOf[l]
      /\ Take(i, l) \in Nat /\ Take(i, l) <= available[l]
      /\ i.child = NoQr
    BY ScanTakes DEF Scan, IInv, LabelExists
<1>3. /\ Label(l, K) = NoQr /\ ~Relabels(l, K)
    BY <1>2 DEF Label, Relabels
<1>4. /\ DOMAIN items' = DOMAIN items \cup {line}
      /\ items' \in [DOMAIN items' -> LineType]
      /\ items'[line].material = MaterialOf[l] /\ items'[line].lote = l
      /\ items'[line].child = NoQr
      /\ items'[line].fulfilled <= items'[line].requested
    BY <1>3, ScanLines
<1>5. \A k \in DOMAIN items \ {line} :
        /\ items'[k].material = items[k].material
        /\ items'[k].lote = items[k].lote
        /\ items'[k].child = items[k].child
        /\ items'[k].fulfilled = items[k].fulfilled
        /\ items'[k].requested \in {items[k].requested, items[k].fulfilled}
  <2> HIDE DEF i
  <2> TAKE k \in DOMAIN items \ {line}
  <2> QED
    BY ScanOtherLines
<1>6. /\ qrs' = qrs /\ wip' = wip /\ trace' = trace /\ used' = used /\ desk' = desk
      /\ madeFor' = madeFor
    BY DEF Scan
<1>7. /\ nextId' \in {nextId, nextId + 1}
      /\ line \in 1..nextId'
    BY <1>1, <1>2, <1>3 DEF Scan, Line, Relabels, TablesOK
<1>8. /\ available' = [available EXCEPT ![l] = available[l] - Take(i, l)]
      /\ isActive' = [isActive EXCEPT ![l] = StillActive(available[l] - Take(i, l))]
      /\ \E s \in {orders[o], "SURTIDA"} : orders' = [orders EXCEPT ![o] = s]
    BY DEF Scan
<1>9. line \in DOMAIN items => ~Raw(items[line].material) /\ items[line].child = NoQr
    BY <1>1, <1>2 DEF Line, TablesOK
<1> HIDE DEF i, line
<1>10. TablesOK'
  <2>1. available' \in [Lots -> Nat] /\ isActive' \in [Lots -> BOOLEAN]
    BY <1>1, <1>2, <1>8 DEF StillActive, TablesOK
  <2>2. orders' \in [Orders -> Statuses \cup {"NONE"}]
    BY <1>1, <1>8 DEF Statuses, TablesOK
  <2>3. nextId' \in Nat /\ nextId <= nextId'
    BY <1>1, <1>7 DEF TablesOK
  <2>4. DOMAIN items' \subseteq 1..nextId' /\ DOMAIN qrs' \subseteq 1..nextId'
    BY <1>1, <1>4, <1>6, <1>7, <2>3 DEF TablesOK
  <2> QED
    BY <1>1, <1>4, <1>6, <2>1, <2>2, <2>3, <2>4 DEF TablesOK
<1>11. NeverOverDelivered'
  <2> SUFFICES ASSUME NEW k \in DOMAIN items'
               PROVE  items'[k].fulfilled <= items'[k].requested
    BY DEF NeverOverDelivered
  <2>1. CASE k = line
    BY <1>4, <2>1
  <2>2. CASE k # line
    BY <1>1, <1>4, <1>5, <2>2 DEF IInv, NeverOverDelivered, TablesOK, LineType
  <2> QED
    BY <2>1, <2>2
<1>12. LabelExists' /\ UsedFromRows'
  <2>1. LabelExists'
    BY <1>4, <1>5, <1>6 DEF IInv, LabelExists, Raw
  <2>2. UsedFromRows'
    BY <1>6 DEF IInv, UsedFromRows
  <2> QED
    BY <2>1, <2>2
(* A raw line is one that was there, as it was. *)
<1>13. ASSUME NEW k, Raw(items'[k].material), k \in DOMAIN items'
       PROVE  k \in DOMAIN items /\ k # line
    BY <1>4, <1>13
<1>14. \A k \in DOMAIN items : k \in DOMAIN items' /\ items'[k].material = items[k].material
  <2>1. ASSUME line \in DOMAIN items PROVE items[line].material = MaterialOf[l]
    BY <1>1, <1>2, <2>1 DEF Line, TablesOK, line, i
  <2> QED
    BY <1>4, <1>5, <2>1
<1>15. BareKnown'
    BY <1>6, <1>14 DEF IInv, BareKnown, Raw
<1>16. BroughtByLabels'
  <2> SUFFICES ASSUME NEW k \in DOMAIN items', Raw(items'[k].material)
               PROVE  Total(Brought', MadeRows(k)') = items'[k].fulfilled
    BY DEF BroughtByLabels, Raw
  <2>1. Brought' = Brought /\ MadeRows(k)' = MadeRows(k)
    BY <1>6 DEF Brought, MadeRows
  <2>2. /\ k \in DOMAIN items /\ items'[k].fulfilled = items[k].fulfilled
        /\ items'[k].material = items[k].material
    BY <1>5, <1>13
  <2> QED
    BY <2>1, <2>2 DEF IInv, BroughtByLabels
<1>17. WipHasItsLine' /\ TraceMatchesWip' /\ LiveLabelHasStock'
  <2>1. WipHasItsLine'
    <3> SUFFICES ASSUME NEW r \in DOMAIN wip, NEW k, k = madeFor[r[2]]
                 PROVE  /\ k \in DOMAIN items'
                        /\ Raw(items'[k].material) /\ items'[k].fulfilled > 0
                        /\ items'[k].lote = r[1]
      BY <1>6 DEF WipHasItsLine, Raw
    <3>1. /\ k \in DOMAIN items /\ Raw(items[k].material)
          /\ items[k].fulfilled > 0 /\ items[k].lote = r[1]
      BY DEF IInv, WipHasItsLine
    <3>2. k # line
      BY <1>9, <3>1
    <3> QED
      BY <1>4, <1>5, <3>1, <3>2
  <2>2. TraceMatchesWip' /\ LiveLabelHasStock'
    BY <1>6 DEF IInv, TraceMatchesWip, LiveLabelHasStock
  <2> QED
    BY <2>1, <2>2
<1> QED
  BY <1>10, <1>11, <1>12, <1>15, <1>16, <1>17 DEF IInv
-----------------------------------------------------------------------------
(* The handlers that only read, and those that only change a status: the   *)
(* rows keep what the invariant relates.                                   *)
LEMMA DeskIInv ==
    ASSUME IInv, desk' \in [Clerks -> DeskType],
           orders' \in [Orders -> Statuses \cup {"NONE"}],
           DOMAIN qrs' = DOMAIN qrs,
           qrs' \in [DOMAIN qrs -> QrStatuses],
           \A q \in DOMAIN qrs : qrs'[q] \in {qrs[q], "CANCELADO"},
           \A c \in Clerks : desk'[c].op = "label" =>
              desk'[c] = desk[c] \/ desk'[c].bare = Unlabelled(desk'[c].order),
           UNCHANGED <<available, isActive, items, wip, trace, used, nextId, madeFor>>
    PROVE  IInv'
<1>1. TablesOK'
    BY DEF IInv, TablesOK
<1>2. NeverOverDelivered' /\ LabelExists' /\ UsedFromRows'
    BY DEF IInv, NeverOverDelivered, LabelExists, UsedFromRows
<1>3. WipHasItsLine' /\ TraceMatchesWip' /\ LiveLabelHasStock'
    BY DEF IInv, WipHasItsLine, TraceMatchesWip, LiveLabelHasStock
<1>4. BroughtByLabels'
  <2>1. Brought' = Brought /\ \A k : MadeRows(k)' = MadeRows(k)
    BY DEF Brought, MadeRows
  <2> QED
    BY <2>1 DEF IInv, BroughtByLabels
<1>5. BareKnown'
    BY DEF IInv, BareKnown, Unlabelled, LinesOf
<1> QED
    BY <1>1, <1>2, <1>3, <1>4, <1>5 DEF IInv

(* Reading changes only the transaction of the clerk.                      *)
LEMMA StatusReadIInv ==
    ASSUME IInv, NEW c \in Clerks, NEW o \in Orders, NEW to \in StatusRequests,
           StatusRead(c, o, to)
    PROVE  IInv'
<1> DEFINE d == [op |-> "status", order |-> o, seen |-> orders[o], to |-> to]
<1>1. desk \in [Clerks -> DeskType] /\ orders[o] \in Statuses
    BY DEF IInv, TablesOK, StatusRead
<1>2. d \in DeskType /\ d.op # "label"
    BY <1>1 DEF DeskType
<1>3. desk' = [desk EXCEPT ![c] = d]
    BY DEF StatusRead
<1> HIDE DEF d
<1>4. /\ desk' \in [Clerks -> DeskType]
      /\ \A k \in Clerks : desk'[k].op = "label" => desk'[k] = desk[k]
    BY <1>1, <1>2, <1>3
<1> QED
    BY <1>4, DeskIInv DEF StatusRead, IInv, TablesOK

(* The lines a request is to label are lines of raw material as it reads   *)
(* them.                                                                   *)
LEMMA LinesReadIInv ==
    ASSUME IInv, NEW c \in Clerks, LinesRead(c)
    PROVE  IInv'
<1> DEFINE d == [op |-> "label", order |-> desk[c].order, seen |-> desk[c].seen,
                 to |-> desk[c].to, bare |-> Unlabelled(desk[c].order)]
<1>1. desk \in [Clerks -> DeskType] /\ desk[c].op = "status"
    BY DEF IInv, TablesOK, LinesRead
<1>2. desk[c] \in [op : {"status"}, order : Orders, seen : Statuses, to : StatusRequests]
    BY <1>1 DEF DeskType, Idle
<1>3. Unlabelled(desk[c].order) \in SUBSET Nat
    BY DEF Unlabelled, LinesOf, IInv, TablesOK
<1>4. d \in DeskType /\ d.bare = Unlabelled(d.order)
    BY <1>2, <1>3 DEF DeskType
<1>5. desk' = [desk EXCEPT ![c] = d]
    BY DEF LinesRead
<1> HIDE DEF d
<1>6. /\ desk' \in [Clerks -> DeskType]
      /\ \A k \in Clerks : desk'[k].op = "label" =>
            desk'[k] = desk[k] \/ desk'[k].bare = Unlabelled(desk'[k].order)
    BY <1>1, <1>4, <1>5
<1> QED
    BY <1>6, DeskIInv DEF LinesRead, IInv, TablesOK

(* The labels a cancellation reads are numbers of child QRs.               *)
LEMMA CancelReadIInv ==
    ASSUME IInv, NEW c \in Clerks, NEW o \in Orders, CancelRead(c, o)
    PROVE  IInv'
<1> DEFINE seen == {items[i].child : i \in LinesOf(o)} \ {NoQr}
           d == [op |-> "cancel", order |-> o, labels |-> seen]
<1>1. seen \in SUBSET Nat
    BY DEF LinesOf, IInv, TablesOK, LineType
<1>2. d \in DeskType /\ d.op # "label"
    BY <1>1 DEF DeskType
<1>3. desk' = [desk EXCEPT ![c] = d]
    BY DEF CancelRead
<1> HIDE DEF d
<1>4. /\ desk' \in [Clerks -> DeskType]
      /\ \A k \in Clerks : desk'[k].op = "label" => desk'[k] = desk[k]
    BY <1>2, <1>3 DEF IInv, TablesOK
<1> QED
    BY <1>4, DeskIInv DEF CancelRead, IInv, TablesOK

(* A rollback only forgets what was read.                                  *)
LEMMA RollbackIInv ==
    ASSUME IInv, NEW c \in Clerks, Rollback(c)
    PROVE  IInv'
<1>1. desk' \in [Clerks -> DeskType]
    BY DEF Rollback, DeskType, IInv, TablesOK
<1>2. \A k \in Clerks : desk'[k].op = "label" => desk'[k] = desk[k]
    BY DEF Rollback, Idle, IInv, TablesOK
<1> QED
    BY <1>1, <1>2, DeskIInv DEF Rollback, IInv, TablesOK

(* A cancellation writes CANCELADO on labels, and nothing else the         *)
(* invariant speaks of.                                                    *)
LEMMA CancelWriteIInv ==
    ASSUME IInv, NEW c \in Clerks, CancelWrite(c)
    PROVE  IInv'
<1>1. desk \in [Clerks -> DeskType] /\ orders \in [Orders -> Statuses \cup {"NONE"}]
      /\ qrs \in [DOMAIN qrs -> QrStatuses]
    BY DEF IInv, TablesOK
<1>2. desk' \in [Clerks -> DeskType]
    BY <1>1 DEF CancelWrite, DeskType
<1>3. orders' \in [Orders -> Statuses \cup {"NONE"}]
    BY <1>1 DEF CancelWrite, Statuses
<1>4. qrs' = [q \in DOMAIN qrs |-> IF q \in desk[c].labels THEN "CANCELADO" ELSE qrs[q]]
    BY DEF CancelWrite
<1>5. DOMAIN qrs' = DOMAIN qrs /\ qrs' \in [DOMAIN qrs -> QrStatuses]
      /\ \A q \in DOMAIN qrs : qrs'[q] \in {qrs[q], "CANCELADO"}
    BY <1>1, <1>4 DEF QrStatuses
<1>6. \A k \in Clerks : desk'[k].op = "label" => desk'[k] = desk[k]
    BY <1>1 DEF CancelWrite, Idle
<1> QED
    BY <1>2, <1>3, <1>5, <1>6, DeskIInv DEF CancelWrite
-----------------------------------------------------------------------------
(* createOrder adds lines and ensureChildQrsForOrder labels lines: either  *)
(* way some lines are written with fresh labels, each made for its line.   *)
WritesFresh(labels) ==
    /\ nextId' \in Nat /\ nextId <= nextId'
    /\ labels \subseteq (nextId + 1)..nextId'
    /\ DOMAIN items' \subseteq 1..nextId'
    /\ items' \in [DOMAIN items' -> LineType]
    /\ DOMAIN items \subseteq DOMAIN items'
    /\ \A k \in DOMAIN items : /\ items'[k].material = items[k].material
                               /\ items'[k].lote = items[k].lote
                               /\ items'[k].fulfilled = items[k].fulfilled
                               /\ items'[k].requested = items[k].requested
                               /\ items'[k].child \in labels \cup {items[k].child}
    /\ \A k \in DOMAIN items' \ DOMAIN items :
           items'[k].fulfilled = 0 /\ items'[k].child \in labels \cup {NoQr}
    /\ \A k \in DOMAIN items' : items'[k].child \in labels =>
           madeFor'[items'[k].child] = k /\ Raw(items'[k].material)
    /\ qrs' = [q \in DOMAIN qrs \cup labels |->
                  IF q \in labels THEN "RESERVED_ORDER" ELSE qrs[q]]
    /\ used' = [q \in DOMAIN used \cup labels |->
                  IF q \in labels THEN 0 ELSE used[q]]
    /\ madeFor' \in [DOMAIN qrs \cup labels -> Nat]
    /\ \A q \in DOMAIN qrs : madeFor'[q] = madeFor[q]
    /\ desk' \in [Clerks -> DeskType]
    /\ \A c \in Clerks : desk'[c] \in {desk[c], Idle}
    /\ orders' \in [Orders -> Statuses \cup {"NONE"}]
    /\ UNCHANGED <<available, isActive, wip, trace>>

(* Such a write keeps the invariant: no row is touched, and the fresh      *)
(* labels have none.                                                       *)
LEMMA FreshLabelsIInv ==
    ASSUME IInv, NEW labels, WritesFresh(labels)
    PROVE  IInv'
<1> USE DEF WritesFresh
<1>1. /\ nextId \in Nat /\ DOMAIN items \subseteq 1..nextId
      /\ items \in [DOMAIN items -> LineType]
      /\ DOMAIN qrs \subseteq 1..nextId /\ qrs \in [DOMAIN qrs -> QrStatuses]
      /\ used \in [DOMAIN qrs -> Nat] /\ madeFor \in [DOMAIN qrs -> Nat]
      /\ DOMAIN trace \subseteq DOMAIN qrs /\ trace \in [DOMAIN trace -> Nat]
      /\ DOMAIN wip \subseteq Lots \X DOMAIN trace /\ wip \in [DOMAIN wip -> Nat]
      /\ available \in [Lots -> Nat] /\ isActive \in [Lots -> BOOLEAN]
    BY DEF IInv, TablesOK
<1>2. \A q \in labels : q \notin DOMAIN qrs /\ q # NoQr
    BY <1>1 DEF NoQr
<1>3. TablesOK'
  <2>1. DOMAIN qrs' \subseteq 1..nextId'
    BY <1>1
  <2>2. /\ qrs' \in [DOMAIN qrs' -> QrStatuses] /\ used' \in [DOMAIN qrs' -> Nat]
        /\ madeFor' \in [DOMAIN qrs' -> Nat]
    BY <1>1 DEF QrStatuses
  <2>3. DOMAIN trace' \subseteq DOMAIN qrs'
    BY <1>1
  <2> QED
    BY <1>1, <2>1, <2>2, <2>3 DEF TablesOK
<1>4. NeverOverDelivered'
  <2> SUFFICES ASSUME NEW k \in DOMAIN items'
               PROVE  items'[k].fulfilled <= items'[k].requested
    BY DEF NeverOverDelivered
  <2>1. items'[k].requested \in Nat
    BY DEF LineType
  <2> QED
    BY <2>1 DEF IInv, NeverOverDelivered
<1>5. LabelExists'
  <2> SUFFICES ASSUME NEW k \in DOMAIN items'
               PROVE  /\ items'[k].child # NoQr => /\ items'[k].child \in DOMAIN qrs'
                                                   /\ madeFor'[items'[k].child] = k
                      /\ ~Raw(items'[k].material) => items'[k].child = NoQr
    BY DEF LabelExists, Raw
  <2>1. CASE items'[k].child \in labels
    BY <2>1
  <2>2. CASE items'[k].child \notin labels
    BY <1>1, <2>2 DEF IInv, LabelExists
  <2> QED
    BY <2>1, <2>2
<1>6. UsedFromRows'
    BY <1>1, <1>2 DEF IInv, UsedFromRows
<1>7. BareKnown'
    BY DEF IInv, BareKnown, Raw, Idle
<1>8. RowsSummable
    BY RowFacts
<1>9. \A r \in DOMAIN wip : /\ Brought'[r] = Brought[r] /\ madeFor'[r[2]] = madeFor[r[2]]
                            /\ madeFor[r[2]] \in DOMAIN items
  <2> SUFFICES ASSUME NEW r \in DOMAIN wip
               PROVE  /\ Brought'[r] = Brought[r] /\ madeFor'[r[2]] = madeFor[r[2]]
                      /\ madeFor[r[2]] \in DOMAIN items
    OBVIOUS
  <2>1. r[2] \in DOMAIN qrs /\ Brought[r] = wip[r] + used[r[2]]
    BY <1>8 DEF RowsSummable
  <2>2. used'[r[2]] = used[r[2]]
    BY <1>1, <1>2, <2>1
  <2>3. Brought'[r] = wip'[r] + used'[r[2]]
    BY DEF Brought
  <2> QED
    BY <2>1, <2>2, <2>3 DEF IInv, WipHasItsLine
<1>10. BroughtByLabels'
  <2> SUFFICES ASSUME NEW k \in DOMAIN items', Raw(items'[k].material)
               PROVE  Total(Brought', MadeRows(k)') = items'[k].fulfilled
    BY DEF BroughtByLabels, Raw
  <2>1. MadeRows(k)' = MadeRows(k)
    BY <1>9 DEF MadeRows
  <2>2. CASE k \in DOMAIN items
    <3> DEFINE S == MadeRows(k)
    <3>1. IsFiniteSet(S) /\ \A r \in S : Brought'[r] = Brought[r]
      BY <1>8, <1>9 DEF MadeRows, RowsSummable
    <3>2. Total(Brought, S) = items[k].fulfilled
      BY <2>2 DEF IInv, BroughtByLabels
    <3>3. S = MadeRows(k)
      OBVIOUS
    <3> HIDE DEF S
    <3>4. Total(Brought', S) = Total(Brought, S)
      BY <3>1, TotalEqual
    <3> QED
      BY <2>1, <2>2, <3>2, <3>3, <3>4
  <2>3. CASE k \notin DOMAIN items
    <3>1. MadeRows(k) = {}
      BY <1>9, <2>3 DEF MadeRows
    <3>2. Total(Brought', {}) = 0
      BY TotalEmpty
    <3> QED
      BY <2>1, <2>3, <3>1, <3>2
  <2> QED
    BY <2>2, <2>3
<1>11. WipHasItsLine'
    BY <1>9 DEF IInv, WipHasItsLine, Raw
<1>12. TraceMatchesWip' /\ LiveLabelHasStock'
    BY DEF IInv, TraceMatchesWip, LiveLabelHasStock
<1> QED
  BY <1>3, <1>4, <1>5, <1>6, <1>7, <1>10, <1>11, <1>12 DEF IInv

(* A new order writes fresh lines and labels.                              *)
LEMMA CreateOrderIInv ==
    ASSUME IInv, NEW o \in Orders, NEW take \in Allocations, CreateOrder(o, take)
    PROVE  IInv'
<1> DEFINE new == {nextId + l : l \in {k \in Lots : take[k] > 0}}
           labels == {i \in new : Raw(MaterialOf[i - nextId])}
           line(i) == [order |-> o, material |-> MaterialOf[i - nextId],
                       lote |-> i - nextId, requested |-> take[i - nextId],
                       fulfilled |-> 0,
                       child |-> IF Raw(MaterialOf[i - nextId]) THEN i ELSE NoQr]
<1>1. /\ nextId \in Nat /\ DOMAIN items \subseteq 1..nextId
      /\ items \in [DOMAIN items -> LineType] /\ desk \in [Clerks -> DeskType]
      /\ orders \in [Orders -> Statuses \cup {"NONE"}]
    BY DEF IInv, TablesOK
<1>2. /\ NumLots \in Nat /\ MaterialOf \in [Lots -> Materials]
      /\ take \in [Lots -> Nat]
    BY LotAssumption, RequestAssumption DEF Allocations
<1>3. ASSUME NEW i \in new
      PROVE  i \in (nextId + 1)..(nextId + NumLots) /\ i - nextId \in Lots
    BY <1>1, <1>2 DEF Lots
<1>4. ASSUME NEW i \in new PROVE line(i) \in LineType
  <2>1. i \in Nat /\ i - nextId \in Lots
    BY <1>1, <1>2, <1>3
  <2>2. (IF Raw(MaterialOf[i - nextId]) THEN i ELSE NoQr) \in Nat
    BY <2>1 DEF NoQr
  <2>3. MaterialOf[i - nextId] \in Materials /\ take[i - nextId] \in Nat
    BY <1>2, <2>1
  <2> QED
    BY <2>1, <2>2, <2>3 DEF LineType
<1>5. /\ items' = [i \in DOMAIN items \cup new |->
                     IF i \in new THEN line(i) ELSE items[i]]
      /\ qrs' = [q \in DOMAIN qrs \cup labels |->
                     IF q \in labels THEN "RESERVED_ORDER" ELSE qrs[q]]
      /\ used' = [q \in DOMAIN used \cup labels |->
                     IF q \in labels THEN 0 ELSE used[q]]
      /\ nextId' = nextId + NumLots
      /\ orders' = [orders EXCEPT ![o] = "PENDIENTE"]
      /\ madeFor' = [q \in DOMAIN madeFor \cup labels |->
                     IF q \in labels THEN q ELSE madeFor[q]]
      /\ UNCHANGED <<available, isActive, wip, trace, desk>>
    BY DEF CreateOrder, NewLabel
<1>6. \A i \in new : /\ items'[i].fulfilled = 0
                     /\ items'[i].child \in labels \cup {NoQr}
                     /\ items'[i].child # NoQr =>
                           items'[i].child = i /\ Raw(items'[i].material)
    BY <1>5
<1>7. new \cap DOMAIN items = {} /\ labels \subseteq new
      /\ new \subseteq (nextId + 1)..(nextId + NumLots)
    BY <1>1, <1>3
<1> HIDE DEF new, labels, line
<1>8. nextId' \in Nat /\ nextId <= nextId' /\ labels \subseteq (nextId + 1)..nextId'
    BY <1>1, <1>2, <1>5, <1>7
<1>9. DOMAIN items' = DOMAIN items \cup new /\ DOMAIN items' \subseteq 1..nextId'
    BY <1>1, <1>2, <1>5, <1>7
<1>10. items' \in [DOMAIN items' -> LineType]
    BY <1>1, <1>4, <1>5
<1>11. /\ \A k \in DOMAIN items : k \in DOMAIN items' /\ items'[k] = items[k]
       /\ DOMAIN qrs \cap labels = {} /\ labels \subseteq Nat
  <2>1. DOMAIN qrs \subseteq 1..nextId
    BY DEF IInv, TablesOK
  <2> QED
    BY <1>1, <1>2, <1>5, <1>7, <1>8, <2>1
<1>12. /\ \A k \in DOMAIN items' : items'[k].child \in labels =>
             madeFor'[items'[k].child] = k /\ Raw(items'[k].material)
       /\ madeFor' \in [DOMAIN qrs \cup labels -> Nat]
       /\ \A q \in DOMAIN qrs : madeFor'[q] = madeFor[q]
  <2>1. madeFor \in [DOMAIN qrs -> Nat]
    BY DEF IInv, TablesOK
  <2>2. NoQr \notin labels
    BY <1>1, <1>8 DEF NoQr
  <2>3. ASSUME NEW k \in DOMAIN items', items'[k].child \in labels
        PROVE  madeFor'[items'[k].child] = k /\ Raw(items'[k].material)
    <3>1. k \notin DOMAIN items
      <4>1. k \in DOMAIN items => items[k].child = NoQr \/ items[k].child \in DOMAIN qrs
        BY DEF IInv, LabelExists
      <4> QED
        BY <1>11, <2>2, <2>3, <4>1
    <3>2. k \in new
      BY <1>9, <3>1
    <3>3. items'[k].child = k /\ Raw(items'[k].material)
      BY <1>6, <2>2, <2>3, <3>2
    <3> QED
      BY <1>5, <2>3, <3>3
  <2> QED
    BY <1>5, <1>11, <2>1, <2>3
<1>13. orders' \in [Orders -> Statuses \cup {"NONE"}] /\ desk' \in [Clerks -> DeskType]
    BY <1>1, <1>5 DEF Statuses
<1>14. \A k \in DOMAIN items' \ DOMAIN items :
         items'[k].fulfilled = 0 /\ items'[k].child \in labels \cup {NoQr}
    BY <1>6, <1>9
<1>15. WritesFresh(labels)
    BY <1>5, <1>8, <1>9, <1>10, <1>11, <1>12, <1>13, <1>14 DEF WritesFresh
<1> QED
    BY <1>15, FreshLabelsIInv

(* A status request labels the lines it read, delivered by now or not.     *)
LEMMA StatusWriteIInv ==
    ASSUME IInv, NEW c \in Clerks, StatusWrite(c)
    PROVE  IInv'
<1> DEFINE bare == LinesToLabel(desk[c])
           labels == {nextId + i : i \in bare}
<1>1. /\ nextId \in Nat /\ DOMAIN items \subseteq 1..nextId
      /\ items \in [DOMAIN items -> LineType] /\ desk \in [Clerks -> DeskType]
      /\ orders \in [Orders -> Statuses \cup {"NONE"}]
      /\ DOMAIN qrs \subseteq 1..nextId /\ madeFor \in [DOMAIN qrs -> Nat]
    BY DEF IInv, TablesOK
<1>2. \A i \in bare : i \in DOMAIN items /\ Raw(items[i].material)
    BY DEF LinesToLabel, IInv, BareKnown
<1>3. /\ orders' = [orders EXCEPT ![desk[c].order] =
                       IF desk[c].seen = desk[c].to THEN @ ELSE desk[c].to]
      /\ items' = [i \in DOMAIN items |->
                     IF i \in bare THEN [items[i] EXCEPT !.child = nextId + i]
                     ELSE items[i]]
      /\ qrs' = [q \in DOMAIN qrs \cup labels |->
                     IF q \in labels THEN "RESERVED_ORDER" ELSE qrs[q]]
      /\ used' = [q \in DOMAIN used \cup labels |->
                     IF q \in labels THEN 0 ELSE used[q]]
      /\ madeFor' = [q \in DOMAIN madeFor \cup labels |->
                     IF q \in labels THEN q - nextId ELSE madeFor[q]]
      /\ nextId' = (IF bare = {} THEN nextId ELSE 2 * nextId)
      /\ desk' = [desk EXCEPT ![c] = Idle]
      /\ desk[c].op \in {"status", "label"}
      /\ UNCHANGED <<available, isActive, wip, trace>>
    BY DEF StatusWrite, NewLabel
<1> HIDE DEF bare
<1>4. labels \subseteq (nextId + 1)..nextId' /\ nextId' \in Nat /\ nextId <= nextId'
    BY <1>1, <1>2, <1>3
<1>5. DOMAIN qrs \cap labels = {} /\ NoQr \notin labels
    BY <1>1, <1>4 DEF NoQr
<1>6. ASSUME NEW i \in DOMAIN items
      PROVE  /\ items'[i] \in LineType
             /\ items'[i].material = items[i].material
             /\ items'[i].lote = items[i].lote
             /\ items'[i].fulfilled = items[i].fulfilled
             /\ items'[i].requested = items[i].requested
             /\ items'[i].child = IF i \in bare THEN nextId + i ELSE items[i].child
  <2>1. items[i] \in LineType /\ nextId + i \in Nat
    BY <1>1
  <2>2. items'[i] = IF i \in bare THEN [items[i] EXCEPT !.child = nextId + i] ELSE items[i]
    BY <1>3
  <2> QED
    BY <2>1, <2>2 DEF LineType
<1>7. DOMAIN items' = DOMAIN items /\ DOMAIN items' \subseteq 1..nextId'
    BY <1>1, <1>3, <1>4
<1>8. items' \in [DOMAIN items' -> LineType]
    BY <1>3, <1>6, <1>7
<1>9. /\ madeFor' \in [DOMAIN qrs \cup labels -> Nat]
      /\ \A q \in DOMAIN qrs : madeFor'[q] = madeFor[q]
  <2>1. \A i \in bare : (nextId + i) - nextId = i /\ i \in Nat
    BY <1>1, <1>2
  <2> QED
    BY <1>1, <1>3, <1>5, <2>1
<1>10. ASSUME NEW k \in DOMAIN items', items'[k].child \in labels
       PROVE  madeFor'[items'[k].child] = k /\ Raw(items'[k].material)
  <2>1. items[k].child \notin labels
    BY <1>5, <1>7 DEF IInv, LabelExists
  <2>2. k \in bare /\ items'[k].child = nextId + k
    BY <1>6, <1>7, <1>10, <2>1
  <2>3. madeFor'[nextId + k] = (nextId + k) - nextId
    BY <1>3, <1>10, <2>2
  <2> QED
    BY <1>1, <1>2, <1>6, <1>7, <2>2, <2>3
<1>11. \A k \in DOMAIN items : items'[k].child \in labels \cup {items[k].child}
    BY <1>6
<1>12. /\ desk' \in [Clerks -> DeskType]
       /\ \A k \in Clerks : desk'[k] \in {desk[k], Idle}
    BY <1>1, <1>3 DEF DeskType
<1>13. orders' \in [Orders -> Statuses \cup {"NONE"}]
  <2>1. desk[c].to \in Statuses
    BY <1>1, <1>3, RequestAssumption DEF DeskType, Idle, RequestAssumption
  <2> QED
    BY <1>1, <1>3, <2>1
<1> HIDE DEF labels
<1>14. WritesFresh(labels)
    BY <1>3, <1>4, <1>6, <1>7, <1>8, <1>9, <1>10, <1>11, <1>12, <1>13
    DEF WritesFresh
<1> QED
    BY <1>14, FreshLabelsIInv
-----------------------------------------------------------------------------
(* A consumption takes the same from a row, from its child QR and into the *)
(* child's movements.                                                      *)
LEMMA ConsumeWipIInv ==
    ASSUME IInv, NEW m \in RawMaterials, NEW take \in [WipRows(m) -> 0..MaxRequest],
           ConsumeWip(m, take)
    PROVE  IInv'
<1> DEFINE rows == {r \in WipRows(m) : take[r] > 0}
           labels == {r[2] : r \in rows}
           taken(q) == take[CHOOSE r \in rows : r[2] = q]
<1>1. /\ nextId \in Nat /\ DOMAIN items \subseteq 1..nextId
      /\ items \in [DOMAIN items -> LineType]
      /\ DOMAIN qrs \subseteq 1..nextId /\ qrs \in [DOMAIN qrs -> QrStatuses]
      /\ used \in [DOMAIN qrs -> Nat]
      /\ DOMAIN trace \subseteq DOMAIN qrs /\ trace \in [DOMAIN trace -> Nat]
      /\ DOMAIN wip \subseteq Lots \X DOMAIN trace /\ wip \in [DOMAIN wip -> Nat]
    BY DEF IInv, TablesOK
<1>2. rows \subseteq DOMAIN wip
    BY DEF WipRows
<1>3. \A r \in rows : /\ take[r] \in Nat /\ take[r] <= wip[r]
                      /\ wip[r] \in Nat /\ trace[r[2]] = wip[r]
    BY <1>1, <1>2, RequestAssumption DEF ConsumeWip, IInv, TraceMatchesWip
<1>4. ASSUME NEW r \in rows PROVE taken(r[2]) = take[r]
  <2>1. \E s \in rows : s[2] = r[2]
    OBVIOUS
  <2>2. (CHOOSE s \in rows : s[2] = r[2]) = r
    BY <1>2, <2>1, LabelHasOneRow
  <2> QED
    BY <2>2
<1>5. ASSUME NEW r \in DOMAIN wip, r \notin rows PROVE r[2] \notin labels
    BY <1>2, <1>5, LabelHasOneRow
<1>6. /\ wip' = [r \in DOMAIN wip |-> IF r \in rows THEN wip[r] - take[r] ELSE wip[r]]
      /\ trace' = [q \in DOMAIN trace |->
                     IF q \in labels THEN trace[q] - taken(q) ELSE trace[q]]
      /\ qrs' = [q \in DOMAIN qrs |->
                   IF q \in labels /\ trace[q] = taken(q) THEN "CONSUMED" ELSE qrs[q]]
      /\ used' = [q \in DOMAIN used |->
                    IF q \in labels THEN used[q] + taken(q) ELSE used[q]]
      /\ UNCHANGED <<available, isActive, orders, items, nextId, desk, madeFor>>
    BY DEF ConsumeWip
<1>7. ASSUME NEW q \in labels
      PROVE  \E r \in rows : /\ q = r[2] /\ taken(q) = take[r] /\ taken(q) \in Nat
                             /\ trace[q] - taken(q) \in Nat
  <2>1. PICK r \in rows : q = r[2]
    OBVIOUS
  <2>2. taken(q) = take[r]
    BY <1>4, <2>1
  <2> HIDE DEF taken
  <2> QED
    BY <1>3, <2>1, <2>2
<1> HIDE DEF taken
<1>8. ASSUME NEW r \in DOMAIN wip
      PROVE  LET q == r[2] IN
             /\ q \in DOMAIN qrs /\ q \in DOMAIN trace
             /\ wip'[r] \in Nat /\ trace'[q] = wip'[r]
             /\ wip'[r] + used'[q] = wip[r] + used[q]
  <2>1. r[2] \in DOMAIN qrs /\ r[2] \in DOMAIN trace
    BY <1>1
  <2>2. CASE r \in rows
    <3>1. wip'[r] = wip[r] - take[r]
      BY <1>6, <2>2
    <3>2. r[2] \in labels /\ taken(r[2]) = take[r]
      BY <1>4, <2>2
    <3>3. trace'[r[2]] = trace[r[2]] - take[r] /\ used'[r[2]] = used[r[2]] + take[r]
      BY <1>1, <1>6, <2>1, <3>2
    <3>4. take[r] \in Nat /\ take[r] <= wip[r] /\ wip[r] \in Nat
          /\ trace[r[2]] = wip[r] /\ used[r[2]] \in Nat
      BY <1>1, <1>3, <2>1, <2>2
    <3> QED
      BY <2>1, <3>1, <3>3, <3>4
  <2>3. CASE r \notin rows
    BY <1>1, <1>5, <1>6, <2>1, <2>3 DEF IInv, TraceMatchesWip
  <2> QED
    BY <2>2, <2>3
<1>9. TablesOK'
  <2>1. qrs' \in [DOMAIN qrs -> QrStatuses] /\ DOMAIN qrs' = DOMAIN qrs
    BY <1>1, <1>6 DEF QrStatuses
  <2>2. used' \in [DOMAIN qrs -> Nat] /\ trace' \in [DOMAIN trace -> Nat]
        /\ DOMAIN trace' = DOMAIN trace
    BY <1>1, <1>6, <1>7
  <2>3. wip' \in [DOMAIN wip -> Nat] /\ DOMAIN wip' = DOMAIN wip
    BY <1>1, <1>6, <1>8
  <2> QED
    BY <1>1, <1>6, <2>1, <2>2, <2>3 DEF IInv, TablesOK
<1>10. NeverOverDelivered' /\ LabelExists' /\ BareKnown'
    BY <1>6 DEF IInv, NeverOverDelivered, LabelExists, BareKnown, Raw
<1>11. UsedFromRows'
  <2> SUFFICES ASSUME NEW q \in DOMAIN qrs, used'[q] > 0
               PROVE  \E r \in DOMAIN wip : r[2] = q
    BY <1>6 DEF UsedFromRows
  <2>1. q \in labels => \E r \in DOMAIN wip : r[2] = q
    BY <1>2
  <2>2. q \notin labels => used[q] > 0
    BY <1>1, <1>6
  <2> QED
    BY <2>1, <2>2 DEF IInv, UsedFromRows
<1>12. BroughtByLabels'
  <2> SUFFICES ASSUME NEW i \in DOMAIN items, Raw(items[i].material)
               PROVE  Total(Brought', MadeRows(i)') = items[i].fulfilled
    BY <1>6 DEF BroughtByLabels, Raw
  <2> DEFINE S == MadeRows(i)
  <2>1. MadeRows(i)' = S
    BY <1>6 DEF MadeRows
  <2>2. IsFiniteSet(S) /\ S \subseteq DOMAIN wip
    BY RowFacts DEF RowsSummable, MadeRows
  <2>3. Total(Brought, S) = items[i].fulfilled
    BY DEF IInv, BroughtByLabels
  <2> HIDE DEF S
  <2>4. ASSUME NEW r \in S PROVE Brought'[r] = Brought[r]
    <3>1. r \in DOMAIN wip /\ wip'[r] + used'[r[2]] = wip[r] + used[r[2]]
      BY <1>8, <2>2
    <3>2. Brought'[r] = wip'[r] + used'[r[2]] /\ Brought[r] = wip[r] + used[r[2]]
      BY <1>6, <3>1 DEF Brought
    <3> QED
      BY <3>1, <3>2
  <2>5. Total(Brought', S) = Total(Brought, S)
    BY <2>2, <2>4, TotalEqual
  <2> QED
    BY <2>1, <2>3, <2>5
<1>13. WipHasItsLine' /\ TraceMatchesWip'
  <2>1. WipHasItsLine'
    BY <1>6 DEF IInv, WipHasItsLine, Raw
  <2>2. TraceMatchesWip'
    BY <1>6, <1>8 DEF TraceMatchesWip
  <2> QED
    BY <2>1, <2>2
<1>14. LiveLabelHasStock'
  <2> SUFFICES ASSUME NEW q \in DOMAIN qrs, qrs'[q] = "IN_WIP"
               PROVE  \E r \in DOMAIN wip : r[2] = q /\ wip'[r] > 0
    BY <1>6 DEF LiveLabelHasStock
  <2>1. qrs[q] = "IN_WIP" /\ ~(q \in labels /\ trace[q] = taken(q))
    BY <1>6
  <2>2. PICK r \in DOMAIN wip : r[2] = q /\ wip[r] > 0
    BY <2>1 DEF IInv, LiveLabelHasStock
  <2>3. CASE r \in rows
    <3>1. q \in labels /\ taken(q) = take[r] /\ trace[q] = wip[r]
      BY <1>3, <1>4, <2>2, <2>3
    <3>2. wip'[r] = wip[r] - take[r] /\ take[r] \in Nat /\ take[r] <= wip[r]
          /\ wip[r] \in Nat /\ take[r] # wip[r]
      BY <1>3, <1>6, <2>1, <2>3, <3>1
    <3> QED
      BY <2>2, <3>2
  <2>4. CASE r \notin rows
    BY <1>6, <2>2, <2>4
  <2> QED
    BY <2>3, <2>4
<1> QED
  BY <1>9, <1>10, <1>11, <1>12, <1>13, <1>14 DEF IInv
-----------------------------------------------------------------------------
(* Every step keeps the invariant.                                         *)
LEMMA StepIInv == IInv /\ [Next]_vars => IInv'
<1> SUFFICES ASSUME IInv, [Next]_vars PROVE IInv'
    OBVIOUS
<1>1. CASE \E o \in Orders, take \in Allocations : CreateOrder(o, take)
    BY <1>1, CreateOrderIInv
<1>2. CASE \E o \in Orders, l \in Lots : \E K \in LineFor(o, l) : Scan(o, l, K)
  <2>1. PICK o \in Orders, l \in Lots : \E K \in LineFor(o, l) : Scan(o, l, K)
    BY <1>2
  <2>2. PICK K \in LineFor(o, l) : Scan(o, l, K)
    BY <2>1
  <2> QED
    BY <2>2, ScanRawIInv, ScanConsumableIInv
<1>3. CASE \E c \in Clerks, o \in Orders, to \in StatusRequests : StatusRead(c, o, to)
    BY <1>3, StatusReadIInv
<1>4. CASE \E c \in Clerks : LinesRead(c) \/ StatusWrite(c)
    BY <1>4, LinesReadIInv, StatusWriteIInv
<1>5. CASE \E c \in Clerks, o \in Orders : CancelRead(c, o)
    BY <1>5, CancelReadIInv
<1>6. CASE \E c \in Clerks : CancelWrite(c)
    BY <1>6, CancelWriteIInv
<1>7. CASE \E c \in Clerks : Rollback(c)
    BY <1>7, RollbackIInv
<1>8. CASE \E m \in RawMaterials : \E take \in [WipRows(m) -> 0..MaxRequest] :
               ConsumeWip(m, take)
    BY <1>8, ConsumeWipIInv
<1>9. CASE UNCHANGED vars
    BY <1>9, DeskIInv DEF vars, IInv, TablesOK
<1> QED
    BY <1>1, <1>2, <1>3, <1>4, <1>5, <1>6, <1>7, <1>8, <1>9 DEF Next

(* The inductive invariant holds of every behaviour.                       *)
THEOREM Invariance == Spec => []IInv
<1>1. Init => IInv
    BY InitIInv
<1>2. IInv /\ [Next]_vars => IInv'
    BY StepIInv
<1> QED
    BY <1>1, <1>2, PTL DEF Spec

(* Whatever the number of orders, lots and clerks: the rows are well       *)
(* formed, and no scan delivers more on a line than it asks for.           *)
THEOREM TablesInvariance == Spec => [](TablesOK /\ NeverOverDelivered)
<1>1. IInv => TablesOK /\ NeverOverDelivered
    BY DEF IInv
<1> QED
    BY <1>1, Invariance, PTL

(* No two lines ever share a child QR, however lines are split, lots       *)
(* substituted and orders prepared again.                                  *)
THEOREM LabelOwnership == Spec => []LabelOwnedOnce
<1> QED
    BY LabelsHaveOneLine, Invariance, PTL

(* What an order line delivered, the WIP rows of its own lot and labels,   *)
(* and what was consumed from those labels always agree, also when         *)
(* overlapping requests label a line twice and its delivery is under the   *)
(* label that was replaced.                                                *)
THEOREM PlantAccounting == Spec => [](DeliveredIsInPlant /\ WipHasItsLine)
<1>1. IInv => DeliveredIsInPlant /\ WipHasItsLine
    BY RowsByLine DEF IInv
<1> QED
    BY <1>1, Invariance, PTL

(* The balance of a child QR's traceable item is that of its WIP row: a    *)
(* consumption never fails for a mismatch between the two.                 *)
THEOREM TraceInvariance == Spec => []TraceMatchesWip
<1>1. IInv => TraceMatchesWip
    BY DEF IInv
<1> QED
    BY <1>1, Invariance, PTL

(* A label is live in the plant only while there is stock in process under *)
(* it, whether a line still carries it or not.                             *)
THEOREM LiveLabels == Spec => []LiveLabelHasStock
<1>1. IInv => LiveLabelHasStock
    BY DEF IInv
<1> QED
    BY <1>1, Invariance, PTL
-----------------------------------------------------------------------------
(* Only a scan that finds every line delivered writes SURTIDA, provided    *)
(* the status endpoint is not asked to; later writes of that order's lines *)
(* only label them.                                                        *)
LEMMA CompletedStep ==
    ASSUME "SURTIDA" \notin StatusRequests, IInv, IInv', CompletedIsDelivered,
           [Next]_vars
    PROVE  CompletedIsDelivered'
<1> SUFFICES ASSUME NEW o \in Orders, orders'[o] = "SURTIDA",
                    NEW k \in DOMAIN items', items'[k].order = o
             PROVE  items'[k].fulfilled = items'[k].requested
    BY DEF CompletedIsDelivered, LinesOf
<1>1. /\ items'[k] \in LineType /\ items'[k].fulfilled <= items'[k].requested
    BY DEF IInv, TablesOK, NeverOverDelivered
<1>2. orders \in [Orders -> Statuses \cup {"NONE"}]
      /\ items \in [DOMAIN items -> LineType] /\ desk \in [Clerks -> DeskType]
    BY DEF IInv, TablesOK
<1>3. \A i \in DOMAIN items : orders[o] = "SURTIDA" /\ items[i].order = o =>
        items[i].fulfilled = items[i].requested
    BY DEF CompletedIsDelivered, LinesOf
<1>4. CASE UNCHANGED <<orders, items>>
    BY <1>3, <1>4
<1>5. ASSUME NEW p \in Orders, NEW take \in Allocations, CreateOrder(p, take)
      PROVE  items'[k].fulfilled = items'[k].requested
  <2>1. p # o /\ orders[o] = "SURTIDA"
    BY <1>2, <1>5 DEF CreateOrder
  <2>2. k \in DOMAIN items /\ items'[k] = items[k]
    BY <1>5, <2>1 DEF CreateOrder
  <2> QED
    BY <1>3, <2>1, <2>2
<1>6. ASSUME NEW p \in Orders, NEW l \in Lots, NEW K \in LineFor(p, l), Scan(p, l, K)
      PROVE  items'[k].fulfilled = items'[k].requested
  <2>1. orders' = [orders EXCEPT ![p] = IF Complete(p, items') THEN "SURTIDA" ELSE @]
        /\ orders[p] = "PREPARANDO"
    BY <1>6 DEF Scan, BeingPrepared
  <2>2. CASE p = o
    <3>1. Complete(o, items')
      BY <1>2, <2>1, <2>2
    <3>2. items'[k].fulfilled >= items'[k].requested
      BY <3>1 DEF Complete
    <3> QED
      BY <1>1, <3>2 DEF LineType
  <2>3. CASE p # o
    <3>1. /\ items[K].order = p /\ K \in DOMAIN items
          /\ items'[Line(l, K)].order = p
          /\ DOMAIN items' = DOMAIN items \cup {Line(l, K)}
      <4>1. isActive[l] /\ available[l] > 0
        BY <1>6 DEF Scan
      <4>2. items[K].order = p /\ K \in DOMAIN items
        BY <4>1, ScanTakes
      <4>3. items'[Line(l, K)].order = p
            /\ DOMAIN items' = DOMAIN items \cup {Line(l, K)}
        BY <1>6, ScanLines
      <4> QED
        BY <4>2, <4>3
    <3>2. k # Line(l, K) /\ k \in DOMAIN items
      BY <2>3, <3>1
    <3>3. items'[k] = IF k = K THEN [items[K] EXCEPT !.requested = items[K].fulfilled]
                      ELSE items[k]
      BY <1>6, <3>2 DEF Scan, Line
    <3>4. k # K
      BY <1>2, <2>3, <3>1, <3>3 DEF LineType
    <3> QED
      BY <1>2, <1>3, <2>1, <2>3, <3>2, <3>3, <3>4
  <2> QED
    BY <2>2, <2>3
<1>7. ASSUME NEW c \in Clerks, StatusWrite(c)
      PROVE  items'[k].fulfilled = items'[k].requested
  <2>1. desk[c].to \in StatusRequests
    BY <1>2, <1>7 DEF StatusWrite, DeskType, Idle
  <2>2. orders[o] = "SURTIDA"
    BY <1>2, <1>7, <2>1 DEF StatusWrite
  <2>3. k \in DOMAIN items /\ items[k] \in LineType
    BY <1>2, <1>7 DEF StatusWrite
  <2>4. items'[k] \in {items[k], [items[k] EXCEPT !.child = nextId + k]}
    BY <1>7, <2>3 DEF StatusWrite
  <2>5. /\ items'[k].order = items[k].order /\ items'[k].fulfilled = items[k].fulfilled
        /\ items'[k].requested = items[k].requested
    BY <2>3, <2>4 DEF LineType
  <2> QED
    BY <1>3, <2>2, <2>3, <2>5
<1>8. ASSUME NEW c \in Clerks, CancelWrite(c)
      PROVE  items'[k].fulfilled = items'[k].requested
  <2>1. orders[o] = "SURTIDA" /\ items' = items
    BY <1>2, <1>8 DEF CancelWrite
  <2> QED
    BY <1>3, <2>1
<1> QED
    BY <1>4, <1>5, <1>6, <1>7, <1>8
    DEF Next, vars, StatusRead, LinesRead, CancelRead, Rollback, ConsumeWip

(* A closed order was delivered in full, whatever stale status changes and *)
(* cancellations commit around the scans, as long as SURTIDA is written by *)
(* the scans alone (the screen only requests PREPARANDO).                  *)
THEOREM CompletionIsEarned ==
    ASSUME "SURTIDA" \notin StatusRequests
    PROVE  Spec => []CompletedIsDelivered
<1>1. Init => CompletedIsDelivered
    BY DEF Init, CompletedIsDelivered
<1>2. IInv /\ IInv' /\ CompletedIsDelivered /\ [Next]_vars => CompletedIsDelivered'
    BY CompletedStep
<1> QED
    BY <1>1, <1>2, Invariance, PTL DEF Spec

(* A lot leaves the active ones exactly when its last unit is issued.      *)
THEOREM LotActivity == Spec => []ActiveIffStock
<1>1. Init => ActiveIffStock
    BY DEF Init, ActiveIffStock
<1>2. IInv /\ ActiveIffStock /\ [Next]_vars => ActiveIffStock'
  <2> SUFFICES ASSUME IInv, ActiveIffStock, [Next]_vars PROVE ActiveIffStock'
    OBVIOUS
  <2>1. available \in [Lots -> Nat] /\ isActive \in [Lots -> BOOLEAN]
    BY DEF IInv, TablesOK
  <2>2. CASE UNCHANGED <<available, isActive>>
    BY <2>2 DEF ActiveIffStock
  <2>3. ASSUME NEW o \in Orders, NEW l \in Lots, NEW K \in LineFor(o, l), Scan(o, l, K)
        PROVE  ActiveIffStock'
    <3>1. Take(items[K], l) \in Nat /\ Take(items[K], l) <= available[l]
      BY <2>3, ScanTakes DEF Scan
    <3>2. /\ available' = [available EXCEPT ![l] = available[l] - Take(items[K], l)]
          /\ isActive' = [isActive EXCEPT ![l] =
                             StillActive(available[l] - Take(items[K], l))]
      BY <2>3 DEF Scan
    <3> QED
      BY <2>1, <3>1, <3>2 DEF ActiveIffStock, StillActive
  <2> QED
    BY <2>2, <2>3
    DEF Next, vars, CreateOrder, StatusRead, LinesRead, StatusWrite, CancelRead,
        CancelWrite, Rollback, ConsumeWip
<1> QED
    BY <1>1, <1>2, Invariance, PTL DEF Spec
-----------------------------------------------------------------------------
(* The lots and the consolidated balance.                                  *)
LEMMA StockFacts ==
    ASSUME NEW avail \in [Lots -> Nat], NEW act \in [Lots -> BOOLEAN], NEW S \in SUBSET Lots
    PROVE  /\ IsFiniteSet({l \in S : act[l]})
           /\ Stock(S, avail, act) \in Nat
<1>1. IsFiniteSet(Lots)
  BY LotAssumption, FS_Interval DEF LotAssumption, Lots
<1> DEFINE T == {l \in S : act[l]}
<1>2. IsFiniteSet(T) /\ \A l \in T : avail[l] \in Nat
  <2>1. T \subseteq Lots
    OBVIOUS
  <2>. QED
    BY <1>1, <2>1, FS_Subset
<1> HIDE DEF T
<1>3. Total(avail, T) \in Nat
  BY <1>2, TotalNat
<1>. QED
  BY <1>2, <1>3 DEF Stock, T

(* A scan takes its quantity of the lots of one material.                  *)
LEMMA ScanStock ==
    ASSUME IInv, NEW o \in Orders, NEW l \in Lots, NEW K \in LineFor(o, l), Scan(o, l, K),
           NEW m \in Materials, NEW rest, rest = Stock(LotsOf(m) \ {l}, available, isActive),
           NEW take, take = Take(items[K], l)
    PROVE  /\ rest \in Nat
           /\ m # MaterialOf[l] =>
                Stock(LotsOf(m), available', isActive') = Stock(LotsOf(m), available, isActive)
           /\ m = MaterialOf[l] =>
                /\ Stock(LotsOf(m), available, isActive) = rest + available[l]
                /\ Stock(LotsOf(m), available', isActive') = rest + (available[l] - take)
<1>1. /\ available \in [Lots -> Nat] /\ isActive \in [Lots -> BOOLEAN]
      /\ isActive[l] /\ available[l] > 0
  BY DEF IInv, TablesOK, Scan
<1>2. take \in Nat /\ take > 0 /\ take <= available[l]
  BY <1>1, ScanTakes
<1> DEFINE left == available[l] - take
           A == {k \in LotsOf(m) : isActive[k]}
           B == {k \in LotsOf(m) : isActive'[k]}
           R == {k \in LotsOf(m) \ {l} : isActive[k]}
<1>3. left \in Nat
  BY <1>1, <1>2
<1>4. /\ available' = [available EXCEPT ![l] = left]
      /\ isActive' = [isActive EXCEPT ![l] = StillActive(left)]
  BY DEF Scan
<1>5. /\ \A k \in Lots \ {l} : available'[k] = available[k] /\ isActive'[k] = isActive[k]
      /\ available'[l] = left /\ (isActive'[l] <=> left > 0)
  BY <1>1, <1>4 DEF StillActive
<1>6. LotsOf(m) \subseteq Lots /\ (l \in LotsOf(m) <=> m = MaterialOf[l])
  BY DEF LotsOf
<1>7. IsFiniteSet(A) /\ IsFiniteSet(R) /\ rest \in Nat
  BY <1>1, <1>6, StockFacts
<1>8. /\ Stock(LotsOf(m), available, isActive) = Total(available, A)
      /\ Stock(LotsOf(m), available', isActive') = Total(available', B)
      /\ rest = Total(available, R)
  BY DEF Stock
<1>9. R \subseteq Lots \ {l} /\ A \subseteq Lots /\ \A k \in A : available[k] \in Int
  BY <1>1, <1>6
<1>10. Total(available', R) = rest
  <2>1. \A k \in R : available'[k] = available[k]
    BY <1>5, <1>9
  <2> HIDE DEF R
  <2>. QED
    BY <1>7, <1>8, <2>1, TotalEqual
<1>11. CASE m = MaterialOf[l]
  <2>1. l \in A /\ A \ {l} = R
    BY <1>1, <1>6, <1>11
  <2>2. B = IF left > 0 THEN R \cup {l} ELSE R
    BY <1>5, <1>6, <1>11
  <2>3. l \notin R /\ \A k \in R \cup {l} : available'[k] \in Int
    BY <1>1, <1>3, <1>5, <1>9
  <2> HIDE DEF A, B, R
  <2>4. Total(available, A) = available[l] + rest
    BY <1>7, <1>8, <1>9, <2>1, TotalRemove
  <2>5. Total(available', R \cup {l}) = left + rest
    BY <1>5, <1>7, <1>10, <2>3, TotalAdd
  <2>6. Total(available', B) = rest + left
    BY <1>3, <1>7, <1>10, <2>2, <2>5
  <2>. QED
    BY <1>1, <1>7, <1>8, <1>11, <2>4, <2>6 DEF left
<1>12. CASE m # MaterialOf[l]
  <2>1. A = R /\ B = A
    BY <1>5, <1>6, <1>12
  <2>. QED
    BY <1>7, <1>8, <1>10, <1>12, <2>1
<1>. QED
  BY <1>11, <1>12

(* The lots change in scans only.                                          *)
LEMMA LotsChangeInScans ==
    ASSUME [Next]_vars
    PROVE  \/ \E o \in Orders, l \in Lots : \E K \in LineFor(o, l) : Scan(o, l, K)
           \/ available' = available /\ isActive' = isActive /\ inventory' = inventory
<1>1. CASE \E o \in Orders, l \in Lots : \E K \in LineFor(o, l) : Scan(o, l, K)
  BY <1>1
<1>2. CASE \E o \in Orders, take \in Allocations : CreateOrder(o, take)
  BY <1>2 DEF CreateOrder
<1>3. CASE UNCHANGED vars
  BY <1>3 DEF vars
<1>. QED
  BY <1>1, <1>2, <1>3
  DEF Next, StatusRead, LinesRead, StatusWrite, CancelRead, CancelWrite, Rollback,
      ConsumeWip

(* The reconciliation of a scan.                                           *)
Reconciled == \A m \in Materials :
    LET before == Stock(LotsOf(m), available, isActive)
        after == Stock(LotsOf(m), available', isActive')
    IN after # before => inventory'[m] = after + (Larger(inventory[m], before) - before)
BalanceInv == IInv /\ TypeOK

(* A scan debits the balance of its own material by what it took, after    *)
(* the reconciliation brought it up to the lots, and leaves the other      *)
(* materials alone.                                                        *)
LEMMA ScanSettles ==
    ASSUME BalanceInv, NEW o \in Orders, NEW l \in Lots, NEW K \in LineFor(o, l),
           Scan(o, l, K)
    PROVE  Reconciled /\ inventory' \in [Materials -> Nat]
<1> DEFINE m == MaterialOf[l]
           rest == Stock(LotsOf(m) \ {l}, available, isActive)
           take == Take(items[K], l)
           left == available[l] - take
           debited == Debited(inventory[m], rest + left, take)
<1>1. /\ IInv /\ inventory \in [Materials -> Nat]
      /\ available \in [Lots -> Nat] /\ isActive[l] /\ available[l] > 0 /\ m \in Materials
  BY LotAssumption DEF BalanceInv, TypeOK, IInv, TablesOK, Scan, LotAssumption
<1>2. take \in Nat /\ take > 0 /\ take <= available[l]
  BY <1>1, ScanTakes
<1>3. inventory' = [inventory EXCEPT ![m] = debited]
  BY DEF Scan
<1>4. /\ rest \in Nat
      /\ Stock(LotsOf(m), available, isActive) = rest + available[l]
      /\ Stock(LotsOf(m), available', isActive') = rest + left
  <2> HIDE DEF m
  <2>1. m = MaterialOf[l]
    BY DEF m
  <2> HIDE DEF rest, take
  <2>2. rest = Stock(LotsOf(m) \ {l}, available, isActive) /\ take = Take(items[K], l)
    BY DEF rest, take
  <2>. QED
    BY <1>1, <2>1, <2>2, ScanStock
<1> HIDE DEF m, rest, take
<1>5. /\ debited \in Nat
      /\ debited = (rest + left) + (Larger(inventory[m], rest + available[l])
                                      - (rest + available[l]))
  BY <1>1, <1>2, <1>4 DEF Debited, Larger
<1>6. \A n \in Materials : n # m =>
         Stock(LotsOf(n), available', isActive') = Stock(LotsOf(n), available, isActive)
  <2> SUFFICES ASSUME NEW n \in Materials, n # m
               PROVE  Stock(LotsOf(n), available', isActive')
                        = Stock(LotsOf(n), available, isActive)
    OBVIOUS
  <2>1. PICK r, t : r = Stock(LotsOf(n) \ {l}, available, isActive) /\ t = Take(items[K], l)
    OBVIOUS
  <2>. QED
    BY <1>1, <2>1, ScanStock DEF m
<1> HIDE DEF debited, left
<1>7. inventory' \in [Materials -> Nat] /\ inventory'[m] = debited
  BY <1>1, <1>3, <1>5
<1>8. Reconciled
  BY <1>4, <1>5, <1>6, <1>7 DEF Reconciled
<1>. QED
  BY <1>7, <1>8

(* The balance starts as a natural number.                                 *)
LEMMA BalanceInit == Init => BalanceInv
<1> SUFFICES ASSUME Init PROVE BalanceInv
  OBVIOUS
<1>1. IInv
  BY InitIInv
<1>2. inventory \in [Materials -> Nat]
  BY RequestAssumption DEF Init, RequestAssumption
<1>. QED
  BY <1>1, <1>2 DEF BalanceInv, TypeOK, IInv

(* Only scans touch the lots and the balance, and every scan reconciles    *)
(* them.                                                                   *)
LEMMA BalanceStep == BalanceInv /\ [Next]_vars => BalanceInv' /\ Reconciled
<1> SUFFICES ASSUME BalanceInv, [Next]_vars PROVE BalanceInv' /\ Reconciled
  OBVIOUS
<1>1. IInv'
  BY StepIInv DEF BalanceInv
<1>2. Reconciled /\ inventory' \in [Materials -> Nat]
  <2>1. CASE \E o \in Orders, l \in Lots : \E K \in LineFor(o, l) : Scan(o, l, K)
    BY <2>1, ScanSettles
  <2>2. CASE available' = available /\ isActive' = isActive /\ inventory' = inventory
    BY <2>2 DEF Reconciled, BalanceInv, TypeOK
  <2>. QED
    BY <2>1, <2>2, LotsChangeInScans
<1>. QED
  BY <1>1, <1>2 DEF BalanceInv, TypeOK, IInv

(* The tables are well formed, with a consolidated balance that is never   *)
(* negative: a debit that the lots cover is covered by the balance too.    *)
THEOREM OrderTablesTyped == Spec => []TypeOK
<1>1. BalanceInv /\ [Next]_vars => BalanceInv'
  BY BalanceStep
<1>2. BalanceInv => TypeOK
  BY DEF BalanceInv
<1>. QED
  BY <1>1, <1>2, BalanceInit, PTL DEF Spec

(* After a scan the consolidated balance covers the lots of its material,  *)
(* and a surplus it had over them is neither spent nor increased.          *)
THEOREM ScansReconcile == Spec => ScanReconciles
<1>1. BalanceInv /\ [Next]_vars => BalanceInv' /\ [Reconciled]_vars
  BY BalanceStep
<1>. QED
  BY <1>1, BalanceInit, PTL DEF Spec, ScanReconciles, Reconciled

-----------------------------------------------------------------------------
(* The orders implement the ledger.                                        *)

(* Only orders that were placed have lines and transactions.               *)
OrdersExist ==
    /\ \A i \in DOMAIN items : orders[items[i].order] # "NONE"
    /\ \A c \in Clerks : desk[c] # Idle => orders[desk[c].order] # "NONE"

(* A line's lot is of the line's material, whatever lot replaced it.       *)
LotsOfTheirMaterial == \A i \in DOMAIN items : MaterialOf[items[i].lote] = items[i].material

LedgerInv == IInv /\ OrdersExist /\ LotsOfTheirMaterial

(* What the sums of the ledger run over.                                   *)
Columns ==
    /\ \A S \in SUBSET (DOMAIN items) : IsFiniteSet(S)
    /\ \A S \in SUBSET (DOMAIN wip) : IsFiniteSet(S)
    /\ \A i \in DOMAIN items :
          /\ Requested[i] \in Nat /\ Fulfilled[i] \in Nat
          /\ Fulfilled[i] <= Requested[i]
    /\ \A r \in DOMAIN wip : wip[r] \in Nat /\ Spent[r] \in Nat
    /\ \A o \in Orders, m \in Materials : LinesFor(o, m) \subseteq DOMAIN items
    /\ \A m \in Materials : LinesOfMaterial(m) \subseteq DOMAIN items
    /\ \A m \in Materials : RowsOf(m) \subseteq DOMAIN wip

(* The sums run over finite sets of rows with natural numbers.             *)
LEMMA ColumnFacts == IInv => Columns
<1> SUFFICES ASSUME IInv PROVE Columns
  OBVIOUS
<1>1. /\ nextId \in Nat /\ DOMAIN items \subseteq 1..nextId
      /\ items \in [DOMAIN items -> LineType]
  BY DEF IInv, TablesOK
<1>2. RowsSummable
  BY RowFacts
<1>3. IsFiniteSet(DOMAIN items)
  <2>1. IsFiniteSet(1..nextId)
    BY <1>1, FS_Interval
  <2>. QED
    BY <1>1, <2>1, FS_Subset
<1>4. ASSUME NEW i \in DOMAIN items
      PROVE  /\ Requested[i] \in Nat /\ Fulfilled[i] \in Nat
             /\ Fulfilled[i] <= Requested[i]
  <2>1. items[i] \in LineType /\ items[i].fulfilled <= items[i].requested
    BY <1>1 DEF IInv, NeverOverDelivered
  <2>. QED
    BY <2>1 DEF Requested, Fulfilled, LineType
<1>5. \A r \in DOMAIN wip : wip[r] \in Nat /\ Spent[r] \in Nat
  BY <1>2 DEF Spent, RowsSummable
<1>6. \A o \in Orders, m \in Materials : LinesFor(o, m) \subseteq DOMAIN items
  BY DEF LinesFor, LinesOf
<1>7. \A m \in Materials : /\ LinesOfMaterial(m) \subseteq DOMAIN items
                           /\ RowsOf(m) \subseteq DOMAIN wip
  BY DEF LinesOfMaterial, RowsOf
<1>8. (\A S \in SUBSET (DOMAIN items) : IsFiniteSet(S))
        /\ (\A S \in SUBSET (DOMAIN wip) : IsFiniteSet(S))
  BY <1>2, <1>3, FS_Subset DEF RowsSummable
<1>. QED
  BY <1>4, <1>5, <1>6, <1>7, <1>8 DEF Columns

(* So they do after a step that keeps the invariant.                       *)
LEMMA NextColumns == IInv' => Columns'
<1>1. IInv => Columns
  BY ColumnFacts
<1>. QED
  BY <1>1, PTL

(* The ledger's tables hold natural numbers.                               *)
LedgerTyped ==
    /\ AskedBy \in [Orders -> [Materials -> Nat]]
    /\ IssuedTo \in [Orders -> [Materials -> Nat]]
    /\ InWarehouse \in [Materials -> Nat]
    /\ InPlant \in [Materials -> Nat]
    /\ SpentOn \in [Materials -> Nat]

(* Their totals are natural numbers.                                       *)
LEMMA LedgerValues == IInv => LedgerTyped
<1> SUFFICES ASSUME IInv PROVE LedgerTyped
  OBVIOUS
<1>1. Columns
  BY ColumnFacts
<1>2. ASSUME NEW o \in Orders, NEW m \in Materials
      PROVE  Total(Requested, LinesFor(o, m)) \in Nat /\ Total(Fulfilled, LinesFor(o, m)) \in Nat
  <2>1. /\ IsFiniteSet(LinesFor(o, m))
        /\ \A i \in LinesFor(o, m) : Requested[i] \in Nat /\ Fulfilled[i] \in Nat
    BY <1>1 DEF Columns
  <2>. QED
    BY <2>1, TotalNat
<1>3. ASSUME NEW m \in Materials
      PROVE  /\ Stock(LotsOf(m), available, isActive) \in Nat
             /\ Total(wip, RowsOf(m)) \in Nat
             /\ Total(Spent, RowsOf(m)) \in Nat
             /\ Total(Fulfilled, LinesOfMaterial(m)) \in Nat
  <2>1. /\ IsFiniteSet(LinesOfMaterial(m)) /\ IsFiniteSet(RowsOf(m))
        /\ \A i \in LinesOfMaterial(m) : Fulfilled[i] \in Nat
        /\ \A r \in RowsOf(m) : wip[r] \in Nat /\ Spent[r] \in Nat
    BY <1>1 DEF Columns
  <2>2. Total(wip, RowsOf(m)) \in Nat
    BY <2>1, TotalNat
  <2>3. Total(Spent, RowsOf(m)) \in Nat /\ Total(Fulfilled, LinesOfMaterial(m)) \in Nat
    BY <2>1, TotalNat
  <2>4. available \in [Lots -> Nat] /\ isActive \in [Lots -> BOOLEAN] /\ LotsOf(m) \in SUBSET Lots
    BY DEF IInv, TablesOK, LotsOf
  <2>5. Stock(LotsOf(m), available, isActive) \in Nat
    BY <2>4, StockFacts
  <2>. QED
    BY <2>2, <2>3, <2>5
<1>. QED
  BY <1>2, <1>3 DEF LedgerTyped, AskedBy, IssuedTo, InWarehouse, InPlant, SpentOn

(* And so they are after a step that keeps the invariant.                  *)
LEMMA NextValues == IInv' => LedgerTyped'
<1>1. IInv => LedgerTyped
  BY LedgerValues
<1>. QED
  BY <1>1, PTL

(* The invariant starts true.                                              *)
LEMMA LedgerInvInit == Init => LedgerInv
<1> SUFFICES ASSUME Init PROVE LedgerInv
  OBVIOUS
<1>1. IInv
  BY InitIInv
<1>2. OrdersExist
  <2>1. LegacyOrder \in Orders
    BY LotAssumption DEF LotAssumption
  <2>2. ASSUME NEW i \in DOMAIN items PROVE orders[items[i].order] # "NONE"
    <3>1. i \in LegacyLots /\ items[i].order = LegacyOrder
      BY DEF Init
    <3>2. orders[LegacyOrder] = "PENDIENTE"
      BY <2>1, <3>1 DEF Init
    <3>. QED
      BY <3>1, <3>2
  <2>3. \A c \in Clerks : desk[c] = Idle
    BY DEF Init
  <2>. QED
    BY <2>2, <2>3 DEF OrdersExist
<1>3. LotsOfTheirMaterial
  BY DEF Init, LotsOfTheirMaterial
<1>. QED
  BY <1>1, <1>2, <1>3 DEF LedgerInv

(* Steps that leave the lines, the lots and the WIP rows as they are, but  *)
(* for labels under which nothing was consumed, do not show in the ledger. *)
LEMMA SameSums ==
    ASSUME DOMAIN items' = DOMAIN items,
           \A i \in DOMAIN items : /\ items'[i].order = items[i].order
                                   /\ items'[i].material = items[i].material
                                   /\ items'[i].requested = items[i].requested
                                   /\ items'[i].fulfilled = items[i].fulfilled,
           Spent' = Spent, wip' = wip, available' = available, isActive' = isActive
    PROVE  UNCHANGED <<AskedBy, IssuedTo, InWarehouse, InPlant, SpentOn>>
<1>1. Requested' = Requested
  BY DEF Requested
<1>2. Fulfilled' = Fulfilled
  BY DEF Fulfilled
<1>3. \A o, m : LinesFor(o, m)' = LinesFor(o, m)
  BY DEF LinesFor, LinesOf
<1>4. \A m : LinesOfMaterial(m)' = LinesOfMaterial(m) /\ RowsOf(m)' = RowsOf(m)
  BY DEF LinesOfMaterial, RowsOf
<1>5. AskedBy' = AskedBy
  BY <1>1, <1>3 DEF AskedBy
<1>6. IssuedTo' = IssuedTo
  BY <1>2, <1>3 DEF IssuedTo
<1>7. InWarehouse' = InWarehouse
  BY DEF InWarehouse
<1>8. InPlant' = InPlant
  BY <1>4 DEF InPlant
<1>9. SpentOn' = SpentOn
  BY <1>2, <1>4 DEF SpentOn
<1>. QED
  BY <1>5, <1>6, <1>7, <1>8, <1>9

(* What a step leaves alone of the lines, but for the lines of S.          *)
KeepsOwners == \A k \in DOMAIN items : /\ items'[k].order = items[k].order
                                      /\ items'[k].material = items[k].material
KeepsFulfilled(S) == \A k \in DOMAIN items \ S : Fulfilled'[k] = Fulfilled[k]
KeepsRequested(S) == \A k \in DOMAIN items \ S : Requested'[k] = Requested[k]

(* The columns after a scan that takes some of lot l for one line of order *)
(* o, in line K or in the line split off it.                               *)
ScanWrites(o, l, K, line, take) ==
    /\ K \in DOMAIN items /\ items[K].order = o /\ items[K].material = MaterialOf[l]
    /\ take \in Nat /\ take > 0
    /\ DOMAIN items' = DOMAIN items \cup {line}
    /\ items'[line].order = o /\ items'[line].material = MaterialOf[l]
    /\ items'[line].lote = l
    /\ KeepsOwners
    /\ KeepsFulfilled({line})
    /\ Fulfilled'[line] = (IF line \in DOMAIN items THEN Fulfilled[line] ELSE 0) + take
    /\ KeepsRequested({line, K})
    /\ \/ line = K /\ Requested'[K] = Requested[K]
       \/ /\ line \notin DOMAIN items
          /\ Requested'[K] = Fulfilled[K]
          /\ Requested'[line] = Requested[K] - Fulfilled[K]

(* A scan writes those columns.                                            *)
LEMMA ScanColumns ==
    ASSUME IInv, NEW o \in Orders, NEW l \in Lots, NEW K \in LineFor(o, l), Scan(o, l, K),
           NEW line, line = Line(l, K), NEW take, take = Take(items[K], l)
    PROVE  ScanWrites(o, l, K, line, take)
<1> DEFINE i == items[K]
           delivered == DeliveredLine(i, l, take, Label(l, K))
<1>1. isActive[l] /\ available[l] > 0
  BY DEF Scan
<1>2. /\ K \in DOMAIN items /\ i \in LineType /\ i.order = o
      /\ i.material = MaterialOf[l] /\ take \in Nat /\ take > 0
      /\ take <= i.requested - i.fulfilled
  BY <1>1, ScanTakes
<1>3. items' = [k \in DOMAIN items \cup {line} |->
                    IF k = line THEN delivered
                    ELSE IF k = K THEN [i EXCEPT !.requested = i.fulfilled]
                    ELSE items[k]]
  BY DEF Scan, Line, Label, Relabels
<1>4. /\ i.requested \in Nat /\ i.fulfilled \in Nat
      /\ items \in [DOMAIN items -> LineType] /\ nextId \in Nat
      /\ DOMAIN items \subseteq 1..nextId
  BY <1>2 DEF LineType, IInv, TablesOK
<1>5. Label(l, K) \in Nat
  BY ScanLabel
<1>6. /\ delivered.order = o
      /\ delivered.material = MaterialOf[l]
      /\ delivered.lote = l
      /\ delivered.fulfilled = IF Splits(i, l) THEN take ELSE i.fulfilled + take
      /\ delivered.requested = IF Splits(i, l) THEN i.requested - i.fulfilled
                               ELSE i.requested
  BY <1>2, <1>5, LineDelivered
<1>7. line = IF Splits(i, l) THEN nextId + 1 ELSE K
  BY DEF Line
<1>8. Splits(i, l) => line \notin DOMAIN items
  BY <1>4, <1>7
<1> HIDE DEF delivered
<1>9. DOMAIN items' = DOMAIN items \cup {line} /\ items'[line] = delivered
  BY <1>3
<1>10. \A k \in DOMAIN items \ {line, K} : items'[k] = items[k]
  BY <1>3
<1>11. K # line => /\ items'[K].order = i.order /\ items'[K].material = i.material
                   /\ items'[K].requested = i.fulfilled
                   /\ items'[K].fulfilled = i.fulfilled
  <2>1. K # line => items'[K] = [i EXCEPT !.requested = i.fulfilled]
    BY <1>2, <1>3
  <2>. QED
    BY <1>2, <2>1 DEF LineType
<1> HIDE DEF i
<1>12. items[K] = i
  BY DEF i
<1>13. \A k \in DOMAIN items : /\ items'[k].order = items[k].order
                               /\ items'[k].material = items[k].material
  BY <1>2, <1>6, <1>7, <1>8, <1>9, <1>10, <1>11, <1>12
<1>14. \A k \in DOMAIN items' : /\ Fulfilled'[k] = items'[k].fulfilled
                                /\ Requested'[k] = items'[k].requested
  BY DEF Fulfilled, Requested
<1>15. \A k \in DOMAIN items : /\ Fulfilled[k] = items[k].fulfilled
                               /\ Requested[k] = items[k].requested
  BY DEF Fulfilled, Requested
<1>16. \A k \in DOMAIN items \ {line} : Fulfilled'[k] = Fulfilled[k]
  BY <1>2, <1>9, <1>10, <1>11, <1>12, <1>14, <1>15
<1>17. \A k \in DOMAIN items \ {line, K} : Requested'[k] = Requested[k]
  BY <1>9, <1>10, <1>14, <1>15
<1>18. Fulfilled'[line] = (IF line \in DOMAIN items THEN Fulfilled[line] ELSE 0) + take
  BY <1>2, <1>4, <1>6, <1>7, <1>8, <1>9, <1>12, <1>14, <1>15
<1>19. \/ line = K /\ Requested'[K] = Requested[K]
       \/ /\ line \notin DOMAIN items
          /\ Requested'[K] = Fulfilled[K]
          /\ Requested'[line] = Requested[K] - Fulfilled[K]
  BY <1>2, <1>6, <1>7, <1>8, <1>9, <1>11, <1>12, <1>14, <1>15
<1>. QED
  BY <1>2, <1>6, <1>9, <1>12, <1>13, <1>16, <1>17, <1>18, <1>19
  DEF ScanWrites, KeepsOwners, KeepsFulfilled, KeepsRequested

(* A scan consumes nothing: nothing was spent under the label of a row it  *)
(* adds.                                                                   *)
LEMMA ScanSpentRows ==
    ASSUME IInv, NEW o \in Orders, NEW l \in Lots, NEW K \in LineFor(o, l), Scan(o, l, K),
           Raw(MaterialOf[l])
    PROVE  /\ DOMAIN wip \subseteq DOMAIN wip'
           /\ \A r \in DOMAIN wip : Spent'[r] = Spent[r]
           /\ \A r \in DOMAIN wip' \ DOMAIN wip : Spent'[r] = 0
<1> DEFINE row == RowOf(l, K)
           line == Line(l, K)
           take == Take(items[K], l)
<1>1. RowsAfterScan(row, line, take)
  BY ScanRows
<1>2. /\ \A r \in DOMAIN wip : Spent[r] = used[r[2]]
      /\ \A r \in DOMAIN wip' : Spent'[r] = used'[r[2]]
  BY DEF Spent
<1> HIDE DEF row, line, take
<1>. QED
  BY <1>1, <1>2 DEF RowsAfterScan

(* Which lines the sums run over after a scan.                             *)
LEMMA ScanGroups ==
    ASSUME IInv, NEW o \in Orders, NEW l \in Lots, NEW K \in LineFor(o, l), Scan(o, l, K),
           NEW line, line = Line(l, K), NEW m, m = MaterialOf[l]
    PROVE  /\ \A p, n : LinesFor(p, n)' = IF p = o /\ n = m THEN LinesFor(o, m) \cup {line}
                                          ELSE LinesFor(p, n)
           /\ \A n : LinesOfMaterial(n)' = IF n = m THEN LinesOfMaterial(m) \cup {line}
                                           ELSE LinesOfMaterial(n)
           /\ K \in LinesFor(o, m) /\ (line \in DOMAIN items => line \in LinesFor(o, m))
           /\ \A p, n : ~(p = o /\ n = m) => K \notin LinesFor(p, n) /\ line \notin LinesFor(p, n)
           /\ LinesFor(o, m) \subseteq LinesOfMaterial(m)
           /\ \A n : n # m => line \notin LinesOfMaterial(n)
<1>1. /\ K \in DOMAIN items /\ items[K].order = o /\ items[K].material = m
      /\ DOMAIN items' = DOMAIN items \cup {line}
      /\ items'[line].order = o /\ items'[line].material = m
      /\ \A k \in DOMAIN items : /\ items'[k].order = items[k].order
                                 /\ items'[k].material = items[k].material
  <2> DEFINE take == Take(items[K], l)
  <2>1. take = Take(items[K], l)
    OBVIOUS
  <2> HIDE DEF take
  <2>2. ScanWrites(o, l, K, line, take)
    BY <2>1, ScanColumns
  <2>. QED
    BY <2>2 DEF ScanWrites, KeepsOwners
<1>. QED
  BY <1>1 DEF LinesFor, LinesOf, LinesOfMaterial

(* The same lines wait for the same quantities, split or not.              *)
LEMMA ScanAsks ==
    ASSUME IInv, IInv', NEW o \in Orders, NEW l \in Lots, NEW K \in LineFor(o, l), Scan(o, l, K),
           NEW line, line = Line(l, K), NEW m \in Materials, m = MaterialOf[l],
           NEW take, take = Take(items[K], l)
    PROVE  AskedBy' = AskedBy
<1>1. Columns /\ Columns'
  BY ColumnFacts, NextColumns
<1>2. ScanWrites(o, l, K, line, take)
  BY ScanColumns
<1>3. /\ \A p, n : LinesFor(p, n)' = IF p = o /\ n = m THEN LinesFor(o, m) \cup {line}
                                     ELSE LinesFor(p, n)
      /\ K \in LinesFor(o, m) /\ (line \in DOMAIN items => line \in LinesFor(o, m))
      /\ \A p, n : ~(p = o /\ n = m) => K \notin LinesFor(p, n) /\ line \notin LinesFor(p, n)
  BY ScanGroups
<1>4. ASSUME NEW p \in Orders, NEW n \in Materials, ~(p = o /\ n = m)
      PROVE  Total(Requested', LinesFor(p, n)') = Total(Requested, LinesFor(p, n))
  <2> DEFINE S == LinesFor(p, n)
  <2>1. LinesFor(p, n)' = S /\ IsFiniteSet(S)
    BY <1>1, <1>3, <1>4 DEF Columns
  <2>2. \A k \in S : Requested'[k] = Requested[k]
    BY <1>1, <1>2, <1>3, <1>4 DEF Columns, ScanWrites, KeepsRequested
  <2>3. LinesFor(p, n) = S
    OBVIOUS
  <2> HIDE DEF S
  <2>. QED
    BY <2>1, <2>2, <2>3, TotalEqual
<1>5. Total(Requested', LinesFor(o, m)') = Total(Requested, LinesFor(o, m))
  <2> DEFINE S == LinesFor(o, m)
  <2>1. LinesFor(o, m)' = S \cup {line} /\ IsFiniteSet(S) /\ K \in S
    BY <1>1, <1>3 DEF Columns
  <2>2. \A k \in S : Requested[k] \in Nat /\ Fulfilled[k] \in Nat /\ Requested'[k] \in Nat
    BY <1>1, <1>2 DEF Columns, ScanWrites
  <2>3. Requested'[line] \in Nat
    BY <1>1, <1>2 DEF Columns, ScanWrites
  <2>4. \A k \in S \ {line, K} : Requested'[k] = Requested[k]
    BY <1>1, <1>2 DEF Columns, ScanWrites, KeepsRequested
  <2>5. /\ \/ line = K /\ Requested'[K] = Requested[K]
           \/ /\ line \notin DOMAIN items
              /\ Requested'[K] = Fulfilled[K]
              /\ Requested'[line] = Requested[K] - Fulfilled[K]
        /\ S \subseteq DOMAIN items
    BY <1>1, <1>2 DEF Columns, ScanWrites
  <2>6. LinesFor(o, m) = S
    OBVIOUS
  <2> HIDE DEF S
  <2>7. CASE line = K /\ Requested'[K] = Requested[K]
    <3>1. S \cup {line} = S
      BY <2>1, <2>7
    <3>2. \A k \in S : Requested'[k] = Requested[k]
      BY <2>4, <2>7
    <3>. QED
      BY <2>1, <2>6, <3>1, <3>2, TotalEqual
  <2>8. CASE /\ line \notin DOMAIN items
             /\ Requested'[K] = Fulfilled[K]
             /\ Requested'[line] = Requested[K] - Fulfilled[K]
    <3>1. line \notin S
      BY <2>5, <2>8
    <3>2. \A k \in S \ {K} : Requested'[k] = Requested[k]
      BY <2>4, <3>1
    <3>3. \A k \in S : Requested[k] \in Int /\ Requested'[k] \in Int
      BY <2>2
    <3>4. Total(Requested', S) = Total(Requested, S) + Requested'[K] - Requested[K]
      BY <2>1, <3>2, <3>3, TotalUpdate
    <3>5. \A k \in S \cup {line} : Requested'[k] \in Int
      BY <2>3, <3>3
    <3>6. Total(Requested', S \cup {line}) = Requested'[line] + Total(Requested', S)
      BY <2>1, <3>1, <3>5, TotalAdd
    <3>7. Total(Requested, S) \in Int
      BY <2>1, <3>3, TotalInt
    <3>8. Requested[K] \in Nat /\ Fulfilled[K] \in Nat
      BY <2>1, <2>2
    <3>. QED
      BY <2>1, <2>6, <2>8, <3>4, <3>6, <3>7, <3>8
  <2>. QED
    BY <2>5, <2>7, <2>8
<1>6. \A p \in Orders, n \in Materials :
         Total(Requested', LinesFor(p, n)') = Total(Requested, LinesFor(p, n))
  BY <1>4, <1>5
<1>. QED
  BY <1>6 DEF AskedBy

(* The order gets what the scan takes, in the material of the lot.         *)
LEMMA ScanDelivers ==
    ASSUME IInv, IInv', NEW o \in Orders, NEW l \in Lots, NEW K \in LineFor(o, l), Scan(o, l, K),
           NEW line, line = Line(l, K), NEW m \in Materials, m = MaterialOf[l],
           NEW take, take = Take(items[K], l)
    PROVE  /\ \A p \in Orders, n \in Materials : ~(p = o /\ n = m) =>
                 Total(Fulfilled', LinesFor(p, n)') = Total(Fulfilled, LinesFor(p, n))
           /\ Total(Fulfilled', LinesFor(o, m)') = Total(Fulfilled, LinesFor(o, m)) + take
<1>1. Columns /\ Columns'
  BY ColumnFacts, NextColumns
<1>2. ScanWrites(o, l, K, line, take)
  BY ScanColumns
<1>3. /\ \A p, n : LinesFor(p, n)' = IF p = o /\ n = m THEN LinesFor(o, m) \cup {line}
                                     ELSE LinesFor(p, n)
      /\ K \in LinesFor(o, m) /\ (line \in DOMAIN items => line \in LinesFor(o, m))
      /\ \A p, n : ~(p = o /\ n = m) => K \notin LinesFor(p, n) /\ line \notin LinesFor(p, n)
  BY ScanGroups
<1>4. ASSUME NEW p \in Orders, NEW n \in Materials, ~(p = o /\ n = m)
      PROVE  Total(Fulfilled', LinesFor(p, n)') = Total(Fulfilled, LinesFor(p, n))
  <2> DEFINE S == LinesFor(p, n)
  <2>1. LinesFor(p, n)' = S /\ IsFiniteSet(S)
    BY <1>1, <1>3, <1>4 DEF Columns
  <2>2. \A k \in S : Fulfilled'[k] = Fulfilled[k]
    BY <1>1, <1>2, <1>3, <1>4 DEF Columns, ScanWrites, KeepsFulfilled
  <2>3. LinesFor(p, n) = S
    OBVIOUS
  <2> HIDE DEF S
  <2>. QED
    BY <2>1, <2>2, <2>3, TotalEqual
<1>5. Total(Fulfilled', LinesFor(o, m)') = Total(Fulfilled, LinesFor(o, m)) + take
  <2> DEFINE S == LinesFor(o, m)
  <2>1. LinesFor(o, m)' = S \cup {line} /\ IsFiniteSet(S) /\ S \subseteq DOMAIN items
    BY <1>1, <1>3 DEF Columns
  <2>2. (\A k \in S : Fulfilled[k] \in Int) /\ (line \in DOMAIN items => line \in S)
    BY <1>1, <1>3, <2>1 DEF Columns
  <2>3. Fulfilled'[line] \in Int
    BY <1>1, <1>2 DEF Columns, ScanWrites
  <2>4. \A k \in S \ {line} : Fulfilled'[k] = Fulfilled[k]
    BY <1>2, <2>1 DEF ScanWrites, KeepsFulfilled
  <2>5. Fulfilled'[line] = (IF line \in S THEN Fulfilled[line] ELSE 0) + take /\ take \in Nat
    BY <1>2, <2>1, <2>2 DEF ScanWrites
  <2>6. LinesFor(o, m) = S
    OBVIOUS
  <2> HIDE DEF S
  <2>7. Total(Fulfilled', S \cup {line}) = Total(Fulfilled, S) + take
    <3>1. IsFiniteSet(S) /\ take \in Int
      BY <2>1, <2>5
    <3>2. \A k \in S : Fulfilled[k] \in Int
      BY <2>2
    <3>3. line \in S => Fulfilled'[line] = Fulfilled[line] + take
      BY <2>5
    <3>4. line \notin S => Fulfilled'[line] = take
      BY <2>5
    <3>. QED
      BY <2>4, <3>1, <3>2, <3>3, <3>4, TotalPut
  <2>. QED
    BY <2>1, <2>6, <2>7
<1>. QED
  BY <1>4, <1>5

(* What a scan issues is stock in process, or spent if it is a consumable. *)
LEMMA ScanPlant ==
    ASSUME IInv, NEW o \in Orders, NEW l \in Lots, NEW K \in LineFor(o, l), Scan(o, l, K),
           NEW m \in Materials, m = MaterialOf[l], NEW take, take = Take(items[K], l)
    PROVE  /\ \A n \in Materials : n # m =>
                 Total(wip', RowsOf(n)') = Total(wip, RowsOf(n))
           /\ Total(wip', RowsOf(m)') = Total(wip, RowsOf(m)) + (IF Raw(m) THEN take ELSE 0)
<1>1. Columns
  BY ColumnFacts
<1>2. take \in Nat
  BY ScanTakes DEF Scan
<1>3. CASE Raw(m)
  <2> DEFINE row == RowOf(l, K)
             before == Before(l, K)
  <2>1. wip' = [r \in DOMAIN wip \cup {row} |-> IF r = row THEN before + take ELSE wip[r]]
    <3>1. Raw(MaterialOf[l])
      BY <1>3
    <3>2. wip' = [r \in DOMAIN wip \cup {RowOf(l, K)} |->
                    IF r = RowOf(l, K) THEN Before(l, K) + Take(items[K], l) ELSE wip[r]]
      BY <3>1 DEF Scan, Label, Relabels, RowOf, Before
    <3>. QED
      BY <3>2
  <2>2. /\ before = IF row \in DOMAIN wip THEN wip[row] ELSE 0
        /\ row[1] = l
    BY DEF Before, RowOf
  <2> HIDE DEF row, before
  <2>3. RowsOf(m)' = RowsOf(m) \cup {row} /\ (row \in DOMAIN wip => row \in RowsOf(m))
    BY <2>1, <2>2 DEF RowsOf
  <2>4. \A n : n # m => RowsOf(n)' = RowsOf(n) /\ row \notin RowsOf(n)
    BY <2>1, <2>2 DEF RowsOf
  <2>5. ASSUME NEW n \in Materials, n # m PROVE Total(wip', RowsOf(n)') = Total(wip, RowsOf(n))
    <3> DEFINE S == RowsOf(n)
    <3>1. RowsOf(n)' = S /\ RowsOf(n) = S /\ IsFiniteSet(S)
      BY <1>1, <2>4, <2>5 DEF Columns
    <3>2. \A r \in S : wip'[r] = wip[r]
      BY <1>1, <2>1, <2>4, <2>5 DEF Columns
    <3> HIDE DEF S
    <3>. QED
      BY <3>1, <3>2, TotalEqual
  <2>6. Total(wip', RowsOf(m)') = Total(wip, RowsOf(m)) + take
    <3> DEFINE S == RowsOf(m)
    <3>1. RowsOf(m)' = S \cup {row} /\ RowsOf(m) = S
      BY <2>3
    <3>2. IsFiniteSet(S) /\ S \subseteq DOMAIN wip
      BY <1>1 DEF Columns
    <3>3. \A r \in S : wip[r] \in Int
      BY <1>1, <3>2 DEF Columns
    <3>4. \A r \in S \ {row} : wip'[r] = wip[r]
      BY <2>1, <3>2
    <3>5. row \in S => wip'[row] = wip[row] + take
      BY <2>1, <2>2, <3>2
    <3>6. row \notin S => wip'[row] = take
      BY <1>2, <2>1, <2>2, <2>3
    <3>7. take \in Int
      BY <1>2
    <3> HIDE DEF S
    <3>8. Total(wip', S \cup {row}) = Total(wip, S) + take
      BY <3>2, <3>3, <3>4, <3>5, <3>6, <3>7, TotalPut
    <3>. QED
      BY <3>1, <3>8
  <2>. QED
    BY <1>3, <2>5, <2>6
<1>4. CASE ~Raw(m)
  <2>1. wip' = wip
    BY <1>4 DEF Scan
  <2>2. \A n : RowsOf(n)' = RowsOf(n)
    BY <2>1 DEF RowsOf
  <2>3. Total(wip, RowsOf(m)) \in Nat
    BY <1>1, TotalNat DEF Columns
  <2>. QED
    BY <1>4, <2>1, <2>2, <2>3
<1>. QED
  BY <1>3, <1>4

(* Only a consumable is spent by its scan.                                 *)
LEMMA ScanSpends ==
    ASSUME IInv, IInv', NEW o \in Orders, NEW l \in Lots, NEW K \in LineFor(o, l), Scan(o, l, K),
           NEW m \in Materials, m = MaterialOf[l], NEW take, take = Take(items[K], l)
    PROVE  \A n \in Materials : SpentOn'[n] = SpentOn[n] + (IF n = m /\ ~Raw(m) THEN take ELSE 0)
<1> DEFINE line == Line(l, K)
<1>0. line = Line(l, K)
  OBVIOUS
<1> HIDE DEF line
<1>1. Columns /\ Columns'
  BY ColumnFacts, NextColumns
<1>2. ScanWrites(o, l, K, line, take)
  BY <1>0, ScanColumns
<1>3. /\ \A n : LinesOfMaterial(n)' = IF n = m THEN LinesOfMaterial(m) \cup {line}
                                      ELSE LinesOfMaterial(n)
      /\ K \in LinesFor(o, m) /\ (line \in DOMAIN items => line \in LinesFor(o, m))
      /\ LinesFor(o, m) \subseteq LinesOfMaterial(m)
      /\ \A n : n # m => line \notin LinesOfMaterial(n)
  BY <1>0, ScanGroups
<1>4. LedgerTyped
  BY LedgerValues
<1>5. take \in Nat
  BY <1>2 DEF ScanWrites
<1>6. \A n \in Materials :
         /\ SpentOn[n] \in Nat
         /\ Raw(n) => /\ SpentOn[n] = Total(Spent, RowsOf(n))
                      /\ SpentOn'[n] = Total(Spent', RowsOf(n)')
         /\ ~Raw(n) => /\ SpentOn[n] = Total(Fulfilled, LinesOfMaterial(n))
                       /\ SpentOn'[n] = Total(Fulfilled', LinesOfMaterial(n)')
  BY <1>4 DEF SpentOn, LedgerTyped, Raw
<1>7. ASSUME NEW n \in Materials, Raw(n) PROVE SpentOn'[n] = SpentOn[n]
  <2> DEFINE S == RowsOf(n)
             U == {r \in DOMAIN wip' : MaterialOf[r[1]] = n}
  <2>1. RowsOf(n)' = U /\ RowsOf(n) = S /\ S = {r \in DOMAIN wip : MaterialOf[r[1]] = n}
    BY DEF RowsOf
  <2>2. /\ DOMAIN wip \subseteq DOMAIN wip'
        /\ \A r \in DOMAIN wip : Spent'[r] = Spent[r]
        /\ \A r \in DOMAIN wip' \ DOMAIN wip : Spent'[r] = 0
    <3>1. CASE Raw(m)
      BY <3>1, ScanSpentRows
    <3>2. CASE ~Raw(m)
      <4>1. wip' = wip /\ used' = used
        BY <3>2 DEF Scan
      <4>. QED
        BY <4>1 DEF Spent
    <3>. QED
      BY <3>1, <3>2
  <2>3. /\ IsFiniteSet(U) /\ S \subseteq U
        /\ \A r \in S : Spent[r] \in Int /\ Spent'[r] = Spent[r]
        /\ \A r \in U \ S : Spent'[r] = 0
    BY <1>1, <2>1, <2>2 DEF Columns
  <2> HIDE DEF S, U
  <2>4. Total(Spent', U) = Total(Spent, S)
    BY <2>3, TotalSupport
  <2>. QED
    BY <1>6, <1>7, <2>1, <2>4
<1>8. ASSUME NEW n \in Materials, ~Raw(n), n # m PROVE SpentOn'[n] = SpentOn[n]
  <2> DEFINE S == LinesOfMaterial(n)
  <2>1. LinesOfMaterial(n)' = S /\ LinesOfMaterial(n) = S
    BY <1>3, <1>8
  <2>2. IsFiniteSet(S) /\ S \subseteq DOMAIN items /\ line \notin S
    BY <1>1, <1>3, <1>8 DEF Columns
  <2>3. \A k \in S : Fulfilled'[k] = Fulfilled[k]
    BY <1>2, <2>2 DEF ScanWrites, KeepsFulfilled
  <2> HIDE DEF S
  <2>4. Total(Fulfilled', S) = Total(Fulfilled, S)
    BY <2>2, <2>3, TotalEqual
  <2>. QED
    BY <1>6, <1>8, <2>1, <2>4
<1>9. ASSUME ~Raw(m) PROVE SpentOn'[m] = SpentOn[m] + take
  <2> DEFINE S == LinesOfMaterial(m)
  <2>1. LinesOfMaterial(m)' = S \cup {line} /\ LinesOfMaterial(m) = S
    BY <1>3
  <2>2. /\ IsFiniteSet(S) /\ S \subseteq DOMAIN items
        /\ line \in DOMAIN items => line \in S
    BY <1>1, <1>3 DEF Columns
  <2>3. \A k \in S : Fulfilled[k] \in Int
    BY <1>1, <2>2 DEF Columns
  <2>4. \A k \in S \ {line} : Fulfilled'[k] = Fulfilled[k]
    BY <1>2, <2>2 DEF ScanWrites, KeepsFulfilled
  <2>5. /\ line \in S => Fulfilled'[line] = Fulfilled[line] + take
        /\ line \notin S => Fulfilled'[line] = take
    BY <1>2, <1>5, <2>2 DEF ScanWrites
  <2>6. IsFiniteSet(S) /\ take \in Int
    BY <1>5, <2>2
  <2> HIDE DEF S
  <2>7. Total(Fulfilled', S \cup {line}) = Total(Fulfilled, S) + take
    BY <2>3, <2>4, <2>5, <2>6, TotalPut
  <2>. QED
    BY <1>6, <1>9, <2>1, <2>7
<1>. QED
  BY <1>5, <1>6, <1>7, <1>8, <1>9

(* An order has got all it asked for exactly when every line has.          *)
LEMMA FullyIssued ==
    ASSUME IInv, NEW o \in Orders
    PROVE  /\ \A m \in Materials : IssuedTo[o][m] <= AskedBy[o][m]
           /\ IssuedTo[o] = AskedBy[o] <=> Complete(o, items)
<1>1. Columns /\ LedgerTyped
  BY ColumnFacts, LedgerValues
<1>2. \A m \in Materials : /\ IssuedTo[o][m] = Total(Fulfilled, LinesFor(o, m))
                           /\ AskedBy[o][m] = Total(Requested, LinesFor(o, m))
  BY DEF IssuedTo, AskedBy
<1>3. ASSUME NEW m \in Materials
      PROVE  /\ IssuedTo[o][m] <= AskedBy[o][m]
             /\ IssuedTo[o][m] = AskedBy[o][m] =>
                  \A i \in LinesFor(o, m) : Fulfilled[i] = Requested[i]
             /\ (\A i \in LinesFor(o, m) : Fulfilled[i] = Requested[i]) =>
                  IssuedTo[o][m] = AskedBy[o][m]
  <2> DEFINE S == LinesFor(o, m)
  <2>1. IsFiniteSet(S)
    BY <1>1 DEF Columns
  <2>2. \A i \in S : Fulfilled[i] \in Nat /\ Requested[i] \in Nat /\ Fulfilled[i] <= Requested[i]
    BY <1>1 DEF Columns
  <2>3. S = LinesFor(o, m)
    OBVIOUS
  <2> HIDE DEF S
  <2>4. /\ Total(Fulfilled, S) <= Total(Requested, S)
        /\ Total(Fulfilled, S) = Total(Requested, S) => \A i \in S : Fulfilled[i] = Requested[i]
    BY <2>1, <2>2, TotalAtMost
  <2>5. (\A i \in S : Fulfilled[i] = Requested[i]) => Total(Fulfilled, S) = Total(Requested, S)
    BY <2>1, TotalEqual
  <2>. QED
    BY <1>2, <2>3, <2>4, <2>5
<1>4. \A i \in DOMAIN items : items[i].material \in Materials
  BY DEF IInv, TablesOK, LineType
<1>5. \A i \in DOMAIN items : items[i].order = o =>
         i \in LinesFor(o, items[i].material)
  BY DEF LinesFor, LinesOf
<1>6. \A m \in Materials : \A i \in LinesFor(o, m) : i \in DOMAIN items /\ items[i].order = o
  BY DEF LinesFor, LinesOf
<1>7. \A i \in DOMAIN items : /\ Fulfilled[i] = items[i].fulfilled
                              /\ Requested[i] = items[i].requested
                              /\ Fulfilled[i] \in Nat /\ Requested[i] \in Nat
                              /\ Fulfilled[i] <= Requested[i]
  BY <1>1 DEF Columns, Fulfilled, Requested
<1>8. Complete(o, items) <=>
         \A i \in DOMAIN items : items[i].order = o => Fulfilled[i] = Requested[i]
  BY <1>7 DEF Complete
<1>9. /\ IssuedTo[o] \in [Materials -> Nat] /\ AskedBy[o] \in [Materials -> Nat]
  BY <1>1 DEF LedgerTyped
<1>10. IssuedTo[o] = AskedBy[o] <=> \A m \in Materials : IssuedTo[o][m] = AskedBy[o][m]
  BY <1>9
<1>11. (\A m \in Materials : IssuedTo[o][m] = AskedBy[o][m]) <=> Complete(o, items)
  BY <1>3, <1>4, <1>5, <1>6, <1>8
<1>. QED
  BY <1>3, <1>10, <1>11

(* No order is issued more than it asked for, and it is complete exactly   *)
(* when it was issued all of it.                                           *)
IssuesAgree ==
    \A o \in Orders : /\ \A m \in Materials : IssuedTo[o][m] <= AskedBy[o][m]
                      /\ IssuedTo[o] = AskedBy[o] <=> Complete(o, items)

(* The same after a step that keeps the invariant.                         *)
LEMMA NextIssues == IInv' => IssuesAgree'
<1>1. IInv => IssuesAgree
  BY FullyIssued DEF IssuesAgree
<1>. QED
  BY <1>1, PTL

(* A scan is an issue of the ledger.                                       *)
LEMMA ScanIssues ==
    ASSUME IInv, IInv', NEW o \in Orders, NEW l \in Lots, NEW K \in LineFor(o, l), Scan(o, l, K)
    PROVE  Ledger!LedgerNext
<1> DEFINE m == MaterialOf[l]
           take == Take(items[K], l)
           line == Line(l, K)
           rest == Stock(LotsOf(m) \ {l}, available, isActive)
<1>1. /\ take = Take(items[K], l) /\ line = Line(l, K) /\ m = MaterialOf[l] /\ m \in Materials
      /\ rest = Stock(LotsOf(m) \ {l}, available, isActive)
  BY LotAssumption DEF LotAssumption
<1> HIDE DEF m, take, line, rest
<1>2. LedgerTyped /\ LedgerTyped' /\ IssuesAgree'
  BY LedgerValues, NextValues, NextIssues
<1>3. take \in Nat /\ take > 0 /\ take <= available[l] /\ available[l] \in Nat
  BY <1>1, ScanTakes DEF Scan, IInv, TablesOK
<1>4. orders[o] = "PREPARANDO"
  BY DEF Scan, BeingPrepared
<1>5. AskedBy' = AskedBy
  BY <1>1, ScanAsks
<1>6. IssuedTo' = [IssuedTo EXCEPT ![o][m] = @ + take]
  <2>1. /\ \A p \in Orders, n \in Materials : ~(p = o /\ n = m) =>
              Total(Fulfilled', LinesFor(p, n)') = Total(Fulfilled, LinesFor(p, n))
        /\ Total(Fulfilled', LinesFor(o, m)') = Total(Fulfilled, LinesFor(o, m)) + take
    BY <1>1, ScanDelivers
  <2>2. \A p \in Orders, n \in Materials :
           /\ IssuedTo[p][n] = Total(Fulfilled, LinesFor(p, n))
           /\ IssuedTo'[p][n] = Total(Fulfilled', LinesFor(p, n)')
    BY DEF IssuedTo
  <2>3. \A p \in Orders, n \in Materials :
           IssuedTo'[p][n] = IF p = o /\ n = m THEN IssuedTo[o][m] + take ELSE IssuedTo[p][n]
    BY <2>1, <2>2
  <2>. QED
    BY <1>1, <1>2, <2>3 DEF LedgerTyped
<1>7. /\ InWarehouse' = [InWarehouse EXCEPT ![m] = @ - take]
      /\ take <= InWarehouse[m]
  <2>1. /\ rest \in Nat
        /\ Stock(LotsOf(m), available, isActive) = rest + available[l]
        /\ Stock(LotsOf(m), available', isActive') = rest + (available[l] - take)
    BY <1>1, ScanStock
  <2>2. ASSUME NEW n \in Materials, n # m
        PROVE  Stock(LotsOf(n), available', isActive') = Stock(LotsOf(n), available, isActive)
    <3>1. PICK r : r = Stock(LotsOf(n) \ {l}, available, isActive)
      OBVIOUS
    <3>. QED
      BY <1>1, <2>2, <3>1, ScanStock
  <2>3. \A n \in Materials :
           /\ InWarehouse[n] = Stock(LotsOf(n), available, isActive)
           /\ InWarehouse'[n] = Stock(LotsOf(n), available', isActive')
    BY DEF InWarehouse
  <2>4. InWarehouse'[m] = InWarehouse[m] - take /\ take <= InWarehouse[m]
    BY <1>1, <1>3, <2>1, <2>3
  <2>5. \A n \in Materials : n # m => InWarehouse'[n] = InWarehouse[n]
    BY <2>2, <2>3
  <2>. QED
    BY <1>1, <1>2, <2>4, <2>5 DEF LedgerTyped
<1>8. InPlant' = IF Raw(m) THEN [InPlant EXCEPT ![m] = @ + take] ELSE InPlant
  <2>1. /\ \A n \in Materials : n # m =>
              Total(wip', RowsOf(n)') = Total(wip, RowsOf(n))
        /\ Total(wip', RowsOf(m)') = Total(wip, RowsOf(m)) + (IF Raw(m) THEN take ELSE 0)
    BY <1>1, ScanPlant
  <2>2. \A n \in Materials : /\ InPlant[n] = Total(wip, RowsOf(n))
                             /\ InPlant'[n] = Total(wip', RowsOf(n)')
    BY DEF InPlant
  <2>3. \A n \in Materials : n # m => InPlant'[n] = InPlant[n]
    BY <2>1, <2>2
  <2>4. InPlant'[m] = InPlant[m] + (IF Raw(m) THEN take ELSE 0) /\ InPlant[m] \in Nat
    BY <1>1, <1>2, <2>1, <2>2 DEF LedgerTyped
  <2>. QED
    BY <1>1, <1>2, <2>3, <2>4 DEF LedgerTyped
<1>9. SpentOn' = IF Raw(m) THEN SpentOn ELSE [SpentOn EXCEPT ![m] = @ + take]
  <2>1. \A n \in Materials : SpentOn'[n] = SpentOn[n] + (IF n = m /\ ~Raw(m) THEN take ELSE 0)
    BY <1>1, ScanSpends
  <2>2. \A n \in Materials : SpentOn[n] \in Nat
    BY <1>2 DEF LedgerTyped
  <2>3. \A n \in Materials :
           SpentOn'[n] = IF n = m /\ ~Raw(m) THEN SpentOn[m] + take ELSE SpentOn[n]
    BY <2>1, <2>2
  <2>. QED
    BY <1>1, <1>2, <2>3 DEF LedgerTyped
<1>10. orders' = [orders EXCEPT ![o] = IF IssuedTo'[o] = AskedBy[o] THEN "SURTIDA" ELSE @]
  <2>1. orders' = [orders EXCEPT ![o] = IF Complete(o, items') THEN "SURTIDA" ELSE @]
    BY DEF Scan
  <2>2. IssuedTo'[o] = AskedBy'[o] <=> Complete(o, items')
    BY <1>2 DEF IssuesAgree, Complete
  <2>. QED
    BY <1>5, <2>1, <2>2
<1>11. IssuedTo[o][m] + take <= AskedBy[o][m]
  <2>1. IssuedTo'[o][m] <= AskedBy'[o][m]
    BY <1>1, <1>2 DEF IssuesAgree
  <2>2. IssuedTo'[o][m] = IssuedTo[o][m] + take
    BY <1>1, <1>2, <1>6 DEF LedgerTyped
  <2>. QED
    BY <1>5, <2>1, <2>2
<1>12. take \in 1..InWarehouse[m]
  BY <1>1, <1>2, <1>3, <1>7 DEF LedgerTyped
<1>13. Ledger!Issue(o, m, take)
  BY <1>4, <1>5, <1>6, <1>7, <1>8, <1>9, <1>10, <1>11, <1>12 DEF Ledger!Issue, Raw
<1>. QED
  BY <1>1, <1>12, <1>13 DEF Ledger!LedgerNext

(* What a consumption of material m takes from each row, and from the      *)
(* child QR of that row.                                                   *)
ConsumptionWrites(m, take, rows) ==
    /\ rows # {} /\ rows \subseteq RowsOf(m)
    /\ \A r \in rows : take[r] \in Nat /\ take[r] > 0 /\ take[r] <= wip[r]
    /\ DOMAIN wip' = DOMAIN wip
    /\ \A r \in rows : wip'[r] = wip[r] - take[r]
    /\ \A r \in DOMAIN wip \ rows : wip'[r] = wip[r]
    /\ \A r \in rows : r[2] \in DOMAIN used /\ used'[r[2]] = used[r[2]] + take[r]
    /\ \A q \in DOMAIN used : (\A r \in rows : r[2] # q) => used'[q] = used[q]

(* A consumption writes that: no two rows share a child QR.                *)
LEMMA ConsumptionRows ==
    ASSUME IInv, NEW m \in RawMaterials, NEW take \in [WipRows(m) -> 0..MaxRequest],
           ConsumeWip(m, take), NEW rows, rows = {r \in WipRows(m) : take[r] > 0}
    PROVE  ConsumptionWrites(m, take, rows)
<1> DEFINE labels == {r[2] : r \in rows}
           taken(q) == take[CHOOSE r \in rows : r[2] = q]
<1>1. /\ used \in [DOMAIN qrs -> Nat] /\ DOMAIN trace \subseteq DOMAIN qrs
      /\ DOMAIN wip \subseteq Lots \X DOMAIN trace
  BY DEF IInv, TablesOK
<1>2. rows \subseteq DOMAIN wip /\ rows \subseteq RowsOf(m) /\ rows \subseteq WipRows(m)
  BY DEF WipRows, RowsOf
<1>3. \A r \in rows : take[r] \in Nat /\ take[r] > 0
  BY <1>2, RequestAssumption DEF RequestAssumption
<1>4. ASSUME NEW r \in rows PROVE taken(r[2]) = take[r]
  <2>1. \E s \in rows : s[2] = r[2]
    OBVIOUS
  <2>2. (CHOOSE s \in rows : s[2] = r[2]) = r
    BY <1>2, <2>1, LabelHasOneRow
  <2>. QED
    BY <2>2
<1>5. /\ rows # {} /\ \A r \in rows : take[r] <= wip[r]
      /\ wip' = [r \in DOMAIN wip |-> IF r \in rows THEN wip[r] - take[r] ELSE wip[r]]
      /\ used' = [q \in DOMAIN used |-> IF q \in labels THEN used[q] + taken(q) ELSE used[q]]
  BY DEF ConsumeWip
<1>6. ASSUME NEW r \in rows
      PROVE  r[2] \in DOMAIN used /\ used'[r[2]] = used[r[2]] + take[r]
  <2>1. r[2] \in DOMAIN used /\ r[2] \in labels
    BY <1>1, <1>2
  <2>2. used'[r[2]] = used[r[2]] + taken(r[2])
    BY <1>5, <2>1
  <2> HIDE DEF taken
  <2>. QED
    BY <1>4, <2>1, <2>2
<1>7. \A q \in DOMAIN used : (\A r \in rows : r[2] # q) => used'[q] = used[q]
  BY <1>5
<1>8. /\ DOMAIN wip' = DOMAIN wip
      /\ \A r \in rows : wip'[r] = wip[r] - take[r]
      /\ \A r \in DOMAIN wip \ rows : wip'[r] = wip[r]
  BY <1>2, <1>5
<1>. QED
  BY <1>2, <1>3, <1>5, <1>6, <1>7, <1>8 DEF ConsumptionWrites

(* The plant has less of the material, by what the rows gave.              *)
LEMMA ConsumptionPlant ==
    ASSUME IInv, NEW m \in Materials, NEW take, NEW rows, ConsumptionWrites(m, take, rows)
    PROVE  /\ Total(take, rows) \in Nat /\ Total(take, rows) > 0
           /\ Total(take, rows) <= InPlant[m]
           /\ InPlant' = [InPlant EXCEPT ![m] = @ - Total(take, rows)]
<1>1. Columns /\ LedgerTyped
  BY ColumnFacts, LedgerValues
<1>2. /\ rows # {} /\ rows \subseteq RowsOf(m)
      /\ \A r \in rows : take[r] \in Nat /\ take[r] > 0 /\ take[r] <= wip[r]
      /\ DOMAIN wip' = DOMAIN wip
      /\ \A r \in rows : wip'[r] = wip[r] - take[r]
      /\ \A r \in DOMAIN wip \ rows : wip'[r] = wip[r]
  BY DEF ConsumptionWrites
<1> DEFINE S == RowsOf(m)
           gone == [r \in S |-> IF r \in rows THEN take[r] ELSE 0]
<1>3. RowsOf(m) = S /\ IsFiniteSet(S) /\ S \subseteq DOMAIN wip /\ \A r \in S : wip[r] \in Nat
  BY <1>1 DEF Columns
<1>4. \A n : RowsOf(n)' = RowsOf(n)
  BY <1>2 DEF RowsOf
<1>5. /\ \A r \in S : gone[r] \in Nat /\ wip[r] = wip'[r] + gone[r] /\ wip'[r] \in Nat
      /\ \A r \in rows : gone[r] = take[r]
      /\ \A r \in S \ rows : gone[r] = 0
  BY <1>2, <1>3
<1> HIDE DEF S, gone
<1>6. rows \subseteq S /\ IsFiniteSet(rows)
  BY <1>2, <1>3, FS_Subset
<1>7. Total(gone, S) = Total(take, rows)
  <2>1. \A r \in rows : take[r] \in Int /\ gone[r] = take[r]
    BY <1>2, <1>5
  <2>. QED
    BY <1>3, <1>5, <1>6, <2>1, TotalSupport
<1>8. Total(wip, S) = Total(wip', S) + Total(gone, S)
  <2>1. \A r \in S : wip'[r] \in Int /\ gone[r] \in Int /\ wip[r] = wip'[r] + gone[r]
    BY <1>5
  <2>. QED
    BY <1>3, <2>1, TotalSum
<1>9. Total(wip', S) \in Nat /\ Total(take, rows) \in Nat
  <2>1. Total(wip', S) \in Nat
    BY <1>3, <1>5, TotalNat
  <2>2. Total(take, rows) \in Nat
    BY <1>2, <1>6, TotalNat
  <2>. QED
    BY <2>1, <2>2
<1>10. Total(take, rows) > 0
  <2>1. PICK r \in rows : TRUE
    BY <1>2
  <2>2. Total(take, rows) = take[r] + Total(take, rows \ {r})
    <3>1. \A s \in rows : take[s] \in Int
      BY <1>2
    <3>. QED
      BY <1>6, <3>1, TotalRemove
  <2>3. Total(take, rows \ {r}) \in Nat
    <3>1. IsFiniteSet(rows \ {r}) /\ \A s \in rows \ {r} : take[s] \in Nat
      BY <1>2, <1>6, FS_Subset
    <3> DEFINE U == rows \ {r}
    <3>2. IsFiniteSet(U) /\ \A s \in U : take[s] \in Nat
      BY <3>1
    <3> HIDE DEF U
    <3>3. Total(take, U) \in Nat
      BY <3>2, TotalNat
    <3>. QED
      BY <3>3 DEF U
  <2>. QED
    BY <1>2, <2>2, <2>3
<1>11. \A n \in Materials : /\ InPlant[n] = Total(wip, RowsOf(n))
                            /\ InPlant'[n] = Total(wip', RowsOf(n)')
  BY DEF InPlant
<1>12. ASSUME NEW n \in Materials, n # m PROVE InPlant'[n] = InPlant[n]
  <2> DEFINE V == RowsOf(n)
  <2>1. IsFiniteSet(V) /\ RowsOf(n) = V
    BY <1>1 DEF Columns
  <2>2. \A r \in V : r \in DOMAIN wip \ rows
    BY <1>2, <1>12 DEF RowsOf
  <2>3. \A r \in V : wip'[r] = wip[r]
    BY <1>2, <2>2
  <2> HIDE DEF V
  <2>4. Total(wip', V) = Total(wip, V)
    BY <2>1, <2>3, TotalEqual
  <2>. QED
    BY <1>4, <1>11, <2>1, <2>4
<1>13. InPlant'[m] = InPlant[m] - Total(take, rows) /\ Total(take, rows) <= InPlant[m]
  BY <1>3, <1>4, <1>7, <1>8, <1>9, <1>11
<1>14. InPlant' \in [Materials -> Int] /\ DOMAIN InPlant' = Materials
  <2>1. \A n \in Materials : InPlant'[n] \in Int
    BY <1>1, <1>9, <1>12, <1>13 DEF LedgerTyped
  <2>2. InPlant' = [n \in Materials |-> InPlant'[n]]
    BY DEF InPlant
  <2>. QED
    BY <2>1, <2>2
<1>. QED
  BY <1>1, <1>9, <1>10, <1>12, <1>13, <1>14 DEF LedgerTyped

(* What a consumption takes from the rows is what was spent under their    *)
(* labels: no other row has one of those labels.                           *)
LEMMA ConsumptionSpends ==
    ASSUME LedgerInv, NEW m \in Materials, Raw(m), NEW take, NEW rows,
           ConsumptionWrites(m, take, rows), items' = items
    PROVE  SpentOn' = [SpentOn EXCEPT ![m] = @ + Total(take, rows)]
<1>1. Columns /\ LedgerTyped /\ IInv
  BY ColumnFacts, LedgerValues DEF LedgerInv
<1>2. /\ rows \subseteq RowsOf(m) /\ DOMAIN wip' = DOMAIN wip
      /\ \A r \in rows : take[r] \in Nat
      /\ \A r \in rows : r[2] \in DOMAIN used /\ used'[r[2]] = used[r[2]] + take[r]
      /\ \A q \in DOMAIN used : (\A r \in rows : r[2] # q) => used'[q] = used[q]
  BY DEF ConsumptionWrites
<1> DEFINE S == RowsOf(m)
           more == [r \in S |-> IF r \in rows THEN take[r] ELSE 0]
<1>3. RowsOf(m) = S /\ IsFiniteSet(S) /\ S \subseteq DOMAIN wip
  BY <1>1 DEF Columns
<1>4. \A r \in DOMAIN wip : /\ Spent[r] = used[r[2]] /\ Spent[r] \in Nat
                            /\ Spent'[r] = used'[r[2]] /\ r[2] \in DOMAIN used
  BY <1>1, <1>2 DEF Spent, Columns, IInv, TablesOK
<1>5. ASSUME NEW r \in DOMAIN wip \ rows PROVE Spent'[r] = Spent[r]
  <2>1. \A s \in rows : s[2] # r[2]
    BY <1>1, <1>2, <1>3, LabelHasOneRow
  <2>. QED
    BY <1>2, <1>4, <2>1
<1>6. /\ \A r \in S : more[r] \in Int /\ Spent[r] \in Int /\ Spent'[r] = Spent[r] + more[r]
      /\ \A r \in rows : more[r] = take[r]
      /\ \A r \in S \ rows : more[r] = 0
  <2>1. \A r \in rows : r \in DOMAIN wip /\ Spent'[r] = Spent[r] + take[r]
    BY <1>2, <1>3, <1>4
  <2>. QED
    BY <1>2, <1>3, <1>4, <1>5, <2>1
<1>7. /\ \A n : RowsOf(n)' = RowsOf(n) /\ LinesOfMaterial(n)' = LinesOfMaterial(n)
      /\ Fulfilled' = Fulfilled
  BY <1>2 DEF RowsOf, LinesOfMaterial, Fulfilled
<1> HIDE DEF S, more
<1>8. rows \subseteq S /\ IsFiniteSet(rows)
  BY <1>2, <1>3, FS_Subset
<1>9. Total(more, S) = Total(take, rows)
  <2>1. \A r \in rows : take[r] \in Int /\ more[r] = take[r]
    BY <1>2, <1>6
  <2>. QED
    BY <1>3, <1>6, <1>8, <2>1, TotalSupport
<1>10. Total(Spent', S) = Total(Spent, S) + Total(more, S)
  BY <1>3, <1>6, TotalSum
<1>11. \A n \in Materials :
         /\ Raw(n) => /\ SpentOn[n] = Total(Spent, RowsOf(n))
                      /\ SpentOn'[n] = Total(Spent', RowsOf(n)')
         /\ ~Raw(n) => /\ SpentOn[n] = Total(Fulfilled, LinesOfMaterial(n))
                       /\ SpentOn'[n] = Total(Fulfilled', LinesOfMaterial(n)')
  BY DEF SpentOn, Raw
<1>12. SpentOn'[m] = SpentOn[m] + Total(take, rows)
  BY <1>3, <1>7, <1>9, <1>10, <1>11
<1>13. ASSUME NEW n \in Materials, n # m PROVE SpentOn'[n] = SpentOn[n]
  <2> DEFINE V == RowsOf(n)
  <2>1. IsFiniteSet(V) /\ RowsOf(n) = V
    BY <1>1 DEF Columns
  <2>2. \A r \in V : r \in DOMAIN wip \ rows
    BY <1>2, <1>13 DEF RowsOf
  <2>3. \A r \in V : Spent'[r] = Spent[r]
    BY <1>5, <2>2
  <2> HIDE DEF V
  <2>4. Total(Spent', V) = Total(Spent, V)
    BY <2>1, <2>3, TotalEqual
  <2>. QED
    BY <1>7, <1>11, <2>1, <2>4
<1>14. SpentOn' = [n \in Materials |-> SpentOn'[n]] /\ SpentOn = [n \in Materials |-> SpentOn[n]]
  BY DEF SpentOn
<1>. QED
  BY <1>12, <1>13, <1>14

(* A consumption is a step of the ledger.                                  *)
LEMMA ConsumptionSpendsStock ==
    ASSUME LedgerInv, IInv', NEW m \in RawMaterials,
           NEW take \in [WipRows(m) -> 0..MaxRequest], ConsumeWip(m, take)
    PROVE  Ledger!LedgerNext
<1> DEFINE rows == {r \in WipRows(m) : take[r] > 0}
           q == Total(take, rows)
<1>1. rows = {r \in WipRows(m) : take[r] > 0} /\ q = Total(take, rows)
  OBVIOUS
<1> HIDE DEF rows, q
<1>2. m \in Materials /\ Raw(m) /\ IInv
  BY LotAssumption DEF LotAssumption, Raw, LedgerInv
<1>3. ConsumptionWrites(m, take, rows)
  BY <1>1, <1>2, ConsumptionRows
<1>4. UNCHANGED <<available, isActive, orders, items>>
  BY DEF ConsumeWip
<1>5. /\ q \in Nat /\ q > 0 /\ q <= InPlant[m]
      /\ InPlant' = [InPlant EXCEPT ![m] = @ - q]
  BY <1>1, <1>2, <1>3, ConsumptionPlant
<1>6. SpentOn' = [SpentOn EXCEPT ![m] = @ + q]
  BY <1>1, <1>2, <1>3, <1>4, ConsumptionSpends
<1>7. AskedBy' = AskedBy /\ IssuedTo' = IssuedTo /\ InWarehouse' = InWarehouse
  <2>1. \A o, n : LinesFor(o, n)' = LinesFor(o, n)
    BY <1>4 DEF LinesFor, LinesOf
  <2>2. Requested' = Requested /\ Fulfilled' = Fulfilled
    BY <1>4 DEF Requested, Fulfilled
  <2>. QED
    BY <1>4, <2>1, <2>2 DEF AskedBy, IssuedTo, InWarehouse
<1>8. InPlant[m] \in Nat
  BY <1>2, LedgerValues DEF LedgerTyped
<1>9. q \in 1..InPlant[m]
  BY <1>5, <1>8
<1>10. Ledger!Spend(m, q)
  BY <1>4, <1>5, <1>6, <1>7, <1>9 DEF Ledger!Spend
<1>. QED
  BY <1>2, <1>9, <1>10 DEF Ledger!LedgerNext

(* A status request labels lines and writes the phase of one order.        *)
LEMMA StatusWriteLabels ==
    ASSUME IInv, NEW c \in Clerks, StatusWrite(c)
    PROVE  UNCHANGED <<AskedBy, IssuedTo, InWarehouse, InPlant, SpentOn>>
<1> DEFINE bare == LinesToLabel(desk[c])
           labels == {nextId + i : i \in bare}
<1>1. /\ nextId \in Nat /\ DOMAIN items \subseteq 1..nextId
      /\ items \in [DOMAIN items -> LineType]
      /\ DOMAIN qrs \subseteq 1..nextId /\ DOMAIN used = DOMAIN qrs
      /\ DOMAIN wip \subseteq Lots \X DOMAIN trace /\ DOMAIN trace \subseteq DOMAIN qrs
  BY DEF IInv, TablesOK
<1>2. \A i \in bare : i \in DOMAIN items
  BY DEF LinesToLabel, IInv, BareKnown
<1>3. /\ items' = [i \in DOMAIN items |->
                     IF i \in bare THEN [items[i] EXCEPT !.child = nextId + i]
                     ELSE items[i]]
      /\ used' = [q \in DOMAIN used \cup labels |->
                     IF q \in labels THEN 0 ELSE used[q]]
      /\ UNCHANGED <<available, isActive, wip, trace>>
  BY DEF StatusWrite
<1> HIDE DEF bare
<1>4. ASSUME NEW i \in DOMAIN items
      PROVE  /\ items'[i].order = items[i].order
             /\ items'[i].material = items[i].material
             /\ items'[i].requested = items[i].requested
             /\ items'[i].fulfilled = items[i].fulfilled
  <2>1. items'[i] \in {items[i], [items[i] EXCEPT !.child = nextId + i]}
    BY <1>3
  <2>2. items[i] \in LineType
    BY <1>1
  <2>. QED
    BY <2>1, <2>2 DEF LineType
<1>5. \A q \in DOMAIN used : q \notin labels
  BY <1>1, <1>2
<1>6. DOMAIN items' = DOMAIN items
  BY <1>3
<1>7. \A r \in DOMAIN wip : r[2] \in DOMAIN used
  BY <1>1
<1> HIDE DEF labels
<1>8. \A r \in DOMAIN wip : used'[r[2]] = used[r[2]]
  BY <1>3, <1>5, <1>7
<1>9. Spent' = Spent
  BY <1>3, <1>8 DEF Spent
<1>. QED
  BY <1>3, <1>4, <1>6, <1>9, SameSums

(* The orders' other transactions leave the sums as they are.              *)
LEMMA DeskKeepsSums ==
    ASSUME UNCHANGED <<available, isActive, items, wip, used>>
    PROVE  UNCHANGED <<AskedBy, IssuedTo, InWarehouse, InPlant, SpentOn>>
<1>1. Spent' = Spent
  BY DEF Spent
<1>. QED
  BY <1>1, SameSums

(* The lines of a new order, one for each lot of its allocation.           *)
NewLines(o, take, lots, new) ==
    /\ new \cap DOMAIN items = {}
    /\ DOMAIN items' = DOMAIN items \cup new
    /\ \A i \in DOMAIN items : items'[i] = items[i]
    /\ \A l \in lots : /\ nextId + l \in new
                       /\ items'[nextId + l].order = o
                       /\ items'[nextId + l].material = MaterialOf[l]
                       /\ items'[nextId + l].lote = l
                       /\ items'[nextId + l].requested = take[l]
                       /\ items'[nextId + l].fulfilled = 0
    /\ \A i \in new : \E l \in lots : i = nextId + l
    /\ wip' = wip /\ Spent' = Spent

(* createOrder writes those lines, with labels nothing was consumed from.  *)
LEMMA OrderLines ==
    ASSUME IInv, NEW o \in Orders, NEW take \in Allocations, CreateOrder(o, take),
           NEW lots, lots = {l \in Lots : take[l] > 0},
           NEW new, new = {nextId + l : l \in lots}
    PROVE  NewLines(o, take, lots, new)
<1> DEFINE labels == {i \in new : Raw(MaterialOf[i - nextId])}
           line(i) == [order |-> o, material |-> MaterialOf[i - nextId],
                       lote |-> i - nextId, requested |-> take[i - nextId],
                       fulfilled |-> 0,
                       child |-> IF Raw(MaterialOf[i - nextId]) THEN i ELSE NoQr]
<1>1. /\ nextId \in Nat /\ DOMAIN items \subseteq 1..nextId
      /\ DOMAIN qrs \subseteq 1..nextId /\ DOMAIN used = DOMAIN qrs
      /\ DOMAIN wip \subseteq Lots \X DOMAIN trace /\ DOMAIN trace \subseteq DOMAIN qrs
  BY DEF IInv, TablesOK
<1>2. NumLots \in Nat
  BY LotAssumption DEF LotAssumption
<1>3. \A l \in lots : l \in Nat /\ l > 0 /\ (nextId + l) - nextId = l
  BY <1>1, <1>2 DEF Lots
<1>4. /\ items' = [i \in DOMAIN items \cup new |->
                     IF i \in new THEN line(i) ELSE items[i]]
      /\ used' = [q \in DOMAIN used \cup labels |->
                     IF q \in labels THEN 0 ELSE used[q]]
      /\ wip' = wip
  BY DEF CreateOrder
<1>5. \A i \in new : i > nextId /\ \E l \in lots : i = nextId + l
  BY <1>1, <1>3
<1>6. new \cap DOMAIN items = {} /\ new \cap DOMAIN used = {} /\ labels \subseteq new
  BY <1>1, <1>5
<1>7. ASSUME NEW i \in new
      PROVE  /\ items'[i].order = o /\ items'[i].material = MaterialOf[i - nextId]
             /\ items'[i].lote = i - nextId /\ items'[i].requested = take[i - nextId]
             /\ items'[i].fulfilled = 0
             /\ items'[i].child = IF i \in labels THEN i ELSE NoQr
  BY <1>4
<1>8. DOMAIN items' = DOMAIN items \cup new /\ \A i \in DOMAIN items : items'[i] = items[i]
  BY <1>4, <1>6
<1>9. ASSUME NEW l \in lots
      PROVE  /\ nextId + l \in new
             /\ items'[nextId + l].order = o /\ items'[nextId + l].material = MaterialOf[l]
             /\ items'[nextId + l].lote = l /\ items'[nextId + l].requested = take[l]
             /\ items'[nextId + l].fulfilled = 0
  <2>1. nextId + l \in new /\ (nextId + l) - nextId = l
    BY <1>3
  <2>. QED
    BY <1>7, <2>1
<1> HIDE DEF labels
<1>10. \A r \in DOMAIN wip : r[2] \in DOMAIN used
  BY <1>1
<1>11. \A r \in DOMAIN wip : used'[r[2]] = used[r[2]]
  BY <1>4, <1>6, <1>10
<1>12. Spent' = Spent
  BY <1>4, <1>11 DEF Spent
<1>. QED
  BY <1>4, <1>5, <1>6, <1>8, <1>9, <1>12 DEF NewLines

(* The quantity of each material that an allocation asks for.              *)
Wanted(take) == [m \in Materials |-> Total(take, LotsOf(m))]

(* There are at most NumLots lots.                                         *)
LEMMA LotsFinite ==
    ASSUME NEW S \in SUBSET Lots
    PROVE  IsFiniteSet(S) /\ Cardinality(S) \in Nat /\ Cardinality(S) <= NumLots
<1>1. NumLots \in Nat
  BY LotAssumption DEF LotAssumption
<1>2. IsFiniteSet(1..NumLots) /\ Cardinality(1..NumLots) = NumLots
  <2>1. 1 \in Int /\ NumLots \in Int
    BY <1>1
  <2>2. IsFiniteSet(1..NumLots)
    BY <2>1, FS_Interval
  <2>3. Cardinality(1..NumLots) = IF 1 > NumLots THEN 0 ELSE NumLots - 1 + 1
    BY <2>1, FS_Interval
  <2>. QED
    BY <1>1, <2>2, <2>3
<1>3. Lots = 1..NumLots
  BY DEF Lots
<1>4. IsFiniteSet(S) /\ Cardinality(S) <= Cardinality(1..NumLots)
  BY <1>2, <1>3, FS_Subset
<1>5. Cardinality(S) \in Nat
  BY <1>4, FS_CardinalityType
<1>. QED
  BY <1>2, <1>4, <1>5

(* An allocation never asks for more than the lots hold, nor for more than *)
(* each lot's bound allows.                                                *)
LEMMA AllocationServed ==
    ASSUME IInv, NEW take \in Allocations
    PROVE  /\ Wanted(take) \in [Materials -> 0..(MaxRequest * NumLots)]
           /\ \A m \in Materials : Wanted(take)[m] <= InWarehouse[m]
<1>1. /\ MaxRequest \in Nat /\ NumLots \in Nat
      /\ available \in [Lots -> Nat] /\ isActive \in [Lots -> BOOLEAN]
  BY LotAssumption, RequestAssumption DEF LotAssumption, RequestAssumption, IInv, TablesOK
<1>2. \A l \in Lots : /\ take[l] \in Nat /\ take[l] <= MaxRequest
                      /\ take[l] <= available[l]
                      /\ ~isActive[l] => take[l] = 0
  <2>1. take \in [Lots -> 0..MaxRequest] /\ \A l \in Lots : take[l] <= Offer(l)
    BY DEF Allocations
  <2>. QED
    BY <1>1, <2>1 DEF Offer, Smaller
<1>3. ASSUME NEW m \in Materials
      PROVE  /\ Total(take, LotsOf(m)) \in Nat
             /\ Total(take, LotsOf(m)) <= MaxRequest * NumLots
             /\ Total(take, LotsOf(m)) <= Stock(LotsOf(m), available, isActive)
  <2> DEFINE S == LotsOf(m)
             A == {l \in S : isActive[l]}
  <2>1. S \subseteq Lots /\ A \subseteq S /\ LotsOf(m) = S
    BY DEF LotsOf
  <2>2. Stock(S, available, isActive) = Total(available, A) /\ \A l \in S \ A : take[l] = 0
    BY <1>2, <2>1 DEF Stock
  <2> HIDE DEF S, A
  <2>3. IsFiniteSet(S) /\ IsFiniteSet(A) /\ Cardinality(S) \in Nat /\ Cardinality(S) <= NumLots
    BY <2>1, LotsFinite, FS_Subset
  <2>4. Total(take, S) \in Nat
    <3>1. \A l \in S : take[l] \in Nat
      BY <1>2, <2>1
    <3>. QED
      BY <2>3, <3>1, TotalNat
  <2>5. Total(take, S) <= MaxRequest * Cardinality(S)
    <3>1. \A l \in S : take[l] \in Nat /\ take[l] <= MaxRequest
      BY <1>2, <2>1
    <3>. QED
      BY <1>1, <2>3, <3>1, TotalBound
  <2>6. MaxRequest * Cardinality(S) <= MaxRequest * NumLots
    BY <1>1, <2>3
  <2>7. Total(take, S) = Total(take, A)
    <3>1. \A l \in A : take[l] \in Int /\ take[l] = take[l]
      BY <1>2, <2>1
    <3>. QED
      BY <2>1, <2>2, <2>3, <3>1, TotalSupport
  <2>8. Total(take, A) <= Total(available, A)
    <3>1. \A l \in A : take[l] \in Nat /\ available[l] \in Nat /\ take[l] <= available[l]
      BY <1>1, <1>2, <2>1
    <3>. QED
      BY <2>3, <3>1, TotalAtMost
  <2>9. Total(take, S) <= MaxRequest * NumLots
    <3>1. MaxRequest * NumLots \in Int /\ MaxRequest * Cardinality(S) \in Int
      BY <1>1, <2>3
    <3>. QED
      BY <2>4, <2>5, <2>6, <3>1
  <2>. QED
    BY <2>1, <2>2, <2>4, <2>7, <2>8, <2>9
<1>4. MaxRequest * NumLots \in Nat
  BY <1>1
<1>. QED
  BY <1>3, <1>4 DEF Wanted, InWarehouse

(* The new lines ask for the allocation and have received nothing.         *)
LEMMA OrderSums ==
    ASSUME LedgerInv, IInv', NEW o \in Orders, orders[o] = "NONE",
           NEW take \in [Lots -> Nat], NEW lots, lots = {l \in Lots : take[l] > 0},
           NEW new, NewLines(o, take, lots, new)
    PROVE  /\ AskedBy' = [AskedBy EXCEPT ![o] = Wanted(take)]
           /\ IssuedTo' = IssuedTo
           /\ SpentOn' = SpentOn
<1>1. Columns /\ Columns'
  BY ColumnFacts, NextColumns DEF LedgerInv
<1>2. nextId \in Nat /\ lots \subseteq Nat
  BY LotAssumption DEF LedgerInv, IInv, TablesOK, LotAssumption, Lots
<1>3. /\ new \cap DOMAIN items = {}
      /\ DOMAIN items' = DOMAIN items \cup new
      /\ \A i \in DOMAIN items : items'[i] = items[i]
      /\ \A l \in lots : /\ nextId + l \in new
                         /\ items'[nextId + l].order = o
                         /\ items'[nextId + l].material = MaterialOf[l]
                         /\ items'[nextId + l].lote = l
                         /\ items'[nextId + l].requested = take[l]
                         /\ items'[nextId + l].fulfilled = 0
      /\ \A i \in new : \E l \in lots : i = nextId + l
      /\ wip' = wip /\ Spent' = Spent
  BY DEF NewLines
<1>4. /\ \A i \in DOMAIN items : Requested'[i] = Requested[i] /\ Fulfilled'[i] = Fulfilled[i]
      /\ \A i \in new : Fulfilled'[i] = 0
      /\ \A l \in lots : Requested'[nextId + l] = take[l]
  BY <1>3 DEF Requested, Fulfilled
<1>5. \A i \in new : items'[i].order = o
  BY <1>3
<1>6. ASSUME NEW p \in Orders, p # o, NEW n \in Materials
      PROVE  /\ Total(Requested', LinesFor(p, n)') = Total(Requested, LinesFor(p, n))
             /\ Total(Fulfilled', LinesFor(p, n)') = Total(Fulfilled, LinesFor(p, n))
  <2> DEFINE S == LinesFor(p, n)
  <2>1. LinesFor(p, n)' = S
    BY <1>3, <1>5, <1>6 DEF LinesFor, LinesOf
  <2>2. IsFiniteSet(S) /\ S \subseteq DOMAIN items /\ LinesFor(p, n) = S
    BY <1>1 DEF Columns
  <2> HIDE DEF S
  <2>3. \A i \in S : Requested'[i] = Requested[i] /\ Fulfilled'[i] = Fulfilled[i]
    BY <1>4, <2>2
  <2>4. Total(Requested', S) = Total(Requested, S)
    BY <2>2, <2>3, TotalEqual
  <2>5. Total(Fulfilled', S) = Total(Fulfilled, S)
    BY <2>2, <2>3, TotalEqual
  <2>. QED
    BY <2>1, <2>2, <2>4, <2>5
<1>7. ASSUME NEW m \in Materials
      PROVE  /\ Total(Requested', LinesFor(o, m)') = Total(take, LotsOf(m))
             /\ Total(Fulfilled', LinesFor(o, m)') = Total(Fulfilled, LinesFor(o, m))
  <2> DEFINE part == {l \in lots : MaterialOf[l] = m}
             line == [l \in part |-> nextId + l]
             S == {line[l] : l \in part}
             asked == [l \in part |-> Requested'[line[l]]]
  <2>1. LinesFor(o, m) = {}
    BY DEF LinesFor, LinesOf, LedgerInv, OrdersExist
  <2>2. LinesFor(o, m)' = S
    <3>1. \A i \in DOMAIN items : items[i].order # o
      BY DEF LedgerInv, OrdersExist
    <3>2. \A i \in LinesFor(o, m)' : i \in new /\ items'[i].material = m
      BY <1>3, <3>1 DEF LinesFor, LinesOf
    <3>3. LinesFor(o, m)' \subseteq S
      BY <1>3, <3>2
    <3>4. S \subseteq LinesFor(o, m)'
      <4> SUFFICES ASSUME NEW l \in part PROVE line[l] \in LinesFor(o, m)'
        OBVIOUS
      <4>1. /\ nextId + l \in DOMAIN items' /\ items'[nextId + l].order = o
            /\ items'[nextId + l].material = m
        BY <1>3
      <4>2. line[l] = nextId + l
        OBVIOUS
      <4>. QED
        BY <4>1, <4>2 DEF LinesFor, LinesOf
    <3>. QED
      BY <3>3, <3>4
  <2>3. /\ part \subseteq LotsOf(m) /\ LotsOf(m) \subseteq Lots
        /\ \A l \in part : take[l] \in Nat
        /\ \A l \in LotsOf(m) \ part : take[l] = 0
    BY DEF LotsOf
  <2>4. IsFiniteSet(part) /\ IsFiniteSet(LotsOf(m))
    BY <2>3, LotsFinite, FS_Subset
  <2>5. /\ \A l \in part : Requested'[line[l]] = take[l]
        /\ \A k, l \in part : line[k] = line[l] => k = l
        /\ \A l \in part : Fulfilled'[line[l]] = 0
    BY <1>2, <1>3, <1>4
  <2>6. \A l \in part : asked[l] = take[l]
    BY <2>5
  <2>7. S = {line[l] : l \in part} /\ asked = [l \in part |-> Requested'[line[l]]]
    OBVIOUS
  <2>8. \A i \in S : Fulfilled'[i] = 0
    <3> SUFFICES ASSUME NEW i \in S PROVE Fulfilled'[i] = 0
      OBVIOUS
    <3>1. PICK l \in part : i = line[l]
      OBVIOUS
    <3> HIDE DEF part, line, S
    <3>. QED
      BY <2>5, <3>1
  <2> HIDE DEF part, line, S, asked
  <2>9. IsFiniteSet({line[l] : l \in part})
        /\ Total(Requested', {line[l] : l \in part})
             = Total([l \in part |-> Requested'[line[l]]], part)
    <3>1. \A l \in part : Requested'[line[l]] \in Int
      BY <2>3, <2>5
    <3>. QED
      BY <2>4, <2>5, <3>1, TotalImage
  <2>10. Total(asked, part) = Total(take, part)
    BY <2>4, <2>6, TotalEqual
  <2>11. Total(take, LotsOf(m)) = Total(take, part)
    <3>1. \A l \in part : take[l] \in Int /\ take[l] = take[l]
      BY <2>3
    <3>. QED
      BY <2>3, <2>4, <3>1, TotalSupport
  <2>12. Total(Fulfilled', S) = 0
    BY <2>7, <2>8, <2>9, TotalZero
  <2>13. Total(Fulfilled, {}) = 0
    BY TotalEmpty
  <2>. QED
    BY <2>1, <2>2, <2>7, <2>9, <2>10, <2>11, <2>12, <2>13
<1>8. ASSUME NEW m \in Materials
      PROVE  Total(Fulfilled', LinesOfMaterial(m)') = Total(Fulfilled, LinesOfMaterial(m))
  <2> DEFINE S == LinesOfMaterial(m)
             U == {i \in DOMAIN items' : items'[i].material = m}
  <2>1. LinesOfMaterial(m)' = U /\ LinesOfMaterial(m) = S
    BY DEF LinesOfMaterial
  <2>2. IsFiniteSet(U) /\ S \subseteq DOMAIN items
    BY <1>1, <2>1 DEF Columns
  <2>3. S \subseteq U /\ U \ S \subseteq new
    BY <1>3 DEF LinesOfMaterial
  <2> HIDE DEF S, U
  <2>4. /\ \A i \in S : Fulfilled[i] \in Int /\ Fulfilled'[i] = Fulfilled[i]
        /\ \A i \in U \ S : Fulfilled'[i] = 0
    BY <1>1, <1>4, <2>2, <2>3 DEF Columns
  <2>5. Total(Fulfilled', U) = Total(Fulfilled, S)
    BY <2>2, <2>3, <2>4, TotalSupport
  <2>. QED
    BY <2>1, <2>5
<1>9. AskedBy' = [AskedBy EXCEPT ![o] = Wanted(take)]
  <2>1. \A m \in Materials : Total(Requested', LinesFor(o, m)') = Wanted(take)[m]
    BY <1>7 DEF Wanted
  <2>2. Wanted(take) = [m \in Materials |-> Wanted(take)[m]]
    BY DEF Wanted
  <2>. QED
    BY <1>6, <2>1, <2>2 DEF AskedBy
<1>10. IssuedTo' = IssuedTo
  BY <1>6, <1>7 DEF IssuedTo
<1>11. SpentOn' = SpentOn
  <2>1. \A m \in Materials : Total(Spent', RowsOf(m)') = Total(Spent, RowsOf(m))
    BY <1>3 DEF RowsOf
  <2>. QED
    BY <1>8, <2>1 DEF SpentOn, Raw
<1>. QED
  BY <1>9, <1>10, <1>11

(* Lines, transactions and orders after a step: the orders of both stay    *)
(* placed, and a line's lot stays one of its material.                     *)
LEMMA LedgerInvNext == LedgerInv /\ [Next]_vars => LedgerInv'
<1> SUFFICES ASSUME LedgerInv, [Next]_vars PROVE LedgerInv'
  OBVIOUS
<1>1. IInv'
  BY StepIInv DEF LedgerInv
<1>2. /\ IInv /\ orders \in [Orders -> Statuses \cup {"NONE"}]
      /\ items \in [DOMAIN items -> LineType] /\ desk \in [Clerks -> DeskType]
      /\ \A i \in DOMAIN items : items[i].order \in Orders /\ orders[items[i].order] # "NONE"
      /\ \A i \in DOMAIN items : MaterialOf[items[i].lote] = items[i].material
      /\ \A c \in Clerks :
            desk[c] # Idle => desk[c].order \in Orders /\ orders[desk[c].order] # "NONE"
  <2>1. \A d \in DeskType : d # Idle => d.order \in Orders
    BY DEF DeskType
  <2>. QED
    BY <2>1 DEF LedgerInv, IInv, TablesOK, OrdersExist, LotsOfTheirMaterial, LineType
<1> DEFINE Placed == \A p \in Orders : orders[p] # "NONE" => orders'[p] # "NONE"
           Owned == \A i \in DOMAIN items' : /\ items'[i].order \in Orders
                                             /\ orders'[items'[i].order] # "NONE"
                                             /\ MaterialOf[items'[i].lote] = items'[i].material
           Open == \A c \in Clerks : desk'[c] # Idle => orders'[desk'[c].order] # "NONE"
<1>3. ASSUME desk' = desk, Placed PROVE Open
  BY <1>2, <1>3
<1>4. ASSUME NEW c \in Clerks, desk' = [desk EXCEPT ![c] = Idle], Placed PROVE Open
  BY <1>2, <1>4
<1>5. ASSUME items' = items, Placed PROVE Owned
  BY <1>2, <1>5
<1>6. ASSUME NEW o \in Orders, NEW take \in Allocations, CreateOrder(o, take)
      PROVE  Placed /\ Owned /\ Open
  <2> DEFINE lots == {l \in Lots : take[l] > 0}
             new == {nextId + l : l \in lots}
  <2>1. lots = {l \in Lots : take[l] > 0} /\ new = {nextId + l : l \in lots}
    OBVIOUS
  <2> HIDE DEF lots, new
  <2>2. NewLines(o, take, lots, new)
    BY <1>2, <1>6, <2>1, OrderLines
  <2>3. orders' = [orders EXCEPT ![o] = "PENDIENTE"] /\ desk' = desk
    BY <1>6 DEF CreateOrder
  <2>4. Placed /\ orders'[o] # "NONE"
    BY <1>2, <2>3
  <2>5. Owned
    <3> SUFFICES ASSUME NEW i \in DOMAIN items'
                 PROVE  /\ items'[i].order \in Orders /\ orders'[items'[i].order] # "NONE"
                        /\ MaterialOf[items'[i].lote] = items'[i].material
      OBVIOUS
    <3>1. CASE i \in DOMAIN items
      BY <1>2, <2>2, <2>4, <3>1 DEF NewLines
    <3>2. CASE i \in new
      <4>1. PICK l \in lots : i = nextId + l
        BY <2>2, <3>2 DEF NewLines
      <4>2. items'[i].order = o /\ items'[i].material = MaterialOf[l] /\ items'[i].lote = l
        BY <2>2, <4>1 DEF NewLines
      <4>. QED
        BY <2>4, <4>2
    <3>. QED
      BY <2>2, <3>1, <3>2 DEF NewLines
  <2>. QED
    BY <1>3, <2>3, <2>4, <2>5
<1>7. ASSUME NEW o \in Orders, NEW l \in Lots, NEW K \in LineFor(o, l), Scan(o, l, K)
      PROVE  Placed /\ Owned /\ Open
  <2> DEFINE line == Line(l, K)
             take == Take(items[K], l)
  <2>1. line = Line(l, K) /\ take = Take(items[K], l)
    OBVIOUS
  <2> HIDE DEF line, take
  <2>2. ScanWrites(o, l, K, line, take)
    BY <1>2, <1>7, <2>1, ScanColumns
  <2>3. items'[line].lote = l
    BY <2>2 DEF ScanWrites
  <2>4. /\ orders' = [orders EXCEPT ![o] = IF Complete(o, items') THEN "SURTIDA" ELSE @]
        /\ desk' = desk
    BY <1>7 DEF Scan
  <2>5. orders[o] # "NONE"
    BY <1>7 DEF Scan, BeingPrepared
  <2>6. Placed
    BY <1>2, <2>4, <2>5
  <2>7. \A k \in DOMAIN items : k # line => items'[k].lote = items[k].lote
    BY <1>2, <1>7, <2>1, ScanOtherLines
  <2>8. Owned
    <3> SUFFICES ASSUME NEW i \in DOMAIN items'
                 PROVE  /\ items'[i].order \in Orders /\ orders'[items'[i].order] # "NONE"
                        /\ MaterialOf[items'[i].lote] = items'[i].material
      OBVIOUS
    <3>1. CASE i = line
      BY <2>2, <2>3, <2>5, <2>6, <3>1 DEF ScanWrites
    <3>2. CASE i # line
      BY <1>2, <2>2, <2>6, <2>7, <3>2 DEF ScanWrites, KeepsOwners
    <3>. QED
      BY <3>1, <3>2
  <2>. QED
    BY <1>3, <2>4, <2>6, <2>8
<1>8. ASSUME NEW c \in Clerks, NEW o \in Orders, NEW to \in StatusRequests, StatusRead(c, o, to)
      PROVE  Placed /\ Owned /\ Open
  <2>1. /\ orders' = orders /\ items' = items /\ orders[o] # "NONE"
        /\ desk' = [desk EXCEPT ![c] =
                      [op |-> "status", order |-> o, seen |-> orders[o], to |-> to]]
    BY <1>8 DEF StatusRead
  <2>. QED
    BY <1>2, <1>5, <2>1
<1>9. ASSUME NEW c \in Clerks, LinesRead(c) PROVE Placed /\ Owned /\ Open
  <2>1. /\ orders' = orders /\ items' = items /\ desk[c].op = "status"
        /\ desk' = [desk EXCEPT ![c] =
              [op |-> "label", order |-> desk[c].order, seen |-> desk[c].seen,
               to |-> desk[c].to, bare |-> Unlabelled(desk[c].order)]]
    BY <1>9 DEF LinesRead
  <2>2. orders[desk[c].order] # "NONE"
    BY <1>2, <2>1 DEF Idle
  <2>. QED
    BY <1>2, <1>5, <2>1, <2>2
<1>10. ASSUME NEW c \in Clerks, NEW o \in Orders, CancelRead(c, o)
      PROVE  Placed /\ Owned /\ Open
  <2>1. /\ orders' = orders /\ items' = items /\ orders[o] # "NONE"
        /\ desk' = [desk EXCEPT ![c] =
                      [op |-> "cancel", order |-> o,
                       labels |-> {items[i].child : i \in LinesOf(o)} \ {NoQr}]]
    BY <1>10 DEF CancelRead
  <2>. QED
    BY <1>2, <1>5, <2>1
<1>11. ASSUME NEW c \in Clerks, StatusWrite(c) PROVE Placed /\ Owned /\ Open
  <2>1. /\ orders' = [orders EXCEPT ![desk[c].order] =
                        IF desk[c].seen = desk[c].to THEN @ ELSE desk[c].to]
        /\ desk' = [desk EXCEPT ![c] = Idle] /\ desk[c].op \in {"status", "label"}
        /\ DOMAIN items' = DOMAIN items
        /\ \A i \in DOMAIN items :
              items'[i] = items[i] \/ items'[i] = [items[i] EXCEPT !.child = nextId + i]
    BY <1>11 DEF StatusWrite
  <2>2. desk[c].to \in Statuses
    BY <1>2, <2>1, RequestAssumption DEF RequestAssumption, DeskType, Idle
  <2>3. Placed
    BY <1>2, <2>1, <2>2 DEF Statuses
  <2>4. \A i \in DOMAIN items : /\ items'[i].order = items[i].order
                                /\ items'[i].lote = items[i].lote
                                /\ items'[i].material = items[i].material
    BY <1>2, <2>1 DEF LineType
  <2>. QED
    BY <1>2, <1>4, <2>1, <2>3, <2>4
<1>12. ASSUME NEW c \in Clerks, CancelWrite(c) PROVE Placed /\ Owned /\ Open
  <2>1. /\ orders' = [orders EXCEPT ![desk[c].order] = "CANCELADA"]
        /\ desk' = [desk EXCEPT ![c] = Idle] /\ items' = items
    BY <1>12 DEF CancelWrite
  <2>2. Placed
    BY <1>2, <2>1
  <2>. QED
    BY <1>4, <1>5, <2>1, <2>2
<1>13. ASSUME NEW c \in Clerks, Rollback(c) PROVE Placed /\ Owned /\ Open
  <2>1. orders' = orders /\ desk' = [desk EXCEPT ![c] = Idle] /\ items' = items
    BY <1>13 DEF Rollback
  <2>. QED
    BY <1>4, <1>5, <2>1
<1>14. ASSUME NEW m \in RawMaterials, NEW take \in [WipRows(m) -> 0..MaxRequest],
              ConsumeWip(m, take)
       PROVE  Placed /\ Owned /\ Open
  BY <1>3, <1>5, <1>14 DEF ConsumeWip
<1>15. ASSUME UNCHANGED vars PROVE Placed /\ Owned /\ Open
  BY <1>3, <1>5, <1>15 DEF vars
<1> HIDE DEF Placed, Owned, Open
<1>16. Owned /\ Open
  BY <1>6, <1>7, <1>8, <1>10, <1>11, <1>12, <1>13, <1>14, <1>15, <1>9 DEF Next
<1>17. OrdersExist' /\ LotsOfTheirMaterial'
  BY <1>16 DEF Owned, Open, OrdersExist, LotsOfTheirMaterial
<1>. QED
  BY <1>1, <1>17 DEF LedgerInv

(* The ledger starts with the legacy order's lines, if there are any.      *)
LEMMA LedgerStarts == Init => Ledger!LedgerInit
<1> SUFFICES ASSUME Init PROVE Ledger!LedgerInit
  OBVIOUS
<1>1. IInv /\ Columns /\ LedgerTyped
  BY InitIInv, ColumnFacts, LedgerValues
<1>2. orders \in [Orders -> {"NONE", "PENDIENTE"}]
  BY DEF Init
<1>3. \A i \in DOMAIN items : Fulfilled[i] = 0
  BY DEF Init, Fulfilled
<1>4. ASSUME NEW S \in SUBSET (DOMAIN items) PROVE Total(Fulfilled, S) = 0
  <2>1. IsFiniteSet(S) /\ \A i \in S : Fulfilled[i] = 0
    BY <1>1, <1>3 DEF Columns
  <2>. QED
    BY <2>1, TotalZero
<1>5. IssuedTo = [o \in Orders |-> [m \in Materials |-> 0]]
  <2>1. \A o \in Orders, m \in Materials : Total(Fulfilled, LinesFor(o, m)) = 0
    BY <1>1, <1>4 DEF Columns
  <2>. QED
    BY <2>1 DEF IssuedTo
<1>6. \A m \in Materials : RowsOf(m) = {}
  BY DEF Init, RowsOf
<1>7. SpentOn = [m \in Materials |-> 0]
  <2>1. \A m \in Materials : Total(Fulfilled, LinesOfMaterial(m)) = 0
    BY <1>1, <1>4 DEF Columns
  <2>2. \A m \in Materials : Total(Spent, RowsOf(m)) = 0
    BY <1>6, TotalEmpty
  <2>. QED
    BY <2>1, <2>2 DEF SpentOn
<1>8. InPlant = [m \in Materials |-> 0]
  <2>1. \A m \in Materials : Total(wip, RowsOf(m)) = 0
    BY <1>6, TotalEmpty
  <2>. QED
    BY <2>1 DEF InPlant
<1>. QED
  BY <1>1, <1>2, <1>5, <1>7, <1>8 DEF LedgerTyped, Ledger!LedgerInit

(* A placed order may be prepared or cancelled in the ledger.              *)
LEMMA PhaseSteps ==
    ASSUME NEW o \in Orders, NEW p \in {"PREPARANDO", "CANCELADA"}, orders[o] # "NONE",
           orders' = [orders EXCEPT ![o] = p],
           UNCHANGED <<AskedBy, IssuedTo, InWarehouse, InPlant, SpentOn>>
    PROVE  Ledger!LedgerNext
<1>1. Ledger!SetPhase(o, p)
  BY DEF Ledger!SetPhase
<1>. QED
  BY <1>1 DEF Ledger!LedgerNext

(* Every step but the write of a status request is one of the ledger, or   *)
(* does not show in it.                                                    *)
LEMMA OtherSteps ==
    ASSUME LedgerInv, LedgerInv', [Next]_vars
    PROVE  (\E c \in Clerks : StatusWrite(c)) \/ [Ledger!LedgerNext]_(Ledger!ledger)
<1> DEFINE Hidden == UNCHANGED <<orders, AskedBy, IssuedTo, InWarehouse, InPlant, SpentOn>>
<1>1. /\ IInv /\ IInv' /\ desk \in [Clerks -> DeskType]
      /\ orders \in [Orders -> Statuses \cup {"NONE"}]
      /\ \A c \in Clerks :
            desk[c] # Idle => desk[c].order \in Orders /\ orders[desk[c].order] # "NONE"
  <2>1. \A d \in DeskType : d # Idle => d.order \in Orders
    BY DEF DeskType
  <2>. QED
    BY <2>1 DEF LedgerInv, IInv, TablesOK, OrdersExist
<1>2. ASSUME orders' = orders, UNCHANGED <<available, isActive, items, wip, used>> PROVE Hidden
  BY <1>2, DeskKeepsSums
<1>3. ASSUME NEW o \in Orders, NEW take \in Allocations, CreateOrder(o, take)
      PROVE  Ledger!LedgerNext
  <2> DEFINE lots == {l \in Lots : take[l] > 0}
             new == {nextId + l : l \in lots}
  <2>1. lots = {l \in Lots : take[l] > 0} /\ new = {nextId + l : l \in lots}
    OBVIOUS
  <2> HIDE DEF lots, new
  <2>2. NewLines(o, take, lots, new)
    BY <1>1, <1>3, <2>1, OrderLines
  <2>3. /\ orders[o] = "NONE" /\ orders' = [orders EXCEPT ![o] = "PENDIENTE"]
        /\ UNCHANGED <<available, isActive, wip>>
    BY <1>3 DEF CreateOrder
  <2>4. take \in [Lots -> Nat]
    BY RequestAssumption DEF Allocations, RequestAssumption
  <2>5. /\ AskedBy' = [AskedBy EXCEPT ![o] = Wanted(take)]
        /\ IssuedTo' = IssuedTo
        /\ SpentOn' = SpentOn
    BY <1>1, <2>1, <2>2, <2>3, <2>4, OrderSums
  <2>6. /\ Wanted(take) \in [Materials -> 0..(MaxRequest * NumLots)]
        /\ \A m \in Materials : Wanted(take)[m] <= InWarehouse[m]
    BY <1>1, AllocationServed
  <2>7. InWarehouse' = InWarehouse
    BY <2>3 DEF InWarehouse
  <2>8. InPlant' = InPlant
    <3>1. \A m \in Materials : RowsOf(m)' = RowsOf(m)
      BY <2>3 DEF RowsOf
    <3>. QED
      BY <2>3, <3>1 DEF InPlant
  <2>9. Ledger!Place(o, Wanted(take))
    BY <2>3, <2>5, <2>6, <2>7, <2>8 DEF Ledger!Place
  <2>. QED
    BY <2>6, <2>9 DEF Ledger!LedgerNext
<1>4. ASSUME NEW o \in Orders, NEW l \in Lots, NEW K \in LineFor(o, l), Scan(o, l, K)
      PROVE  Ledger!LedgerNext
  BY <1>1, <1>4, ScanIssues
<1>5. ASSUME NEW c \in Clerks, CancelWrite(c) PROVE Ledger!LedgerNext
  <2>1. /\ orders' = [orders EXCEPT ![desk[c].order] = "CANCELADA"]
        /\ desk[c].op = "cancel"
        /\ UNCHANGED <<available, isActive, items, wip, used>>
    BY <1>5 DEF CancelWrite
  <2>2. desk[c] # Idle
    BY <2>1 DEF Idle
  <2>3. desk[c].order \in Orders /\ orders[desk[c].order] # "NONE"
    BY <1>1, <2>2
  <2>4. UNCHANGED <<AskedBy, IssuedTo, InWarehouse, InPlant, SpentOn>>
    BY <2>1, DeskKeepsSums
  <2>. QED
    BY <2>1, <2>3, <2>4, PhaseSteps
<1>6. ASSUME NEW m \in RawMaterials, NEW take \in [WipRows(m) -> 0..MaxRequest],
             ConsumeWip(m, take)
      PROVE  Ledger!LedgerNext
  BY <1>1, <1>6, ConsumptionSpendsStock
<1>7. ASSUME \/ UNCHANGED vars
             \/ \E c \in Clerks, o \in Orders, to \in StatusRequests : StatusRead(c, o, to)
             \/ \E c \in Clerks : LinesRead(c)
             \/ \E c \in Clerks, o \in Orders : CancelRead(c, o)
             \/ \E c \in Clerks : Rollback(c)
      PROVE  Hidden
  <2>1. orders' = orders /\ UNCHANGED <<available, isActive, items, wip, used>>
    BY <1>7 DEF vars, StatusRead, LinesRead, CancelRead, Rollback
  <2>. QED
    BY <1>2, <2>1
<1>8. Hidden => UNCHANGED Ledger!ledger
  BY DEF Ledger!ledger
<1> HIDE DEF Hidden
<1>. QED
  BY <1>3, <1>4, <1>5, <1>6, <1>7, <1>8 DEF Next

(* A status request prepares or cancels an order that was placed, or       *)
(* writes what it read.                                                    *)
LEMMA StatusSteps ==
    ASSUME StatusRequests \subseteq {"PREPARANDO", "CANCELADA"},
           LedgerInv, NEW c \in Clerks, StatusWrite(c)
    PROVE  [Ledger!LedgerNext]_(Ledger!ledger)
<1>1. /\ IInv /\ desk \in [Clerks -> DeskType]
      /\ orders \in [Orders -> Statuses \cup {"NONE"}]
      /\ \A k \in Clerks :
            desk[k] # Idle => desk[k].order \in Orders /\ orders[desk[k].order] # "NONE"
  <2>1. \A d \in DeskType : d # Idle => d.order \in Orders
    BY DEF DeskType
  <2>. QED
    BY <2>1 DEF LedgerInv, IInv, TablesOK, OrdersExist
<1>2. /\ orders' = [orders EXCEPT ![desk[c].order] =
                      IF desk[c].seen = desk[c].to THEN @ ELSE desk[c].to]
      /\ desk[c].op \in {"status", "label"}
  BY DEF StatusWrite
<1>3. desk[c].to \in StatusRequests /\ desk[c] # Idle
  BY <1>1, <1>2 DEF DeskType, Idle
<1>4. UNCHANGED <<AskedBy, IssuedTo, InWarehouse, InPlant, SpentOn>>
  BY <1>1, StatusWriteLabels
<1>5. desk[c].order \in Orders /\ orders[desk[c].order] # "NONE"
  BY <1>1, <1>3
<1>6. CASE desk[c].seen = desk[c].to
  <2>1. orders' = orders
    BY <1>1, <1>2, <1>6
  <2>. QED
    BY <1>4, <2>1 DEF Ledger!ledger
<1>7. CASE desk[c].seen # desk[c].to
  <2>1. PICK o \in Orders, p \in {"PREPARANDO", "CANCELADA"} : o = desk[c].order /\ p = desk[c].to
    BY <1>3, <1>5
  <2>2. orders' = [orders EXCEPT ![o] = p] /\ orders[o] # "NONE"
    BY <1>2, <1>5, <1>7, <2>1
  <2>. QED
    BY <1>4, <2>2, PhaseSteps
<1>. QED
  BY <1>6, <1>7

(* The orders, lots and labels implement the ledger of MaterialIssue, for  *)
(* every number of them, if the status endpoint is asked for the statuses  *)
(* of the screen only (it takes any): every handler, at any interleaving,  *)
(* places, prepares, cancels, issues or spends, or does not show.          *)
THEOREM OrdersImplementLedger ==
    ASSUME StatusRequests \subseteq {"PREPARANDO", "CANCELADA"}
    PROVE  Spec => ImplementsLedger
<1>1. Init => LedgerInv /\ Ledger!LedgerInit
  BY LedgerInvInit, LedgerStarts
<1>2. LedgerInv /\ [Next]_vars => LedgerInv'
  BY LedgerInvNext
<1>3. LedgerInv /\ LedgerInv' /\ [Next]_vars => [Ledger!LedgerNext]_(Ledger!ledger)
  BY OtherSteps, StatusSteps
<1>. QED
  BY <1>1, <1>2, <1>3, PTL DEF Spec, ImplementsLedger, Ledger!LedgerSpec

(* Nothing is made or lost between the lots, the WIP rows and the uses.    *)
StockIsKept ==
    \A m \in Materials : InWarehouse'[m] + InPlant'[m] + SpentOn'[m]
                           = InWarehouse[m] + InPlant[m] + SpentOn[m]

(* No step of the ledger makes or loses material.                          *)
LEMMA LedgerKeepsStock ==
    ASSUME LedgerTyped, [Ledger!LedgerNext]_(Ledger!ledger)
    PROVE  StockIsKept
<1>1. /\ InWarehouse \in [Materials -> Nat]
      /\ InPlant \in [Materials -> Nat]
      /\ SpentOn \in [Materials -> Nat]
  BY DEF LedgerTyped
<1>2. ASSUME UNCHANGED <<InWarehouse, InPlant, SpentOn>> PROVE StockIsKept
  BY <1>2 DEF StockIsKept
<1>3. ASSUME NEW o \in Orders, NEW want, Ledger!Place(o, want) PROVE StockIsKept
  BY <1>2, <1>3 DEF Ledger!Place
<1>4. ASSUME NEW o \in Orders, NEW p, Ledger!SetPhase(o, p) PROVE StockIsKept
  BY <1>2, <1>4 DEF Ledger!SetPhase
<1>5. ASSUME NEW o \in Orders, NEW m \in Materials, NEW q \in 1..InWarehouse[m],
             Ledger!Issue(o, m, q)
      PROVE  StockIsKept
  <2>1. /\ InWarehouse' = [InWarehouse EXCEPT ![m] = @ - q]
        /\ \/ InPlant' = [InPlant EXCEPT ![m] = @ + q] /\ SpentOn' = SpentOn
           \/ SpentOn' = [SpentOn EXCEPT ![m] = @ + q] /\ InPlant' = InPlant
        /\ q \in Nat
    BY <1>1, <1>5 DEF Ledger!Issue
  <2>. QED
    BY <1>1, <2>1 DEF StockIsKept
<1>6. ASSUME NEW m \in Materials, NEW q \in 1..InPlant[m], Ledger!Spend(m, q)
      PROVE  StockIsKept
  <2>1. /\ InPlant' = [InPlant EXCEPT ![m] = @ - q] /\ InWarehouse' = InWarehouse
        /\ SpentOn' = [SpentOn EXCEPT ![m] = @ + q]
        /\ q \in Nat
    BY <1>1, <1>6 DEF Ledger!Spend
  <2>. QED
    BY <1>1, <2>1 DEF StockIsKept
<1>7. CASE UNCHANGED Ledger!ledger
  BY <1>2, <1>7 DEF Ledger!ledger
<1>8. CASE Ledger!LedgerNext
  BY <1>3, <1>4, <1>5, <1>6, <1>8 DEF Ledger!LedgerNext
<1>. QED
  BY <1>7, <1>8

(* What the lots lost, the plant has or has used: no handler, at any       *)
(* interleaving, makes or loses a unit of a material, and no order is      *)
(* issued more of it than it asked for.                                    *)
THEOREM OrdersKeepStock == Spec => [][StockIsKept]_vars /\ []IssuesAgree
<1>1. LedgerInv => LedgerTyped /\ IssuesAgree
  BY LedgerValues, FullyIssued DEF LedgerInv, IssuesAgree
<1>2. LedgerInv /\ [Next]_vars => LedgerInv'
  BY LedgerInvNext
<1>3. LedgerInv /\ LedgerInv' /\ [Next]_vars => [StockIsKept]_vars
  <2> SUFFICES ASSUME LedgerInv, LedgerInv', [Next]_vars PROVE StockIsKept
    OBVIOUS
  <2>1. CASE \E c \in Clerks : StatusWrite(c)
    BY <2>1, StatusWriteLabels DEF LedgerInv, StockIsKept
  <2>2. CASE [Ledger!LedgerNext]_(Ledger!ledger)
    BY <1>1, <2>2, LedgerKeepsStock
  <2>. QED
    BY <2>1, <2>2, OtherSteps
<1>. QED
  BY <1>1, <1>2, <1>3, LedgerInvInit, PTL DEF Spec

(* The three promises of the ledger, for the orders themselves: its tables *)
(* are well formed and no step makes or loses material; no order is issued *)
(* more of a material than its lines ask for, and one that is SURTIDA was  *)
(* issued all of it, if the status endpoint is not asked to complete       *)
(* orders.                                                                 *)
THEOREM OrdersKeepThePromises ==
    ASSUME "SURTIDA" \notin StatusRequests
    PROVE  Spec => [](Ledger!LedgerTypeOK /\ Ledger!IssuedWithinAsked) /\ Ledger!MaterialKept
<1>1. LedgerInv => LedgerTyped /\ IssuesAgree
  BY LedgerValues, FullyIssued DEF LedgerInv, IssuesAgree
<1>2. LedgerInv => Ledger!LedgerTypeOK
  <2> SUFFICES ASSUME LedgerInv PROVE Ledger!LedgerTypeOK
    OBVIOUS
  <2>1. orders \in [Orders -> {"NONE", "PENDIENTE", "PREPARANDO", "SURTIDA", "CANCELADA"}]
    BY DEF LedgerInv, IInv, TablesOK, Statuses
  <2>. QED
    BY <1>1, <2>1 DEF Ledger!LedgerTypeOK, LedgerTyped
<1>3. LedgerInv /\ CompletedIsDelivered => Ledger!IssuedWithinAsked
  <2> SUFFICES ASSUME LedgerInv, CompletedIsDelivered, NEW o \in Orders
               PROVE  \A m \in Materials :
                         /\ IssuedTo[o][m] <= AskedBy[o][m]
                         /\ orders[o] = "SURTIDA" => IssuedTo[o][m] = AskedBy[o][m]
    BY DEF Ledger!IssuedWithinAsked
  <2>1. orders[o] = "SURTIDA" => Complete(o, items)
    <3>1. \A k \in DOMAIN items : items[k].requested \in Nat
      BY DEF LedgerInv, IInv, TablesOK, LineType
    <3>. QED
      BY <3>1 DEF CompletedIsDelivered, Complete, LinesOf
  <2>. QED
    BY <1>1, <2>1 DEF IssuesAgree
<1>4. LedgerInv /\ [Next]_vars => LedgerInv'
  BY LedgerInvNext
<1>5. Spec => [][StockIsKept]_vars /\ []CompletedIsDelivered
  BY OrdersKeepStock, CompletionIsEarned, PTL
<1>6. [StockIsKept]_vars =>
        [\A m \in Materials : InWarehouse'[m] + InPlant'[m] + SpentOn'[m]
                                = InWarehouse[m] + InPlant[m] + SpentOn[m]]_(Ledger!ledger)
  <2>1. UNCHANGED vars => UNCHANGED Ledger!ledger
    BY DEF vars, Ledger!ledger, AskedBy, IssuedTo, InWarehouse, InPlant, SpentOn, LinesFor,
           LinesOf, LinesOfMaterial, RowsOf, Requested, Fulfilled, Spent
  <2>. QED
    BY <2>1 DEF StockIsKept
<1>. QED
  BY <1>1, <1>2, <1>3, <1>4, <1>5, <1>6, LedgerInvInit, PTL DEF Spec, Ledger!MaterialKept
=============================================================================
