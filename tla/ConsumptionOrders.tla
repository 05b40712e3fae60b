-------------------------- MODULE ConsumptionOrders --------------------------
(***************************************************************************)
(* Consumption orders of the warehouse                                     *)
(* (backend/src/modules/warehouse/consumptionOrder.service.js): production *)
(* asks for material, the warehouse clerk scans lots against the order,    *)
(* raw material becomes stock in process (WIP) under a child QR, and the   *)
(* processes of the plant consume it.                                      *)
(*                                                                         *)
(* The database runs at READ COMMITTED.  A handler that takes its rows     *)
(* FOR UPDATE before it reads them (scanFulfillmentItem, consumeWip) is    *)
(* one action.  A handler that reads without a lock and writes later       *)
(* (cancelOrder, updateOrderStatus with ensureChildQrsForOrder) is one     *)
(* action per read and one for what it commits, and what it read may be    *)
(* stale by then.                                                          *)
(* Quantities are DECIMAL(12,3): naturals, in thousandths of the unit.     *)
(***************************************************************************)
EXTENDS Naturals, FiniteSets, Totals

CONSTANTS
    Orders,         \* orders that may be placed
    Materials,      \* materials of the catalogue
    RawMaterials,   \* those of family 43 or code MP-: they go to WIP
    NumLots,        \* lots are 1..NumLots, oldest first (created_at)
    MaterialOf,     \* the material of each lot
    Received,       \* what each lot holds when the behaviour starts
    CostedLots,     \* lots with a valid unit cost
    LegacyOrder,    \* an order placed before orders had child QRs,
    LegacyLots,     \* one line for each of these lots (none: no such order)
    Clerks,         \* concurrent sessions of cancel and status requests
    StatusRequests, \* values the status endpoint receives
    MaxRequest,     \* bound: largest quantity taken from a lot or WIP row
    MaxInventory    \* bound: largest initial consolidated balance

Lots == 1..NumLots
Statuses == {"PENDIENTE", "PREPARANDO", "SURTIDA", "CANCELADA"}
QrStatuses == {"RESERVED_ORDER", "IN_WIP", "CANCELADO", "CONSUMED"}

ASSUME LotAssumption ==
    /\ NumLots \in Nat
    /\ MaterialOf \in [Lots -> Materials]
    /\ Received \in [Lots -> Nat]
    /\ CostedLots \subseteq Lots
    /\ RawMaterials \subseteq Materials
    /\ LegacyOrder \in Orders
    /\ LegacyLots \subseteq Lots
ASSUME RequestAssumption ==
    /\ MaxRequest \in Nat
    /\ MaxInventory \in Nat
    /\ StatusRequests \subseteq Statuses

VARIABLES
    available,  \* lotes.available_amount
    isActive,   \* lotes.is_active
    inventory,  \* inventories.amount, one row per material
    orders,     \* consumption_orders.status, "NONE" before it is created
    items,      \* consumption_order_items, by id
    qrs,        \* status of the child QRs (is_active iff IN_WIP), by id
    wip,        \* wip_inventories.amount, by <<lot, child QR>>
    trace,      \* traceable_items.quantity_current of the child QRs in WIP
    used,       \* per child QR, the sum of its CONSUMO_PROCESO movements
    nextId,     \* the serial ids handed out so far
    desk,       \* what each clerk's open transaction has read
    madeFor     \* history: the line each child QR was made for

vars == <<available, isActive, inventory, orders, items, qrs, wip, trace,
          used, nextId, desk, madeFor>>

NoQr == 0
Idle == [op |-> "idle"]

Smaller(a, b) == IF a < b THEN a ELSE b
Larger(a, b) == IF a > b THEN a ELSE b
Raw(m) == m \in RawMaterials

(* What a set of lots can still deliver: active rows with a balance.       *)
Stock(lots, avail, act) == Total(avail, {l \in lots : act[l]})
LotsOf(m) == {l \in Lots : MaterialOf[l] = m}
LinesOf(o) == {i \in DOMAIN items : items[i].order = o}

-----------------------------------------------------------------------------
(* createOrder: FIFO allocation over the active lots of each material.  No *)
(* quantity is reserved; raw material gets a child QR per allocated lot.   *)
(* The quantities asked for are the sums of the allocation by material: a  *)
(* request the lots can serve has one FIFO allocation, any other throws.   *)

Offer(l) == IF isActive[l] THEN Smaller(available[l], MaxRequest) ELSE 0

Allocations ==
    {take \in [Lots -> 0..MaxRequest] :
        /\ \E l \in Lots : take[l] > 0
        /\ \A l \in Lots : take[l] <= Offer(l)
        /\ \A k, l \in Lots :
              k < l /\ MaterialOf[k] = MaterialOf[l] /\ take[l] > 0 => take[k] = Offer(k)}

(* A child QR is made reserved and inactive.                               *)
LabelBornLive == "IN_WIP"
NewLabel == "RESERVED_ORDER"

CreateOrder(o, take) ==
    LET new == {nextId + l : l \in {k \in Lots : take[k] > 0}}
        line(i) == LET l == i - nextId IN
            [order |-> o, material |-> MaterialOf[l], lote |-> l,
             requested |-> take[l], fulfilled |-> 0,
             child |-> IF Raw(MaterialOf[l]) THEN i ELSE NoQr]
        labels == {i \in new : Raw(MaterialOf[i - nextId])}
    IN /\ orders[o] = "NONE"
       /\ orders' = [orders EXCEPT ![o] = "PENDIENTE"]
       /\ items' = [i \in DOMAIN items \cup new |->
                        IF i \in new THEN line(i) ELSE items[i]]
       /\ qrs' = [q \in DOMAIN qrs \cup labels |->
                        IF q \in labels THEN NewLabel ELSE qrs[q]]
       /\ used' = [q \in DOMAIN used \cup labels |->
                        IF q \in labels THEN 0 ELSE used[q]]
       /\ madeFor' = [q \in DOMAIN madeFor \cup labels |->
                        IF q \in labels THEN q ELSE madeFor[q]]
       /\ nextId' = nextId + NumLots
       /\ UNCHANGED <<available, isActive, inventory, wip, trace, desk>>

-----------------------------------------------------------------------------
(* updateOrderStatus and cancelOrder: unlocked reads, then the writes.     *)

(* The transaction keeps the status it read.  Sequelize writes only the    *)
(* columns that changed with respect to that read.                         *)
StatusRead(c, o, to) ==
    /\ desk[c] = Idle
    /\ orders[o] # "NONE"
    /\ desk' = [desk EXCEPT ![c] =
                   [op |-> "status", order |-> o, seen |-> orders[o], to |-> to]]
    /\ UNCHANGED <<available, isActive, inventory, orders, items, qrs, wip,
                   trace, used, nextId, madeFor>>

(* The raw lines of order o that ensureChildQrsForOrder labels.            *)
Unlabelled(o) == {i \in LinesOf(o) : items[i].child = NoQr /\ Raw(items[i].material)}

(* PREPARANDO: the lines without a label are read, without a lock either.  *)
LinesRead(c) ==
    LET d == desk[c]
    IN /\ d.op = "status" /\ d.to = "PREPARANDO"
       /\ desk' = [desk EXCEPT ![c] =
              [op |-> "label", order |-> d.order, seen |-> d.seen, to |-> d.to,
               bare |-> Unlabelled(d.order)]]
       /\ UNCHANGED <<available, isActive, inventory, orders, items, qrs, wip,
                      trace, used, nextId, madeFor>>

(* The lines a request labels are those it read, whatever label and        *)
(* deliveries they have by now: save() writes child_qr_id by the line's id.*)
LinesToLabel(d) == IF d.op = "label" THEN d.bare ELSE {}

StatusWrite(c) ==
    LET d == desk[c]
        bare == LinesToLabel(d)
        label(i) == nextId + i
        labels == {label(i) : i \in bare}
    IN /\ d.op \in {"status", "label"}
       /\ d.op = "status" => d.to # "PREPARANDO"
       /\ orders' = [orders EXCEPT ![d.order] = IF d.seen = d.to THEN @ ELSE d.to]
       /\ items' = [i \in DOMAIN items |->
                        IF i \in bare THEN [items[i] EXCEPT !.child = label(i)]
                                      ELSE items[i]]
       /\ qrs' = [q \in DOMAIN qrs \cup labels |->
                        IF q \in labels THEN NewLabel ELSE qrs[q]]
       /\ used' = [q \in DOMAIN used \cup labels |->
                        IF q \in labels THEN 0 ELSE used[q]]
       /\ madeFor' = [q \in DOMAIN madeFor \cup labels |->
                        IF q \in labels THEN q - nextId ELSE madeFor[q]]
       /\ nextId' = IF bare = {} THEN nextId ELSE 2 * nextId
       /\ desk' = [desk EXCEPT ![c] = Idle]
       /\ UNCHANGED <<available, isActive, inventory, wip, trace>>

CancelRead(c, o) ==
    /\ desk[c] = Idle
    /\ orders[o] \in {"PENDIENTE", "PREPARANDO"}
    /\ desk' = [desk EXCEPT ![c] =
                   [op |-> "cancel", order |-> o,
                    labels |-> {items[i].child : i \in LinesOf(o)} \ {NoQr}]]
    /\ UNCHANGED <<available, isActive, inventory, orders, items, qrs, wip,
                   trace, used, nextId, madeFor>>

CancelWrite(c) ==
    LET d == desk[c]
    IN /\ d.op = "cancel"
       /\ qrs' = [q \in DOMAIN qrs |-> IF q \in d.labels THEN "CANCELADO" ELSE qrs[q]]
       /\ orders' = [orders EXCEPT ![d.order] = "CANCELADA"]
       /\ desk' = [desk EXCEPT ![c] = Idle]
       /\ UNCHANGED <<available, isActive, inventory, items, wip, trace, used,
                      nextId, madeFor>>

(* The transaction fails (validation, deadlock victim, lost connection)    *)
(* and rolls back: nothing it would have written is seen.                  *)
Rollback(c) ==
    /\ desk[c] # Idle
    /\ desk' = [desk EXCEPT ![c] = Idle]
    /\ UNCHANGED <<available, isActive, inventory, orders, items, qrs, wip,
                   trace, used, nextId, madeFor>>

-----------------------------------------------------------------------------
(* scanFulfillmentItem: order, lines, lot, inventory and WIP row are all   *)
(* taken FOR UPDATE, in this order, before they are read.                  *)

Pending(o, m) == {i \in LinesOf(o) : /\ items[i].material = m
                                     /\ items[i].fulfilled < items[i].requested}

(* The line a scan of lot l fulfils: the reservation of that very lot      *)
(* when there is one, else the first pending line of the material.  (A     *)
(* line without a lot would come before that one; createOrder and the      *)
(* splits give every line a lot, so there is none.)                        *)
LineFor(o, l) ==
    LET pending == Pending(o, MaterialOf[l])
        exact == {i \in pending : items[i].lote = l}
        candidates == IF exact # {} THEN exact ELSE pending
    IN {i \in candidates : \A j \in candidates : i <= j}

(* What the scan takes: what the line still waits for, at most the lot.    *)
TakeWholeLot(i, l) == available[l]
TakeWholeLine(i, l) == i.requested - i.fulfilled
Take(i, l) == Smaller(i.requested - i.fulfilled, available[l])

(* A line that another lot already began is split: it is closed at what it *)
(* got, and a new line waits for the remainder.                            *)
NeverSplit(i, l) == FALSE
Splits(i, l) == i.fulfilled > 0 /\ i.lote # l

Remainder(i) == i.requested - i.fulfilled

(* The line goes on with its child QR only under the lot it was made for.  *)
KeepsAnyLabel(i, l) == i.child # NoQr
KeepsLabel(i, l) == ~Splits(i, l) /\ i.lote = l /\ i.child # NoQr

DeliveredSoFar(i, take) == i.fulfilled + take

(* The fulfilled line: the split-off one, or the line itself.             *)
DeliveredLine(i, l, take, child) ==
    [i EXCEPT !.lote = l, !.child = child,
              !.requested = IF Splits(i, l) THEN Remainder(i) ELSE @,
              !.fulfilled = IF Splits(i, l) THEN take ELSE DeliveredSoFar(i, take)]

(* All lines of the order are delivered.                                   *)
Started(o, lines) == \A k \in DOMAIN lines :
    lines[k].order = o => lines[k].fulfilled > 0
Complete(o, lines) == \A k \in DOMAIN lines :
    lines[k].order = o => lines[k].fulfilled >= lines[k].requested

(* getLotBackedInventoryReconciliation raises a consolidated balance that  *)
(* does not cover the lots before the scan; then the take is debited.      *)
DebitedAsItIs(amount, lotsAfter, take) == Larger(amount, lotsAfter) - take
Debited(amount, lotsAfter, take) == Larger(amount, lotsAfter + take) - take

StillActive(left) == left > 0

(* The child's traceable item is first brought to the WIP balance.         *)
TraceAfter(wipBefore, take) == wipBefore + take

InAnyStatus(o) == orders[o] # "NONE"
BeingPrepared(o) == orders[o] = "PREPARANDO"

Scan(o, l, chosen) ==
    LET m == MaterialOf[l]
        i == items[chosen]
        take == Take(i, l)
        split == Splits(i, l)
        relabel == Raw(m) /\ ~KeepsLabel(i, l)
        line == IF split THEN nextId + 1 ELSE chosen
        child == IF relabel THEN nextId + 1 ELSE i.child
        row == <<l, child>>
        wipBefore == IF row \in DOMAIN wip THEN wip[row] ELSE 0
        left == available[l] - take
        lines == [k \in DOMAIN items \cup {line} |->
                    IF k = line THEN DeliveredLine(i, l, take, child)
                    ELSE IF k = chosen THEN [i EXCEPT !.requested = i.fulfilled]
                    ELSE items[k]]
    IN /\ BeingPrepared(o)
       /\ isActive[l] /\ available[l] > 0
       /\ Raw(m) \/ l \in CostedLots
       /\ available' = [available EXCEPT ![l] = left]
       /\ isActive' = [isActive EXCEPT ![l] = StillActive(left)]
       /\ items' = lines
       /\ inventory' = [inventory EXCEPT ![m] =
              Debited(@, Stock(LotsOf(m) \ {l}, available, isActive) + left, take)]
       /\ orders' = [orders EXCEPT ![o] = IF Complete(o, lines) THEN "SURTIDA" ELSE @]
       /\ nextId' = IF split \/ relabel THEN nextId + 1 ELSE nextId
       /\ IF Raw(m)
          THEN /\ qrs' = [q \in DOMAIN qrs \cup {child} |->
                            IF q = child THEN "IN_WIP"
                            ELSE IF relabel /\ ~split /\ q = i.child THEN "CANCELADO"
                            ELSE qrs[q]]
               /\ wip' = [r \in DOMAIN wip \cup {row} |->
                            IF r = row THEN wipBefore + take ELSE wip[r]]
               /\ trace' = [q \in DOMAIN trace \cup {child} |->
                            IF q = child THEN TraceAfter(wipBefore, take) ELSE trace[q]]
               /\ used' = [q \in DOMAIN used \cup {child} |->
                            IF q \in DOMAIN used THEN used[q] ELSE 0]
               /\ madeFor' = [q \in DOMAIN madeFor \cup {child} |->
                            IF q = child THEN line ELSE madeFor[q]]
          ELSE UNCHANGED <<qrs, wip, trace, used, madeFor>>
       /\ UNCHANGED desk

-----------------------------------------------------------------------------
(* consumeWip of backend/src/modules/wip/rollTransformation.js: a process  *)
(* debits the WIP rows of a material, each together with its child QR.     *)
(* take says what each row gives; the code fills it in created_at order.   *)

WipRows(m) == {r \in DOMAIN wip : MaterialOf[r[1]] = m /\ wip[r] > 0}

ConsumeWip(m, take) ==
    LET rows == {r \in WipRows(m) : take[r] > 0}
        labels == {r[2] : r \in rows}
        taken(q) == take[CHOOSE r \in rows : r[2] = q]
    IN /\ rows # {}
       /\ \A r \in rows : take[r] <= wip[r] /\ take[r] <= trace[r[2]]
       /\ wip' = [r \in DOMAIN wip |-> IF r \in rows THEN wip[r] - take[r] ELSE wip[r]]
       /\ trace' = [q \in DOMAIN trace |->
                        IF q \in labels THEN trace[q] - taken(q) ELSE trace[q]]
       /\ qrs' = [q \in DOMAIN qrs |->
                        IF q \in labels /\ trace[q] = taken(q) THEN "CONSUMED" ELSE qrs[q]]
       /\ used' = [q \in DOMAIN used |->
                        IF q \in labels THEN used[q] + taken(q) ELSE used[q]]
       /\ UNCHANGED <<available, isActive, inventory, orders, items, nextId, desk,
                      madeFor>>

-----------------------------------------------------------------------------
Init ==
    /\ available = Received
    /\ isActive = [l \in Lots |-> Received[l] > 0]
    /\ inventory \in [Materials -> 0..MaxInventory]
    /\ orders = [o \in Orders |-> IF o = LegacyOrder /\ LegacyLots # {}
                                  THEN "PENDIENTE" ELSE "NONE"]
    /\ items = [l \in LegacyLots |->
                  [order |-> LegacyOrder, material |-> MaterialOf[l], lote |-> l,
                   requested |-> Received[l], fulfilled |-> 0, child |-> NoQr]]
    /\ qrs = [q \in {} |-> "RESERVED_ORDER"]
    /\ wip = [r \in {} |-> 0]
    /\ trace = [q \in {} |-> 0]
    /\ used = [q \in {} |-> 0]
    /\ nextId = NumLots
    /\ desk = [c \in Clerks |-> Idle]
    /\ madeFor = [q \in {} |-> 0]

Next ==
    \/ \E o \in Orders, take \in Allocations : CreateOrder(o, take)
    \/ \E o \in Orders, l \in Lots : \E chosen \in LineFor(o, l) : Scan(o, l, chosen)
    \/ \E c \in Clerks, o \in Orders, to \in StatusRequests : StatusRead(c, o, to)
    \/ \E c \in Clerks : LinesRead(c)
    \/ \E c \in Clerks : StatusWrite(c)
    \/ \E c \in Clerks, o \in Orders : CancelRead(c, o)
    \/ \E c \in Clerks : CancelWrite(c)
    \/ \E c \in Clerks : Rollback(c)
    \/ \E m \in RawMaterials : \E take \in [WipRows(m) -> 0..MaxRequest] :
           ConsumeWip(m, take)

Spec == Init /\ [][Next]_vars
-----------------------------------------------------------------------------
(* Properties.                                                             *)

LineType == [order : Orders, material : Materials, lote : Lots, requested : Nat,
             fulfilled : Nat, child : Nat]
DeskType == {Idle}
            \cup [op : {"status"}, order : Orders, seen : Statuses, to : StatusRequests]
            \cup [op : {"label"}, order : Orders, seen : Statuses, to : StatusRequests,
                  bare : SUBSET Nat]
            \cup [op : {"cancel"}, order : Orders, labels : SUBSET Nat]

(* Every table holds rows of its type; the foreign keys of the WIP and     *)
(* traceability rows point at existing labels.                             *)
TablesOK ==
    /\ available \in [Lots -> Nat]
    /\ isActive \in [Lots -> BOOLEAN]
    /\ orders \in [Orders -> Statuses \cup {"NONE"}]
    /\ nextId \in Nat
    /\ DOMAIN items \subseteq 1..nextId
    /\ items \in [DOMAIN items -> LineType]
    /\ DOMAIN qrs \subseteq 1..nextId
    /\ qrs \in [DOMAIN qrs -> QrStatuses]
    /\ used \in [DOMAIN qrs -> Nat]
    /\ DOMAIN trace \subseteq DOMAIN qrs
    /\ trace \in [DOMAIN trace -> Nat]
    /\ DOMAIN wip \subseteq Lots \X DOMAIN trace
    /\ wip \in [DOMAIN wip -> Nat]
    /\ desk \in [Clerks -> DeskType]
    /\ madeFor \in [DOMAIN qrs -> Nat]
TypeOK == TablesOK /\ inventory \in [Materials -> Nat]

(* No scan, substitution or split delivers more on a line than the line    *)
(* asks for (the pending quantity of scanFulfillmentItem).                 *)
NeverOverDelivered ==
    \A i \in DOMAIN items : items[i].fulfilled <= items[i].requested

(* A child QR belongs to one order line: splitting a line, substituting    *)
(* its lot or re-preparing its order never shares or reuses a label.       *)
LabelOwnedOnce ==
    \A i, j \in DOMAIN items :
        items[i].child # NoQr /\ items[i].child = items[j].child => i = j

(* The WIP rows of the labels made for a line, under the line's own lot,   *)
(* and what each label of a row has brought into the plant so far.         *)
RowsOfLine(i) == {r \in DOMAIN wip : r[1] = items[i].lote /\ madeFor[r[2]] = i}
Brought == [r \in DOMAIN wip |-> wip[r] + used[r[2]]]

(* Every gram of raw material delivered on a line is in the WIP rows of    *)
(* that line's own lot and labels, or was consumed from those labels: the  *)
(* line, the WIP rows and the consumption ledger agree after any sequence  *)
(* of partial scans, substitutions, splits and recipe consumptions, and    *)
(* when overlapping requests label one line twice.                         *)
DeliveredIsInPlant ==
    \A i \in DOMAIN items :
        Raw(items[i].material) =>
            Total(Brought, RowsOfLine(i)) = items[i].fulfilled

(* No WIP stock without an order line that delivered it from that lot: the *)
(* substituted label of a line never keeps a row.                          *)
WipHasItsLine ==
    \A r \in DOMAIN wip :
        LET i == madeFor[r[2]] IN
        /\ i \in DOMAIN items
        /\ Raw(items[i].material) /\ items[i].fulfilled > 0
        /\ items[i].lote = r[1]

(* The traceable balance of a child QR is its WIP balance, so consumeWip   *)
(* never fails with WIP_QR_BALANCE_MISMATCH.                               *)
TraceMatchesWip == \A r \in DOMAIN wip : trace[r[2]] = wip[r]

(* A label is scannable in the plant (IN_WIP, active) only while there is  *)
(* stock in process under it: a label printed with the order is not a      *)
(* right to consume, and none stays live when its row is spent.            *)
LiveLabelHasStock ==
    \A q \in DOMAIN qrs : qrs[q] = "IN_WIP" =>
        \E r \in DOMAIN wip : r[2] = q /\ wip[r] > 0

(* An order the scan closed (SURTIDA) has every line delivered in full,    *)
(* whatever stale cancellations or status requests commit around it.       *)
CompletedIsDelivered ==
    \A o \in Orders : orders[o] = "SURTIDA" =>
        \A i \in LinesOf(o) : items[i].fulfilled = items[i].requested

(* An active lot has stock and an inactive one has none.                   *)
ActiveIffStock == \A l \in Lots : isActive[l] <=> available[l] > 0

(* The reconciliation of a scan: the consolidated balance covers the lots  *)
(* of the material afterwards, and a surplus it had before is neither      *)
(* spent nor increased by it.                                              *)
ScanReconciles ==
    [][\A m \in Materials :
         LET before == Stock(LotsOf(m), available, isActive)
             after == Stock(LotsOf(m), available', isActive')
         IN after # before =>
              inventory'[m] = after + (Larger(inventory[m], before) - before)]_vars

-----------------------------------------------------------------------------
(* The orders, lots and labels implement the ledger of MaterialIssue.      *)

LinesFor(o, m) == {i \in LinesOf(o) : items[i].material = m}
LinesOfMaterial(m) == {i \in DOMAIN items : items[i].material = m}
RowsOf(m) == {r \in DOMAIN wip : MaterialOf[r[1]] = m}

Requested == [i \in DOMAIN items |-> items[i].requested]
Fulfilled == [i \in DOMAIN items |-> items[i].fulfilled]
Spent == [r \in DOMAIN wip |-> used[r[2]]]

AskedBy == [o \in Orders |-> [m \in Materials |-> Total(Requested, LinesFor(o, m))]]
IssuedTo == [o \in Orders |-> [m \in Materials |-> Total(Fulfilled, LinesFor(o, m))]]
InWarehouse == [m \in Materials |-> Stock(LotsOf(m), available, isActive)]
InPlant == [m \in Materials |-> Total(wip, RowsOf(m))]
SpentOn == [m \in Materials |-> IF Raw(m) THEN Total(Spent, RowsOf(m))
                                          ELSE Total(Fulfilled, LinesOfMaterial(m))]

Ledger == INSTANCE MaterialIssue WITH
    MaxRequest <- MaxRequest * NumLots,
    phase <- orders,
    asked <- AskedBy,
    issued <- IssuedTo,
    warehouse <- InWarehouse,
    plant <- InPlant,
    spent <- SpentOn

(* Every handler, at every interleaving, is a step of the ledger or leaves *)
(* it as it is: substitutions, splits and label changes are invisible, and *)
(* no unit is delivered twice, over-delivered or lost.                     *)
ImplementsLedger == Ledger!LedgerSpec

-----------------------------------------------------------------------------
(* What the code's own message says, and the code does not keep.           *)

(* cancelOrder: "No se puede cancelar una orden completamente surtida".    *)
CompletedIsNotCancelled ==
    [][\A o \in Orders : orders[o] = "SURTIDA" => orders'[o] # "CANCELADA"]_vars
=============================================================================
