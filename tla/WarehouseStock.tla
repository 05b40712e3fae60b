--------------------------- MODULE WarehouseStock ----------------------------
(***************************************************************************)
(* Lots and consolidated inventory of the warehouse                        *)
(* (backend/src/modules/warehouse/inventoryDomain.service.js and the       *)
(* transactions of warehouse.service.js that call it): receipt, manual     *)
(* consumption, disposal, and waste requests that freeze lots until an     *)
(* administrator resolves them.                                            *)
(*                                                                         *)
(* None of these transactions locks what it reads.  Each reads a row,      *)
(* computes in memory and saves the columns it changed with an absolute    *)
(* value; the save takes the row lock, which is kept until commit, and at  *)
(* READ COMMITTED nobody sees the value before.  The steps below are the   *)
(* points where two transactions can interleave: every read, every save    *)
(* and the commit.  Where the code walks a list or an object of rows, the  *)
(* model takes the rows in any order.                                      *)
(***************************************************************************)
EXTENDS Integers, FiniteSets, Functions, Totals

CONSTANTS
    Materials,
    NumLots,        \* lots are 1..NumLots, oldest first (created_at)
    MaterialOf,
    Received,       \* what each lot brings
    Stored,         \* the lots in the warehouse when the behaviour starts
    Clerks,         \* concurrent sessions
    MaxRequests,    \* bound: waste requests created
    MaxOpened,      \* bound: transactions opened
    MaxRaced,       \* bound: the same, once two on one material have overlapped
    MaxQuantity     \* bound: quantity asked from a lot or a material

Lots == 1..NumLots
Requests == 1..MaxRequests

ASSUME StockAssumption ==
    /\ NumLots \in Nat
    /\ MaterialOf \in [Lots -> Materials]
    /\ Received \in [Lots -> Nat \ {0}]
    /\ Stored \subseteq Lots
    /\ MaxRequests \in Nat /\ MaxQuantity \in Nat /\ MaxOpened \in Nat /\ MaxRaced \in Nat

VARIABLES
    lots,       \* the lots that exist (committed rows of lotes)
    available,  \* lotes.available_amount
    isActive,   \* lotes.is_active
    isFrozen,   \* lotes.is_frozen
    inventory,  \* inventories.amount, one row per material
    requests,   \* waste_requests: lote_ids with quantities, and status
    taken,      \* what committed consumptions and disposals took of each lot
    tx,         \* each clerk's open transaction
    opened,     \* transactions opened so far
    apart       \* no two transactions on one material were ever open together

vars == <<lots, available, isActive, isFrozen, inventory, requests, taken,
          tx, opened, apart>>
tables == <<lots, available, isActive, isFrozen, inventory, requests, taken>>

Nothing == [x \in {} |-> 0]
Idle == [op |-> "idle"]
LotsOf(m) == {l \in Lots : MaterialOf[l] = m}
Less(a, b) == IF b > a THEN 0 ELSE a - b

(* A transaction: the quantity wanted of each lot, the flag writes to do,  *)
(* and for lots and inventory what it read (not yet saved) and saved.      *)
Transaction(op, want) ==
    [op |-> op, want |-> want, request |-> 0, verdict |-> "PENDING", claimed |-> TRUE,
     flags |-> {}, flagged |-> {}, read |-> Nothing, left |-> Nothing,
     stockRead |-> Nothing, stockLeft |-> Nothing]

IsOpen(c) == tx[c] # Idle
Others(c) == {d \in Clerks \ {c} : IsOpen(d)}
MaterialsOf(t) == {MaterialOf[l] : l \in DOMAIN t.want}

Open(c, t) ==
    /\ tx[c] = Idle
    /\ apart' = (apart /\ \A d \in Others(c) : MaterialsOf(tx[d]) \cap MaterialsOf(t) = {})
    /\ opened < IF apart' THEN MaxOpened ELSE MaxRaced
    /\ opened' = opened + 1
    /\ tx' = [tx EXCEPT ![c] = t]
    /\ UNCHANGED tables

Step(c, t) == tx' = [tx EXCEPT ![c] = t] /\ UNCHANGED <<tables, opened, apart>>

LotLocked(c, l) == \E d \in Others(c) : l \in tx[d].flagged \cup DOMAIN tx[d].left
StockLocked(c, m) == \E d \in Others(c) : m \in DOMAIN tx[d].stockLeft

Wants == UNION {[S -> 1..MaxQuantity] : S \in (SUBSET lots) \ {{}}}
Debit(t, m) == Total(t.want, {l \in DOMAIN t.want : MaterialOf[l] = m})
FlagsDone(t) == t.claimed /\ t.flags \subseteq t.flagged
LotsDone(t) == FlagsDone(t) /\ DOMAIN t.want = DOMAIN t.left
TakesStock(t) == \/ t.op \in {"receive", "consume", "dispose"}
                 \/ t.op = "resolve" /\ t.verdict = "APPROVED"

-----------------------------------------------------------------------------
(* Opening a transaction.                                                  *)

(* receiveLote inserts the lot.  The QR of a receipt is locked and used    *)
(* once: no other transaction receives the same lot.                       *)
Receive(c, l) ==
    /\ l \notin lots
    /\ \A d \in Others(c) : tx[d].op = "receive" => l \notin DOMAIN tx[d].want
    /\ LET want == [k \in {l} |-> Received[l]]
       IN Open(c, [Transaction("receive", want) EXCEPT !.left = want])

(* consumeMaterials and disposeLotes with explicit lots.                   *)
TakeLots(c, op, want) == Open(c, Transaction(op, want))

(* consumeMaterials by material: its usable lots are read at once, and a   *)
(* lot is taken from only when the older ones are used up.  Each total the *)
(* lots can serve is one such want; any other total throws.                *)
Usable(l) == l \in lots /\ isActive[l] /\ ~isFrozen[l]

ConsumeFifo(c, want) ==
    /\ \A l \in DOMAIN want : Usable(l) /\ want[l] <= available[l]
    /\ \A l \in DOMAIN want, k \in Lots :
           /\ MaterialOf[k] = MaterialOf[l]
           /\ k < l /\ Usable(k)
           => k \in DOMAIN want /\ want[k] = available[k]
    /\ Open(c, [Transaction("consume", want) EXCEPT
                  !.read = [l \in DOMAIN want |-> available[l]]])

(* requestDisposeLotes: the lots are of one material, active and not       *)
(* frozen; the quantities are not compared with what the lots hold.        *)
CanRequest(want) ==
    /\ \A l \in DOMAIN want : Usable(l)
    /\ \A k, l \in DOMAIN want : MaterialOf[k] = MaterialOf[l]

AskDisposal(c, want) ==
    /\ CanRequest(want)
    /\ Open(c, [Transaction("request", want) EXCEPT !.flags = DOMAIN want])

(* resolveWasteRequest reads a PENDING request.                            *)
AnyRequest(r) == r \in DOMAIN requests
PendingOnly(r) == requests[r].status = "PENDING"

StartResolve(c, r, verdict) ==
    /\ PendingOnly(r)
    /\ Open(c, [Transaction("resolve", requests[r].want) EXCEPT
                  !.request = r, !.verdict = verdict, !.claimed = FALSE])

-----------------------------------------------------------------------------
(* The steps of an open transaction.                                       *)

(* The new status of the request is saved, and its lots are read: those    *)
(* still frozen will be thawed.                                            *)
Claim(c) ==
    LET t == tx[c]
    IN /\ IsOpen(c) /\ ~t.claimed
       /\ \A d \in Others(c) : ~(tx[d].op = "resolve" /\ tx[d].claimed
                                   /\ tx[d].request = t.request)
       /\ Step(c, [t EXCEPT !.claimed = TRUE,
                            !.flags = {l \in DOMAIN t.want : isFrozen[l]}])

(* lote.is_frozen is saved.                                                *)
WriteFlag(c, l) ==
    /\ IsOpen(c) /\ tx[c].claimed
    /\ l \in tx[c].flags \ tx[c].flagged
    /\ ~LotLocked(c, l)
    /\ Step(c, [tx[c] EXCEPT !.flagged = @ \cup {l}])

(* The next lot is read, once the one before is saved.                     *)
MayTake(t, l) ==
    /\ l \in lots /\ isActive[l]
    /\ t.op = "consume" => ~isFrozen[l]
    /\ t.want[l] <= available[l]

ReadLot(c, l) ==
    LET t == tx[c]
    IN /\ IsOpen(c) /\ TakesStock(t) /\ FlagsDone(t)
       /\ l \in DOMAIN t.want \ DOMAIN t.left
       /\ DOMAIN t.read \subseteq DOMAIN t.left
       /\ MayTake(t, l)
       /\ Step(c, [t EXCEPT !.read = [k \in DOMAIN @ \cup {l} |->
                                        IF k = l THEN available[l] ELSE @[k]]])

(* The lot is saved with what was read minus what is taken.                *)
TakesAll(t, l) == 0
LeftOf(t, l) == t.read[l] - t.want[l]

WriteLot(c, l) ==
    LET t == tx[c]
    IN /\ IsOpen(c) /\ l \in DOMAIN t.read \ DOMAIN t.left
       /\ ~LotLocked(c, l)
       /\ Step(c, [t EXCEPT !.left = [k \in DOMAIN @ \cup {l} |->
                                        IF k = l THEN LeftOf(t, l) ELSE @[k]]])

(* The consolidated balance is read, once the lots are saved.              *)
MayDebit(t, m) == t.op = "consume" => inventory[m] >= Debit(t, m)

ReadStock(c, m) ==
    LET t == tx[c]
    IN /\ IsOpen(c) /\ TakesStock(t) /\ LotsDone(t)
       /\ m \in MaterialsOf(t) \ DOMAIN t.stockRead
       /\ DOMAIN t.stockRead = DOMAIN t.stockLeft
       /\ MayDebit(t, m)
       /\ Step(c, [t EXCEPT !.stockRead = [k \in DOMAIN @ \cup {m} |->
                                             IF k = m THEN inventory[m] ELSE @[k]]])

OnlyDebits(t, m) == Less(t.stockRead[m], Debit(t, m))
StockAfter(t, m) ==
    IF t.op = "receive" THEN t.stockRead[m] + Debit(t, m)
    ELSE Less(t.stockRead[m], Debit(t, m))

WriteStock(c, m) ==
    LET t == tx[c]
    IN /\ IsOpen(c) /\ m \in DOMAIN t.stockRead \ DOMAIN t.stockLeft
       /\ ~StockLocked(c, m)
       /\ Step(c, [t EXCEPT !.stockLeft = [k \in DOMAIN @ \cup {m} |->
                                             IF k = m THEN StockAfter(t, m) ELSE @[k]]])

(* Any error, or losing a deadlock, undoes the transaction.                *)
Rollback(c) == IsOpen(c) /\ Step(c, Idle)

-----------------------------------------------------------------------------
(* Commit: what was saved becomes visible.                                 *)

Finished(t) == IF TakesStock(t) THEN LotsDone(t) /\ MaterialsOf(t) = DOMAIN t.stockLeft
                                ELSE FlagsDone(t)

(* A lot whose saved balance is zero is saved inactive.                    *)
ActiveAfter(t, l) ==
    IF l \notin DOMAIN t.left THEN isActive[l]
    ELSE IF t.op = "receive" THEN TRUE
    ELSE isActive[l] /\ t.left[l] > 0

StaysFrozen(t, l) == isFrozen[l] \/ l \in t.flagged
FrozenAfter(t, l) == IF l \in t.flagged THEN t.op = "request" ELSE isFrozen[l]

RequestsAfter(t) ==
    IF t.op = "resolve"
    THEN [requests EXCEPT ![t.request].status = t.verdict]
    ELSE IF t.op = "request"
    THEN [r \in DOMAIN requests \cup {Cardinality(DOMAIN requests) + 1} |->
            IF r \in DOMAIN requests THEN requests[r]
            ELSE [want |-> t.want, status |-> "PENDING"]]
    ELSE requests

Takes(t, l) == TakesStock(t) /\ t.op # "receive" /\ l \in DOMAIN t.want

Commit(c) ==
    LET t == tx[c]
    IN /\ IsOpen(c) /\ Finished(t)
       /\ t.op = "request" => Cardinality(DOMAIN requests) < MaxRequests
       /\ lots' = IF t.op = "receive" THEN lots \cup DOMAIN t.want ELSE lots
       /\ available' = [l \in Lots |-> IF l \in DOMAIN t.left THEN t.left[l]
                                                              ELSE available[l]]
       /\ isActive' = [l \in Lots |-> ActiveAfter(t, l)]
       /\ isFrozen' = [l \in Lots |-> FrozenAfter(t, l)]
       /\ inventory' = [m \in Materials |-> IF m \in DOMAIN t.stockLeft
                                            THEN t.stockLeft[m] ELSE inventory[m]]
       /\ requests' = RequestsAfter(t)
       /\ taken' = [l \in Lots |-> IF Takes(t, l) THEN taken[l] + t.want[l]
                                                  ELSE taken[l]]
       /\ tx' = [tx EXCEPT ![c] = Idle]
       /\ UNCHANGED <<opened, apart>>

-----------------------------------------------------------------------------
Init ==
    /\ lots = Stored
    /\ available = [l \in Lots |-> IF l \in Stored THEN Received[l] ELSE 0]
    /\ isActive = [l \in Lots |-> l \in Stored]
    /\ isFrozen = [l \in Lots |-> FALSE]
    /\ inventory = [m \in Materials |-> Total(Received, Stored \cap LotsOf(m))]
    /\ requests = [r \in {} |-> 0]
    /\ taken = [l \in Lots |-> 0]
    /\ tx = [c \in Clerks |-> Idle]
    /\ opened = 0
    /\ apart = TRUE

Next == \E c \in Clerks :
    \/ \E l \in Lots : Receive(c, l)
    \/ \E op \in {"consume", "dispose"}, want \in Wants : TakeLots(c, op, want)
    \/ \E want \in Wants : ConsumeFifo(c, want)
    \/ \E want \in Wants : AskDisposal(c, want)
    \/ \E r \in DOMAIN requests, verdict \in {"APPROVED", "REJECTED"} :
           StartResolve(c, r, verdict)
    \/ Claim(c)
    \/ \E l \in Lots : WriteFlag(c, l)
    \/ \E l \in Lots : ReadLot(c, l)
    \/ \E l \in Lots : WriteLot(c, l)
    \/ \E m \in Materials : ReadStock(c, m)
    \/ \E m \in Materials : WriteStock(c, m)
    \/ Commit(c)
    \/ Rollback(c)

Spec == Init /\ [][Next]_vars
-----------------------------------------------------------------------------
(* Properties.                                                             *)

(* Every row has its type, whatever the stale saves wrote.                 *)
TypeOK ==
    /\ lots \subseteq Lots
    /\ available \in [Lots -> Nat]
    /\ isActive \in [Lots -> BOOLEAN]
    /\ isFrozen \in [Lots -> BOOLEAN]
    /\ inventory \in [Materials -> Nat]
    /\ DOMAIN requests \subseteq Requests
    /\ \A r \in DOMAIN requests : /\ requests[r].want \in Wants
                                  /\ requests[r].status \in {"PENDING", "APPROVED", "REJECTED"}
    /\ taken \in [Lots -> Nat]
    /\ apart \in BOOLEAN

(* Whatever transactions overlap, lost updates only overstate a lot: what  *)
(* it holds and what was taken from it cover what was received; and a lot  *)
(* that can be used has stock: a stale save may leave stock on a lot that  *)
(* another transaction deactivated, never an active lot without stock.     *)
NeverUnderstated ==
    \A l \in lots : /\ Received[l] <= available[l] + taken[l]
                    /\ isActive[l] => available[l] > 0

(* What a lot holds is what it brought minus what the committed            *)
(* consumptions and disposals took.                                        *)
TakenIsSubtracted ==
    apart => \A l \in lots : Received[l] = available[l] + taken[l]

(* The tables are well formed, and the consolidated balance of a material  *)
(* is the sum of its active lots, unless transactions on it overlapped.    *)
InventoryIsLots ==
    /\ TypeOK
    /\ apart => \A m \in Materials :
          inventory[m] = Total(available, {l \in lots \cap LotsOf(m) : isActive[l]})

(* A lot is frozen exactly while one pending waste request names it, so    *)
(* that a resolution always thaws what it should and nothing else.         *)
Naming(l) == {r \in DOMAIN requests : requests[r].status = "PENDING"
                                        /\ l \in DOMAIN requests[r].want}
FrozenWhilePending ==
    apart => \A l \in lots : IF isFrozen[l] THEN Cardinality(Naming(l)) = 1 ELSE Naming(l) = {}

(* Manual 6.8: the quantity of a disposal is subtracted at once from the   *)
(* stock of the lot and the global stock of the material.                  *)
DisposalIsSubtracted ==
    [][\A c \in Clerks : LET t == tx[c] IN
         t.op = "dispose" /\ tx'[c] = Idle /\ taken' # taken =>
             /\ \A l \in DOMAIN t.want : available'[l] = available[l] - t.want[l]
             /\ \A m \in MaterialsOf(t) : inventory'[m] = inventory[m] - Debit(t, m)]_vars

(* resolveWasteRequest: "Solicitud no encontrada o ya resuelta."  A        *)
(* resolved request keeps its verdict, unless two transactions on one      *)
(* material overlapped: both may then have read it PENDING.                *)
ResolvedOnce ==
    [][apart => \A r \in DOMAIN requests :
         requests[r].status # "PENDING" => requests'[r] = requests[r]]_vars
=============================================================================
