# Verification of the MES backend

TLA+ specifications, TLC configurations and TLAPS proofs for the manufacturing
execution system of this repository: the Node/Express service under
`src/backend` that follows raw material from the warehouse, through extrusion
and weaving, to the finished rolls.

The service is a set of HTTP handlers over one PostgreSQL database (Sequelize,
READ COMMITTED, a pool of 10 connections). The service schedules nothing: every
step is a request of a person with a scanner or a screen, and the only clocks
are the browser's (the heartbeat of the session and the polling of the
notifications, which keep a login alive). What makes it hard is
that many of those people work on the same rows at once, that handlers read some
rows with `FOR UPDATE` and others without, that they save absolute values
computed from what they read, and that the same kilograms are recorded in
several tables (lots, consolidated inventory, labels, work in process,
traceable items, racks, preparations) which only the order of the code keeps in
step.

## 1. Inventory

| Component | State it keeps | Operations | What makes it correct |
|---|---|---|---|
| Consumption orders `warehouse/consumptionOrder.service.js` | orders, their lines, child QRs, WIP rows, traceable balances, lots, inventory | create (FIFO allocation), status, scan to fulfil (with split and substitution), cancel; `consumeWip` of the plant | no line over-delivered, a label of one line only, what was delivered is in the plant or consumed, a completed order was delivered |
| Warehouse stock `warehouse/inventoryDomain.service.js`, `warehouse.service.js` | lots, consolidated inventory, waste requests, movements | receive, consume (explicit or FIFO), dispose, ask for a disposal, resolve it | what leaves is subtracted once; consolidated balance = active lots; a lot is frozen exactly while a request is pending |
| Looms `telares/telares.service.js` | transfer mode, racks, creel rows, loom aggregates, runs, rolls with their backflush | load creel, start run, finish roll and backflush, finish run, catalogue form, deactivate | a retried roll debits once, every spool is in a rack, in the creel or in a roll, roll numbers do not repeat, FIFO |
| Extrusion `extrusion/extrusion.service.js` | shift sessions and closures, queue of each machine, preparations and containers, production entries, scrap logs | mix, enqueue, scan a rack, register scrap, switch the queue, correct production or scrap, discard WIP, open, reconcile and close a shift | kilograms balance through overruns and corrections, a container is queued once, a row that ended does not run again, runs belong to the open shift, a reconciled shift stays as it was |
| Routing of rolls `telares/productionRules.js`, `telares.service.js` 1988-2222 | roll's stage, next stage, route and history | weave with a route, validate a scan, advance | stages in the order of the route, each once, by whichever handler |
| Laminado, Globo `laminado`, `globo`, `wip` | rolls, specifications, WIP rows with their labels, links | transform a roll, create orders, edit specifications | a lamination is charged in full or not at all, oldest material first |
| PTI racks `extrusion.service.js` 2187-2690, 3020-3070, `telares.service.js` 600-860, `ptiRack.model.js` | racks, the balance of their QR, production entries, loads of the looms | create, scan with overflow into other and new racks, custody of the shift, load a loom, edit the price | bobbins and kilograms of scans = racks + looms, what the open shift filled is in its custody, the looms' bobbins are traced |
| Sessions of users `auth`, `auth.middleware.js`; `axiosClient.js`, `authStore.js`, `SessionActivityGuard.jsx` | `session_token` of the user, the JWT of each browser, calls on their way | login, logout, reload, poll, heartbeat, renewal | one device at a time; an active user stays in; a superseded device gets out |
| Traceability, processes, intermediate | traceable items, links, process runs | transfer, receive in an area, prepare, output to rack | quantities follow the links |
| QR codes | batches, serials, print events | create, print, genealogy tree | serials are unique |
| Reception, silos | receipts, silo contents | receive, allocate silo content | receipt creates lot, balance and label together |
| Scrap | containers, events | weigh, report | sums |
| Formulas, catalogues, roles and permissions, notifications, audit, reports, web client, migrations | rows without a protocol | create, read, update | - |

How they interact: everything through the database. Consumption orders and
warehouse stock share lots and inventory; the labels (child QRs) that a
consumption order issues are what mixtures and transformations consume with
`consumeWip`; a mixture of Extrusion becomes PTI in racks; racks load the creels
of the looms; a finished roll gets a route and goes through the stations of the
plant and the lamination, which spends WIP. Every call passes the middleware
that checks and renews the session.

The hard behaviours, line by line, are the `hazards` of `PROJECT.json`:
stale reads of status (`cancelOrder`, `updateOrderStatus`), absolute saves that
overlap (`inventoryDomain`), aggregates read outside the lock (the loom's
`current_spools_count`), retries of a roll whose answer was lost, requests that
go on with a shift session that was closed meanwhile, balances clamped at zero
and corrected later, production that overflows from rack to rack, answers of
the session that come late or never, and sequences of legal calls nobody tested
(split, substitute, release, queue again, correct).

## 2. Modules

| Module | Models | Lines of TLA+ are about |
|---|---|---|
| `MaterialIssue` | abstract specification: what the consumption orders promise | asked, issued, in the plant, spent |
| `ConsumptionOrders` | the consumption orders; refines `MaterialIssue` (`ImplementsLedger`) | one action per handler, two where the read is not locked |
| `WarehouseStock` | transactions of the warehouse, one action per read, save and commit | lost updates |
| `Looms` | creel, runs, rolls | one action per locked handler, three for a roll |
| `ExtruderQueue` | mixture queue of one extruder, shift sessions | one action per handler, two for enqueueing and for the switch |
| `RollJourney` | abstract specification: what a route promises | path, stations passed |
| `RollRoutes` | routes of the rolls and the lamination; refines `RollJourney` (`ImplementsJourney`) | one action per handler: each takes the roll and the WIP rows before it looks |
| `PtiRacks` | racks between two extruders and the looms, over the shift sessions | one action per handler, two for the edit of a price |
| `Sessions` | one user on several browsers, with calls that are late or lost, and time | a call is sent, served, received or lost; a tick |
| `Totals` | the sum of a column over a set of rows, for all of them | one operator |
| `TotalTheorems` | lemmas about those sums | |
| `ConsumptionOrdersProofs`, `WarehouseStockProofs`, `LoomsProofs`, `ExtruderQueueProofs`, `RollRoutesProofs`, `PtiRacksProofs`, `SessionsProofs` | theorems | |
| `MC...` | values of the constants for TLC | |

`PROJECT.json` (`map`) gives the source lines of every definition. Common
conventions:

* A handler that takes its rows `FOR UPDATE` before it reads them is one action:
  at READ COMMITTED another transaction sees all of it or nothing. A handler
  that reads without a lock keeps what it read in `desk` (or `tx`) and writes in
  a later action, so that anything may commit in between.
* A handler that throws rolls back: `Rollback` drops the desk. A crash of the
  service or a deadlock that the database breaks looks the same.
* Sequelize writes only the columns that changed with respect to what was read.
  Saves therefore use absolute values of stale reads, and a status that was
  already read as requested is not written at all.
* Quantities are naturals in the smallest unit of the column. The tolerances of
  0.001 in the code disappear with them. Where thousandths meet hundredths, the
  rounding is modelled: spools saved in columns of hundredths (`Stored` in
  `Looms`), the weight a load takes from a rack (`Hundredths` in `PtiRacks`),
  and the containers of a preparation, which are cut with `toFixed(2)` while the
  preparation keeps what was mixed (`DividedInto` in `ExtruderQueue`).
* Some variables and fields are history: the code has no column for them and no
  guard reads them. `madeFor` (orders), `apart` (stock; only a bound reads it),
  `raced` and `overrun` (queue), `zeroed` and `late` of an entry (racks) and
  `shared` (sessions) let a property name its exception exactly, instead of the
  model leaving out the steps that cause it.
* Costs, notes, events, notifications, PDF and permissions are left out: no
  modelled guard reads them.

### ConsumptionOrders

`CreateOrder` allocates FIFO and reserves nothing. `StatusRead`, `LinesRead` and
`StatusWrite` are `updateOrderStatus`. `LinesRead` is the read of
`ensureChildQrsForOrder` (209): without a lock, the raw lines of an order older
than the labels that have none. `StatusWrite` labels exactly the lines that were
read (`LinesToLabel`), although another request may have labelled them, and a
scan may have delivered them, meanwhile. So a line may have had several labels:
`madeFor` remembers the line each was made for, and `RowsOfLine` are the WIP
rows under any of them. `CancelRead` and `CancelWrite` are `cancelOrder`.
`Scan` is `scanFulfillmentItem` with its outcomes (the planned lot, another lot
that substitutes it, another lot that splits a line already begun). `ConsumeWip`
is the consumption by the plant. Lots are ordered by age. `MaterialIssue` knows
neither lots nor labels nor transactions: an order asks, the warehouse issues
while it is being prepared, the plant holds what was issued until it is spent.
The refinement maps lines to sums by material.

### WarehouseStock

A transaction is a record in `tx`: what it wants, what it read of each lot and
of the consolidated balance, what it saved. Reads see committed rows, a save
takes the row lock until the commit. Where the code walks a list, the model
takes the rows in any order. Every material already has its inventory row, and
a waste request names lots of one material, as the screen does. `apart` (not a
column) remembers whether two transactions on one material were ever open
together: most properties hold only as long as they were not, and say so;
`NeverUnderstated` holds whatever overlaps.

### Looms

`RollRead` takes the advisory lock of the idempotency key and the snapshot of
the loom in the join that locks only the run, `RollLock` waits for the run,
`RollCommit` writes. The catalogue form (`OpenForm`, `SaveForm`) sends the whole
row back. All spools weigh the same and loom numbers are distinct. A sheet uses
one amount of each of its PTIs.

### ExtruderQueue

A request passes `requireActiveShift` (`Begin`) and keeps the session it read.
Any number of them may be open, and outlive the session. The unit is half a
hundredth of a kilogram, the most that a container differs from its share of the
preparation (`Rounding`); `Mixed` is what is mixed, `Filled` what the containers
hold. `raced` (not a column) remembers the containers that two `enqueueMix`, which
locks nothing it checks, were adding at once. A handler that would write a row
another switch has locked waits (`WaitsForNobody`).
Rows of `extruder_queue` are never removed; a container queued again has
several. `Finished` is `completeQueueIfDepleted`, which the scan, the scrap, the
correction and the closure all call; it gives the set of tables the code may
leave, because which sibling follows (priority, age) is not modelled. `Charge`
is `applyPreparationDebitDelta`: container and preparation are clamped at zero
each by itself, and `overrun` (not a column) records what was charged beyond
what there was. Two containers belong to one batch when they come from one
preparation; the code also compares their frozen product and color, which the
containers of one preparation share. The scrap lines a supervisor may add by
hand to a switch are not modelled, only the estimate of the purge and the
leftover that is scrapped.

### RollRoutes

`FinishRoll` gives a roll one of the routes of its sheet that
`normalizeProductionRoute` admits; `ProcessStage` is the scan of a station
(`validateViajeroScan` with the `UPDATE` lock of the roll, then the advance);
`TransformRoll` is the lamination with its `consumeWip`. The name a request
gives (`Spoken`) is kept as it is given: validation compares its normal form
and the advance looks the raw name up, as in the code. WIP rows arrive and grow
(`Deliver`, `DeliverMore`: what `ConsumptionOrders` delivers to the area).
Meters are in standard lengths of a recipe, kilograms are whole; scrap meters
of a roll are left out because the code always refuses them for rolls of the
looms (observations). `RollJourney` knows neither handlers nor material: a roll
is woven with a path and passes its stations one by one.

### PtiRacks

A scan fills the scanned rack, then the racks that accept the same product and
route in the same shift, by id, then new ones (`Filling`, `Missing`,
`Needed`), and shares the weight by pieces (`ShareFor`: rounded to grams, the
last rack takes the rest). It locks the row of the run first, and the closing
of a shift pauses that row before it releases the racks, so both are one
action; a request goes on with the session it read in `Begin`, and the entries
of a scan remember whether that session was closed by then (`late`). A load of a loom
takes bobbins only from a rack that is in nobody's custody, weighs them with two
decimals (`Hundredths`) and traces them to the rack's last production. The edit
of a price reads without a lock, and the hook of the rack saves zero pieces
over a rack it read empty (`zeroed`, not a column, remembers it).

### Sessions

`users.session_token` is `current`: a counter, because only equality matters.
A JWT has a session and the ticks it still lives. A login saves the token and
then reads the user again (`SaveSession`, `SignSession`); `shared` (not a
column) remembers the sessions that a login of another session signed. `Serve`
is `authMiddleware`, `Succeed` and `Fail` are the interceptors of the browser,
`Lose` its 30 s timeout, `Reload` is `initializeAuth`. `Beat` is the heartbeat
of `SessionActivityGuard`, `Poll` the notifications that are asked every 5 s
while the screen is in front. A tick is longer than a call and no longer than
the interval of the heartbeat.

## 3. Runs

Runs that pass:

| Run | Instance | Distinct states | What it shows |
|---|---|---|---|
| `order_desk` | 1 order, 2 lots of raw material and 1 of a consumable, 2 clerks | 25.8 k | deliveries, lots and consolidated balance agree under stale reads; a completed order was delivered; every handler is a step of `MaterialIssue` |
| `shared_lots` | an order without labels over 2 of 3 lots of one material, 2 clerks | 408 k | labels, WIP rows, traceable balances and lines through splits, substitutions and requests that label the same line twice, while the plant consumes |
| `stock` | 3 lots of 2 materials, 2 sessions, 4 transactions (3 once two on one material overlapped), 2 requests | 224 k | as long as no two transactions on one material overlap, lots, balance, freezes and verdicts are exact; whatever overlaps, a lost update only overstates, and an active lot has stock |
| `creels` | 1 loom, a rack of 2 spools and a cart of 1, 2 keys, 2 sessions (one with the form open), 2 runs | 578 k | rolls, creel rows and racks explain each other at every interleaving |
| `mixture_queue` | a preparation of 2 containers and one of 1, 2 overlapping requests, 1 session, 3 rows, 1 entry, logs until there is one | 2.4 M | mass balance, batch and containers up to their rounding, queueing, and rows that ended |
| `rolls` | 3 rolls (two of fabric, a band) with routes of one and two stations, 2 recipes of 2 materials, 3 rows of up to 2 kg | 334 k | every roll is where its history and route say, a lamination is charged in full, oldest first; refines `RollJourney` |
| `racks` | 2 machines with a product each, 2 racks of 1 or 2 bobbins, 2 overlapping requests, 2 shift sessions, 2 loads, 1 edit | 1.5 M | bobbins and kilograms reconcile, what the open shift filled stays in its custody, the looms' bobbins are traced to their production |
| `sessions` | 2 devices, 2 logins, 1 loss, a JWT of 3 ticks, a heartbeat each tick, inactivity after 2 | 367 k | one device in the session, activity keeps it, a superseded device loses it; no deadlock |

Runs in which TLC finds what a text of the repository denies (the finding in
`PROJECT.json` quotes it):

| Run | What happens |
|---|---|
| `stale_cancel` | a cancellation that read PREPARANDO cancels an order whose last scan just committed |
| `stale_save` | two transactions read a lot of 2 before either saves it; the disposal that commits last writes 1 over the 1 of the other, so the lot holds 1 before and after it although 2 were taken |
| `stale_creel` | a roll writes back the loom's aggregate it read before a load; the load is lost from it |
| `inherited_run` | a container that follows automatically is ACTIVA under the shift in which it was queued: its scans are refused and a switch does not see it |

### Bounds, and why they are enough

* **Orders** (`MaxRequest`, `MaxInventory`, number of lots). Quantities up to 3
  allow a line to be delivered in two or three scans, exactly, short and from
  another lot; two lots of a material are what FIFO, split and substitution
  need. In `shared_lots` the third lot is the one that substitutes, and two
  clerks are what it takes to label a line twice; any number of orders that
  compete for the lots is proved. `StatusRequests = {PREPARANDO}` is the only
  status the screen sends.
* **Stock** (`MaxOpened`, `MaxRaced`, `MaxRequests`, `MaxQuantity`). Four
  transactions hold two requests and their resolutions; three hold a request,
  its resolution and something that overlaps it (`MaxRaced` is the bound once
  two transactions on one material overlapped; on different materials they
  overlap under the larger one);
  a lot of 2 and lots of 1 reach partial use, exact use and exhaustion.
* **Looms** (`MaxRuns`, `Keys`, `Demands`). A demand of 705 thousandths rounds
  in the columns, 1200 takes more than a spool and so crosses FIFO rows; two
  keys and two sessions retry one roll and overlap two; two runs separate the
  loom's numbers from the run's.
* **ExtruderQueue** (`MaxSessions`, `MaxRows`, `MaxEntries`, `MaxLogs`). Three
  rows queue the split preparation and one container again, or one twice. The
  split preparation of 3 is filled with 2 and 2, the whole one of 3 with 2:
  containers that hold more and less than was mixed. Weights of 2 empty a
  container, and with scrap overrun it; the scale shows 4, more than there was.
  No request adds scrap once there is a log, but one request may add two (a
  switch that scraps the leftover and estimates the purge). Two requests are open
  at once and may outlive the session; one session is enough, because no
  property of this run speaks of sessions. `inherited_run` has two, one request,
  weights of 1 and a scale of 0.
* **Rolls** (`MaxRows`, `MaxStock`, `Lengths`). Three rows are two of one
  material and one of another, so that a recipe of two materials is short of one,
  crosses rows, and meets rows that grow after they gave; a route of three
  stations has a station before and after the lamination; two rolls compete for
  the material. The requests name the stations of every route, by their
  normal names.
* **Racks** (`MaxSessions`, `MaxRacks`, `MaxLoads`, `MaxEdits`). Two racks are
  the scanned one and the one it overflows into (existing or created); two loads
  empty a rack in one or two steps before it is filled with another product; a
  scale of 41 g for two bobbins does not divide, a catalogue weight of 19 g is
  20 g for a loom. Two sessions and two requests are needed for anything stale:
  a switch and a scan that outlive their session while the other is open.
* **Sessions** (`MaxLogins`, `MaxLosses`, `Lifetime`, `Interval`,
  `Inactivity`). Two logins are one device taking over from the other, or both
  at once; one loss takes any one call. 12 hours are many intervals of
  5 minutes; a lifetime of 3 intervals keeps the order of the three times
  (heartbeat < inactivity < lifetime), on which the properties depend.

`CHECK_DEADLOCK FALSE` is set where the bounded number of transactions,
sessions, rows or rolls runs out and the system then really stops. Symmetry is
used for the interchangeable clerks and for the two containers of the split
preparation, which have equal content, and only in runs without liveness.
`sessions` has neither.

### Fairness

Only `Sessions` assumes fairness, of what machines do by themselves:

* time passes (`SF(Tick)`: a tick waits until the calls on their way are over,
  which the 30 s timeout of axios guarantees, so it is enabled again and again,
  not always);
* the intervals of the browser fire: `WF` of `Poll` (react-query, 5 s) and of
  `Beat` (`setInterval`);
* a call that was not lost is served and its answer arrives: `WF` of `Answer`
  and of the steps of a login. How many are lost is bounded (`MaxLosses`), which
  stands for "not all of them for ever".

No fairness is assumed of users: logging in, out, reloading, touching or
turning to another window may never happen. `SupersededEnds` says that no
behaviour ends with a screen in front that stays superseded. In the other modules every step is a request that a person may
or may not make, the service retries nothing and schedules nothing, and what
"must eventually" happen (a frozen lot resolved, estimated scrap weighed)
depends on users; they claim no liveness, but safety: what may never be left
behind.

### Mutants

Next to some definitions stands a second one that nothing uses, such as
`IsActive` before `IsQueued` or `ChargeAgain` before `Charge`: the same operator
with a plausible mistake. `PROJECT.json` (`mutants`) pairs each property with
such a definition; put in place of the right one, TLC finds the property
violated in the same run.

## 4. Proofs

TLAPS proves the following for every value of the constants that satisfies the
modules' named assumptions (`LotAssumption`, `RequestAssumption`,
`LoomAssumption`...). Every invariant and action property of the passing runs is
stated by a theorem; the liveness of `Sessions` is not.

| Theorem | Says |
|---|---|
| `ConsumptionOrdersProofs!Invariance` | `Spec => []IInv`, the inductive invariant |
| `OrderTablesTyped` | `TypeOK`; no debit takes the consolidated balance below zero |
| `TablesInvariance` | tables well formed, `NeverOverDelivered` |
| `LabelOwnership` | `LabelOwnedOnce`: a label belongs to at most one line |
| `PlantAccounting` | `DeliveredIsInPlant`, every WIP row has its line, also when overlapping requests labelled a line twice |
| `TraceInvariance` | `TraceMatchesWip` |
| `LiveLabels` | `LiveLabelHasStock`: a label is IN_WIP only while there is stock under it |
| `CompletionIsEarned` | `CompletedIsDelivered`, assuming SURTIDA is not in `StatusRequests` |
| `LotActivity` | `ActiveIffStock`: a lot is active exactly while it has stock (no run lists it) |
| `ScansReconcile` | `ScanReconciles` (an action property) |
| `OrdersImplementLedger` | `ImplementsLedger`: the refinement of `MaterialIssue`, if the status endpoint is asked for PREPARANDO and CANCELADA only |
| `OrdersKeepStock` | no handler makes or loses material and no order is issued more than it asked for, whatever the status endpoint is asked |
| `OrdersKeepThePromises` | the invariants and the action property of `MaterialIssue`, of the orders themselves, assuming SURTIDA is not in `StatusRequests` |
| `WarehouseStockProofs!StockIsCovered` | `NeverUnderstated`, however transactions overlap |
| `BalanceIsLots` | `InventoryIsLots` |
| `LotsLoseWhatIsTaken` | `TakenIsSubtracted` |
| `FrozenIffNamed` | `FrozenWhilePending` |
| `VerdictsStand` | `ResolvedOnce` (an action property) |
| `LoomsProofs!Invariance` | `Spec => []IInv` of the looms |
| `RetriesMakeOneRoll` | `OneRollPerKey` |
| `History` | `LoomHistory`: roll numbers do not repeat and each run counts its rolls |
| `RollsOnOpenRuns` | `RollsBelongToOpenRuns` (an action property) |
| `SpoolsAreAccounted` | `SpoolsAccounted`: every spool is in a rack, in a creel or in a roll |
| `RollsAreCharged` | `RollIsCharged`: a roll took what its sheet needs of each PTI |
| `OldestSpoolsFirst` | `ConsumedFifo` (an action property) |
| `ExtruderQueueProofs!PreparationsAreTheirContainers` | `BatchIsItsContainers`: up to the rounding of the containers |
| `MixturesBalance` | `MassBalance` |
| `ContainersAreQueuedOnce` | `ContainerQueuedOnce`, by any number of overlapping requests |
| `EndedRowsDoNotRun` | `EndedRowsStay` (an action property), the same |
| `RollRoutesProofs!RouteInvariance` | `FollowsItsRoute`, if requests name stations by their normal names |
| `RoutesImplementJourney` | `ImplementsJourney`: the refinement of `RollJourney`, under the same assumption |
| `RollTablesTyped` | `TypeOK` |
| `LaminationIsCharged` | `CoatingIsCharged` |
| `OldestMaterialFirst` | `OldestFirst` (an action property) |
| `PtiRacksProofs!Custody` | `CustodyIsTheShift`, however many requests overlap |
| `TablesAreTyped` | `TypeOK` |
| `PiecesAreKept` | `PiecesReconcile`, however many requests overlap |
| `MassIsKept` | `MassReconcile`, the same |
| `TraceIsOfTheBobbins` | `SpoolTraceIsRight`, the same |
| `SessionsProofs!SingleDevice` | `OneDevice` |
| `SessionsTyped` | `TypeOK` |
| `ActiveUserIsKept` | `ActiveIsKept`: the JWT of an active user does not expire |

What the assumptions on constants say: quantities are naturals, materials and
lots that name each other exist, and the sets that are summed are finite. Four
say more. `CanonicalNames`: requests use the names of stations that the routes
have. `DividedInto`: the containers of a preparation hold together what was
mixed, up to half a hundredth (equal parts and a rest, each rounded). The
statuses asked of the status endpoint: the screen asks only for PREPARANDO, the endpoint would
accept any. `Interval < Lifetime` of the sessions: 5 minutes and 12 hours.

**Sums.** Most balances are sums of a column over a set of rows (`Total`). The
library's fold is a recursive function on the subsets of a set. That it exists
and what it returns follows from strict inclusion being well-founded on the
subsets of a finite set: `SubsetInduction` and `FiniteInduction` speak of a *set*
of good subsets instead of a predicate, so they are first-order and the provers
can use them. From them `TotalTheorems` derives how a sum changes when a row
comes, goes or changes, that sums agree on equal columns, bounds, and the
arithmetic of FIFO: rows that give the portions of a demand, smallest number
first, give the whole of it (`PortionsSum`), and a row gives only when those
before it gave all they had (`PortionBounds`). Numbered steps, like the logs of a
closure one after the other, are treated likewise (`RangeInduction`,
`WalkExists` of `ExtruderQueueProofs`).

**The argument for the orders.** None of the properties is inductive alone. The
difficulty is that a line may have had several labels, of which it carries the
last to be written. So the invariant does not follow the label of a line, but
the line of a label (`madeFor`), which never changes: a split and a substitution
make a new label. `IInv` is the conjunction of: well-formed tables with
every id below `nextId` (`TablesOK`), no line over-delivered, a line's label
is one that was made for it (`LabelExists`), uses that came out of a WIP row
(`UsedFromRows`), requests about to label raw lines only (`BareKnown`);
that the rows under the labels made for a line brought what it was delivered
(`BroughtByLabels`), and are of its lot (`WipHasItsLine`); that consumption
keeps the traceable balance equal to the WIP balance (`TraceMatchesWip`) and a
label IN_WIP only while there is stock (`LiveLabelHasStock`). That a label is of
one line (`LabelOwnedOnce`) and that what was delivered is in the plant or was
consumed (`DeliveredIsInPlant`) follow. `CompletionIsEarned` adds what the desks hold: a status
write that commits late writes only what was requested, so SURTIDA comes from
the scan that delivered the last unit. The code does accept SURTIDA at the
endpoint, without a check; that is why the theorem has its assumption.

**The refinement of the ledger.** `ImplementsLedger` maps the lines of an order
and a material to what it asked and was issued (`AskedBy`, `IssuedTo`), the lots
and WIP rows of a material to `InWarehouse` and `InPlant`, and what was consumed
of its WIP rows (`Spent`) to `SpentOn`. `LedgerInv` adds to `IInv` that every line is of a placed order and
of a lot of its material. One lemma per handler shows what it does to the sums:
a creation is a `Place`, a scan an `Issue` (a substitution or a split moves a
line within its sum), `consumeWip` a `Spend`, a status a `SetPhase` or a stutter.
That the status endpoint may write any status is the only step the ledger does
not have, hence the assumption; `OrdersKeepStock` does without it, because such
a step moves no material.

**The argument for the stock.** `IInv` is `NeverUnderstated`, the shape of the
tables, and of every open transaction that it is `Honest`: what it read of a lot
covers, with what was taken so far, all the lot brought, and what it saved does
once its own taking is added. A stale read stays honest because what was taken
only grows; no lock plays a part, which is why the theorem holds for
overlapping transactions although they lose updates. The other theorems are
about what holds as long as no two transactions on one material overlapped
(`apart`). `Alone` says so: the open transactions have no material in common
(`Exclusive`), what each read is still what the tables hold (`Current`), and
then each lot is exact (`Subtracted`, `NamedOnce`) and so is each material
(`Balanced`). A commit changes the tables of its own materials,
and the others keep what they read because theirs are others.

**The argument for the looms.** `IInv` is `TablesOK` (well-formed tables, a roll
is of the loom of its run), `Numbered` (a loom's counter is the number of its
rolls, none is numbered above it, and numbers differ), `OneRollPerKey` and
`DeskOK`: of the registrations in progress, each has a key that no other has and
no roll carries, a run that is open once it is locked, and a stale reading of
the loom's counter that is at most the number of its rolls. The stale counter is
harmless because the new number is the larger of what the counter says and what
the count of rolls says. `CreelInv` follows the spools: a backflush gives each
row its portion of the demand, so the portions add up to the demand and what
the rows lose is what the roll's entries say, up to the rounding of a column of
hundredths (`StoredNear`: each entry is at most half a hundredth off).

**The argument for the mixture queue.** `QueueInv` is the shape of every table
and two balances: a preparation is within its containers (`BatchKept`), and of
each container what is left, less what it was charged beyond that, plus what was
produced and wasted, is what it was filled with (`MassOK`). `ChargeKeeps` is the
lemma everything rests on: clamped at zero or not, a charge that gives back
`back` and takes `kg` changes a container's account by exactly that, and the
preparation stays within its containers although the two are clamped each by
itself. The closure corrects log by log; after the first n logs the tables are
sound with those n weighed (`WeighedUpTo`), so after the last too. It gives
back the estimate of a log; that this is the log's weight holds unless it was
corrected before (`Recharge`), and that is the exception `MassBalance` names.
The containers and their preparation differ by the rounding with which they were
filled and by nothing later, because a charge is exact on both unless it is
clamped, and a clamp is an overrun. `OnceInv` says that a container with two
live rows is excused (`raced` or corrected), and of the desks: a request that
found a container out of the queue and adds it alone still finds it so, and one
that locked a live row finds it live when it writes, because every other handler
waits for the lock. The last is all that `EndedRowsStay` needs.

**The argument for the rolls.** `IInv` is `FollowsItsRoute` with the shape of
what is registered: every route visits different stations, so the place of a
station in it is where the history ended. `CanonicalNames` (`Spoken \subseteq
Stages`) is needed: an alias is in the route for the validation and at index -1
for the advance. With `IInv`, weaving maps to `Weave`, both handlers of a
station to `Advance`, and deliveries to stutters. `CoatInv` is about the material: a
roll gets the QR of a lamination once, so it is charged once, and its
requirement is the sum of the portions of the rows that gave.

**The argument for the racks.** For the custody, `IInv` is `RacksOK` (the racks are
well formed), `SessionsOK` (entries, requests and runs have sessions that were
opened) and `CustodyIsTheShift`. A scan fills racks that are in nobody's custody
or in that of its own session, so a rack that the open session filled is never
passed to the session of a late scan; what the late scan fills itself has an
entry that says `late`. `RackInv` is about bobbins
and kilograms: rack by rack, what was scanned into
it is in it or was loaded (`Reconciled`, `Weighed`), an entry is of one scan and
one rack, and a rack that holds bobbins was last filled with its product. The
shares of a scan, rounded rack by rack with the rest for the last, add up to its
weight (`SharesSum`).

**The argument for the sessions.** `IInv` is `TablesOK`, `Opened` (no JWT,
answer or login on its way is of a session not yet opened) and `OneOwner` (what
of one session is in a browser or on its way is of one device, unless the
session is `shared`). `SessionInv` adds that an answer on its way was given in
this tick, and that until a heartbeat is due a JWT is at most as old as the last
one; since `Interval < Lifetime`, it does not expire under an active user.
Fairness plays no part in either.

Only model-checked: `SupersededEnds` of `Sessions` (liveness under fairness), and
the absence of deadlock there (`ENABLED`): both out of the prover's reach. The
four violations are counterexamples and have no theorem.

## 5. Observations

Met while modelling, in no run of their own:

* An approved waste request writes no inventory movement, although
  `Manual_de_Usuario_MES.md` (119) sends the reader to the history of movements
  for what was disposed of. No property speaks of movements.
* Labels of orders older than the labels: when two requests for PREPARANDO
  overlap, the second may put its own label on a line that was delivered under
  the first (`ensureChildQrsForOrder`, 209 and 276). The delivered line then
  carries a label without WIP row or traceable balance, although "Toda MP surtida
  debe tener saldo trazable en el QR hijo" (`consumptionOrder.service.js` 730);
  the material is under the first label, IN_WIP, which no line carries.
  `DeliveredIsInPlant` and `LiveLabelHasStock` say what remains true.
* The containers of a preparation are rounded to hundredths (842, 850) while the
  preparation keeps thousandths (839), although the last container is said to
  adjust the rounding "para que la suma exacta sea totalQuantity" (848). They
  differ by up to half a hundredth (`BatchIsItsContainers`).
* `current_bom_id` of a loom is set by `startLoomRun` and never reset, so a free
  loom still refuses the spools of every other sheet, and without them no other
  sheet may start.
* `assignCartToLoom` always fails; `recordMixtureTransition` always fails when
  it displaces a run, because it does not pass the percentage of purge;
  `deactivateLoom` may commit under a run that is being started.
* Two `enqueueMix` at once queue a container twice: what they check is not
  locked. `ContainerQueuedOnce` excepts those containers (`raced`).
* Production and custody of a closed shift: a switch that passed
  `requireActiveShift` and outlives the shift makes a row ACTIVA in the closed
  session, and a scan that also outlives it then registers production there, and
  leaves the rack in the custody of the closed session: no handler releases it
  any more, no loom may take from it and no scan of another shift may fill it
  (`PTI_RACK_SHIFT_LOCKED`), against "Turno que produjo este PTI; bloquea
  movimientos hasta su cierre" (`ptiRack.model.js`). Both are reached in the
  models; `CustodyIsTheShift` names the entries that cause it (`late`), and no
  property says that it does not happen.
* A reconciliation starts from the estimate of each scrap log, also when the
  log was corrected and charged before; `MassBalance` excepts those logs
  (`Recharged`).
* A correction may return weight to a container whose row is finished and
  reopen it although it was queued again; `ContainerQueuedOnce` excepts it.
* A scan of a roll's stage out of sequence logs the block and throws inside the
  same transaction, so the log is lost (`telares.service.js` 2132).
* Waste requests: when two resolutions overlap, both pass the check of PENDING
  (`inventoryDomain.service.js` 469) and the stock may be taken twice; that is
  why `ResolvedOnce` and `FrozenWhilePending` say `apart`.
* Scrap that the closure of the machine reconciled can be corrected before the
  session is closed, and the closure keeps the old total
  (`extrusion.service.js` 3630), although the code says that earlier closures
  stay immutable.
* Rolls: `processViajeroStage` logs `from_stage` after it advanced the roll
  (`telares.service.js` 2194), so the log says that the roll came from where it
  is. A lamination with scrap meters always throws for a roll of the looms,
  which has no QrCode row (`laminado.service.js` 726). A plain scan of the
  station LAMINADO passes the lamination without material or a new QR. The alias
  CORTE DIRECTO is valid in `validateViajeroScan` and is not found by the advance
  (2153): the roll's next stage becomes the first of its route; the screens send
  normal names only.
* Racks: the edit of a price (`extrusion.service.js` 3052) of a rack read empty
  saves zero pieces over what was scanned meanwhile. A load weighs with two
  decimals what was produced with three, so the last bobbins of a rack may be refused because its balance does not cover them.
  A correction of production never reaches the rack.
* Sessions: `SessionActivityGuard.jsx` (10) says "Tras 10 minutos inactiva, deja
  correr el vencimiento JWT de 12 horas", but a screen left in front polls the
  notifications every 5 s and every poll renews the JWT, so it never expires.
  Logins that overlap share a session (`shared`). A 401 or a
  renewal of an old session that arrives after a new login of the same browser
  removes or overwrites the new JWT. Logout leaves the session open at the
  server, and a page that is loaded while the network fails loses its JWT.
* Hazards without a model: the number of an order is the count of orders plus
  one (`consumptionOrder.service.js` 46), so two creations at once compute the
  same; `disposeLotes` queries outside its transaction while it holds a connection
  of the pool (`warehouse.service.js` 293); the check of the weight equivalence
  compares a value with itself (`telares.service.js` 1683).
* A scan looks a queue row up by QR without its status, so a container that was
  released and queued again may be refused.

## 6. Not modelled

`PROJECT.json` (`components`) says for each component what is left out and why.

* **Traceability.** `scanQrCode` and `getAllowedActions` only read. No screen
  calls the operations that write, and the entry and the transfer cannot commit:
  they write attributes of the material that the migration
  `20260727000000-update-materials-catalog.js` (87) removed.
* **QR batches, reception's own records, silos, scrap containers, catalogues,
  roles, notifications, reports**: rows without a protocol, or one transaction
  whose effect another module has (`Receive` of `WarehouseStock`).
* **Globo**: new rolls cannot reach it, because no route that
  `normalizeProductionRoute` admits has it.
* **ptiWarehouseTransfer** (dispatch and sale of racks): no path of the screens
  reaches it. `shared/utils/transactionRetry.js` is used by nothing.
* **Web client**: apart from the session, it was read to decide which requests
  really arrive. Its modules `identity`, `production` and `printing` are mocks in
  memory. Most of the repository's lines are here, in seeders and in catalogue
  code, which is why the map covers a small share of them.
* Within the modelled components: several queues of Extrusion at once, spools of
  different weights, several BOM items of one PTI, purge material, costs, lock
  orders between rows (a deadlock is a `Rollback`) and the connection pool.

## 7. Plan

1. **Done**: `MaterialIssue`, `ConsumptionOrders`, `WarehouseStock`, `Looms`,
   `ExtruderQueue`; `RollRoutes` with `RollJourney`, `PtiRacks`, `Sessions`;
   their runs, and the proofs above.
2. **Done**: overlapping requests in `ExtruderQueue` and `PtiRacks` and overlapping
   labelling in `ConsumptionOrders`, with their exceptions named by history.
3. **Composition**: the racks of `PtiRacks` as the racks of `Looms`, and the WIP
   rows of `ConsumptionOrders` as those of `RollRoutes`; today each takes the
   other's steps as an action of its environment (`LoadCreel`, `Deliver`).
4. **Traceability**, once its writing operations can commit.
5. **Proofs**: the composition of point 3, from the theorems of its parts.
