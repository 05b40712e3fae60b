-------------------------------- MODULE PtiRacks --------------------------------
(***************************************************************************)
(* The racks between Extrusion and the looms: production is scanned into   *)
(* racks (scanRackPti, backend/src/modules/extrusion/extrusion.service.js),*)
(* they stay in custody of the shift until it is closed, and the looms     *)
(* take bobbins from them (loadLoomCreel and debitRackTraceability,        *)
(* backend/src/modules/telares/telares.service.js).                        *)
(*                                                                         *)
(* A scan locks the row of the run before the racks and the closing of a   *)
(* shift pauses that row before it releases the racks, so each handler is  *)
(* one action.  The price of a rack is edited without a lock: its read and *)
(* its save are two.  A request goes on with the session it read first.    *)
(*                                                                         *)
(* One run per machine: how a run becomes ACTIVA and what its mixture      *)
(* weighs is ExtruderQueue's, what a loom accepts is Looms'.  Weights are  *)
(* in thousandths of a kilogram, rounded where the code rounds.  Left out: *)
(* scrap, costs and prices, a unit weight typed in the scan, carts (their  *)
(* load takes every piece), and corrections of production, which never     *)
(* reach the rack.                                                         *)
(***************************************************************************)
EXTENDS Integers, Sequences, FiniteSets, Totals

CONSTANTS
    Runs,        \* runs of the extruders, each of its own machine
    Cargo,       \* the PTI product of a run, with the route of its machine
    Standard,    \* unit weight of each cargo in the catalogue
    Mixture,     \* what the container of each run holds
    Clerks,      \* concurrent requests of Extrusion
    Capacities,  \* pieces a new rack may hold
    Pieces,      \* pieces one scan may report
    Scales,      \* weights the scale may show
    Units,       \* unit weights an edit may set; 0 leaves it empty
    MaxSessions, \* bound: shift sessions
    MaxRacks,    \* bound: racks
    MaxLoads,    \* bound: loads of the looms
    MaxEdits     \* bound: edits of the price of a rack

ASSUME RackAssumption ==
    /\ \A q \in Runs : Standard[Cargo[q]] \in Nat \ {0} /\ Cargo[q] # "VACIO"
    /\ Mixture \in [Runs -> Nat]
    /\ Capacities \subseteq Nat \ {0}
    /\ Pieces \subseteq Nat \ {0}
    /\ Scales \subseteq Nat \ {0}
    /\ Units \subseteq Nat
    /\ MaxSessions \in Nat /\ MaxRacks \in Nat /\ MaxLoads \in Nat
    /\ MaxEdits \in Nat

VARIABLES
    session,    \* the ABIERTO shift session, 0 if none
    opened,     \* sessions opened so far
    queue,      \* the extruder_queue row of each run
    left,       \* what is left in the container of each run
    racks,      \* pti_racks, by id; kg is the balance of the rack's QR
    entries,    \* extrusion_production_entries, each of a scan, and whether
                \* its session was closed by then (history)
    loads,      \* loom_pti_wip, by id
    desk,       \* what each request of Extrusion has read
    edit,       \* the open edit of a rack, and what it read of it
    edits,      \* edits of a price so far
    zeroed      \* racks whose pieces an edit overwrote

vars == <<session, opened, queue, left, racks, entries, loads, desk, edit, edits, zeroed>>
production == <<queue, left, entries>>
edition == <<edit, edits, zeroed>>

Idle == [op |-> "idle"]
Empty == "VACIO"
Smaller(a, b) == IF a < b THEN a ELSE b
Less(a, b) == IF a > b THEN a - b ELSE 0
Rounded(a, b) == (2 * a + b) \div (2 * b)
Hundredths(kg) == 10 * Rounded(kg, 10)

-----------------------------------------------------------------------------
(* requireActiveShift, and the client that gives up or is refused.         *)
Begin(c) ==
    /\ desk[c] = Idle
    /\ session # 0
    /\ desk' = [desk EXCEPT ![c] = [op |-> "ready", session |-> session]]
    /\ UNCHANGED <<session, opened, production, racks, loads, edition>>

Ready(c) == desk[c].op = "ready"
Answer(c) == desk' = [desk EXCEPT ![c] = Idle]

Rollback(c) ==
    /\ Ready(c)
    /\ Answer(c)
    /\ UNCHANGED <<session, opened, production, racks, loads, edition>>

(* switchQueuePriority, as far as the racks see it.                        *)
Activate(c, q) ==
    /\ Ready(c)
    /\ queue[q].status \in {"EN_ESPERA", "PAUSADA"}
    /\ queue' = [queue EXCEPT ![q] = [status |-> "ACTIVA", session |-> desk[c].session]]
    /\ Answer(c)
    /\ UNCHANGED <<session, opened, left, racks, entries, loads, edition>>

-----------------------------------------------------------------------------
NewRack(capacity, unit) ==
    [cargo |-> Empty, pieces |-> 0, unit |-> unit, custody |-> 0, kg |-> 0,
     capacity |-> capacity]

WithNew(n, new) ==
    [j \in 1..(Len(racks) + n) |-> IF j \in DOMAIN racks THEN racks[j] ELSE new]

(* createPtiRack.                                                          *)
CreateRack(capacity) ==
    /\ Len(racks) < MaxRacks
    /\ racks' = WithNew(1, NewRack(capacity, 0))
    /\ UNCHANGED <<session, opened, production, loads, desk, edition>>

(* A rack takes one product and route at a time, from one shift.           *)
Accepts(rack, cargo, s) ==
    /\ rack.custody \in {0, s}
    /\ rack.pieces > 0 => rack.cargo = cargo

Room(rack) == Less(rack.capacity, rack.pieces)
Rooms(all) == [j \in DOMAIN all |-> Room(all[j])]

(* The racks a scan may fill: the scanned one first, then the others by    *)
(* id; each takes what fits of the pieces that are left.                   *)
Filling(all, cargo, s) == {j \in DOMAIN all : Accepts(all[j], cargo, s)}
Ahead(S, k, j) == IF j = k THEN {} ELSE {k} \cup {i \in S : i < j}
OverfilledShare(all, S, k, pieces, j) ==
    Less(pieces, Total(Rooms(all), Ahead(S, k, j)))
PiecesFor(all, S, k, pieces, j) ==
    IF j \in S
    THEN Smaller(Room(all[j]), Less(pieces, Total(Rooms(all), Ahead(S, k, j))))
    ELSE 0

(* As many racks are created as what does not fit needs, each as large as  *)
(* the scanned one.                                                        *)
Missing(cargo, s, pieces) ==
    Less(pieces, Total(Rooms(racks), Filling(racks, cargo, s)))
Needed(n, capacity, missing) ==
    /\ missing <= n * capacity
    /\ n > 0 => (n - 1) * capacity < missing

(* The net weight is shared by pieces; the last rack takes the rest.       *)
RoundedShare(S, k, given, pieces, net, j) == Rounded(net * given[j], pieces)
ShareFor(S, k, given, pieces, net, j) ==
    LET share == [i \in S |-> Rounded(net * given[i], pieces)]
        before == Total(share, Ahead(S, k, j) \cap S)
        rest == Less(net, before)
        last == \A i \in S : j \notin Ahead(S, k, i)
    IN IF last THEN rest ELSE Smaller(rest, share[j])

(* The shift that filled a rack keeps it.                                  *)
KeptBy(rack, s) == IF rack.pieces = 0 THEN s ELSE rack.custody
Custodian(rack, s) == s

Filled(rack, cargo, s, pieces, unit, kg) ==
    [rack EXCEPT !.cargo = cargo,
                 !.custody = Custodian(rack, s),
                 !.pieces = @ + pieces,
                 !.unit = IF rack.pieces = 0 \/ @ = 0 THEN unit ELSE @,
                 !.kg = @ + kg]

UnitOf(rack, cargo) == IF rack.pieces > 0 THEN rack.unit ELSE Standard[cargo]
NetOf(pieces, unit, scale) == IF scale > 0 THEN scale ELSE pieces * unit

Scans == {e.scan : e \in entries}

(* scanRackPti: pieces of run q into rack k; scale is 0 if nothing was     *)
(* weighed.                                                                *)
ScanInto(all, c, q, k, pieces, net, unit) ==
    LET s == desk[c].session
        cargo == Cargo[q]
        S == Filling(all, cargo, s)
        given == [j \in DOMAIN all |-> PiecesFor(all, S, k, pieces, j)]
        served == {j \in S : given[j] > 0}
        kg(j) == ShareFor(served, k, given, pieces, net, j)
    IN /\ racks' = [j \in DOMAIN all |->
              IF j \in served THEN Filled(all[j], cargo, s, given[j], unit, kg(j))
              ELSE all[j]]
       /\ entries' = entries \cup
              {[scan |-> Cardinality(Scans) + 1, rack |-> j, run |-> q, session |-> s,
                late |-> s # session, pieces |-> given[j], net |-> kg(j)] : j \in served}

ScanRack(c, q, k, pieces, scale) ==
    LET s == desk[c].session
        known == UnitOf(racks[k], Cargo[q])
        unit == IF known = 0 THEN Rounded(scale, pieces) ELSE known
        net == NetOf(pieces, known, scale)
        missing == Missing(Cargo[q], s, pieces)
    IN /\ Ready(c)
       /\ queue[q] = [status |-> "ACTIVA", session |-> s]
       /\ Accepts(racks[k], Cargo[q], s)
       /\ net > 0 /\ net <= left[q]
       /\ \E n \in 0..pieces :
             /\ Needed(n, racks[k].capacity, missing)
             /\ Len(racks) + n <= MaxRacks
             /\ ScanInto(WithNew(n, NewRack(racks[k].capacity, unit)),
                         c, q, k, pieces, net, unit)
       /\ left' = [left EXCEPT ![q] = @ - net]
       /\ queue' = [queue EXCEPT ![q].status = IF left[q] = net THEN "COMPLETADA" ELSE @]
       /\ Answer(c)
       /\ UNCHANGED <<session, opened, loads, edition>>

-----------------------------------------------------------------------------
(* openExtrusionShiftSession adopts what is ACTIVA.                        *)
OpenSession ==
    /\ session = 0
    /\ opened < MaxSessions
    /\ opened' = opened + 1
    /\ session' = opened + 1
    /\ queue' = [q \in Runs |-> IF queue[q].status = "ACTIVA"
                                THEN [queue[q] EXCEPT !.session = opened + 1]
                                ELSE queue[q]]
    /\ UNCHANGED <<left, racks, entries, loads, desk, edition>>

(* closeExtrusionShiftSession pauses its runs and releases its racks.      *)
CloseSession ==
    /\ session # 0
    /\ queue' = [q \in Runs |-> IF queue[q] = [status |-> "ACTIVA", session |-> session]
                                THEN [queue[q] EXCEPT !.status = "PAUSADA"]
                                ELSE queue[q]]
    /\ racks' = [k \in DOMAIN racks |-> IF racks[k].custody = session
                                        THEN [racks[k] EXCEPT !.custody = 0]
                                        ELSE racks[k]]
    /\ session' = 0
    /\ UNCHANGED <<opened, left, entries, loads, desk, edition>>

-----------------------------------------------------------------------------
(* beforeSave of the rack: an empty rack has no product.                   *)
Bare(rack) == [rack EXCEPT !.cargo = Empty]
Saved(rack) == IF rack.pieces = 0 THEN [rack EXCEPT !.cargo = Empty] ELSE rack

EntriesOf(k) == {e \in entries : e.rack = k}
OldestOf(k) == CHOOSE e \in EntriesOf(k) : \A d \in EntriesOf(k) : e.scan <= d.scan
LatestOf(k) == CHOOSE e \in EntriesOf(k) : \A d \in EntriesOf(k) : d.scan <= e.scan

(* loadLoomCreel: n bobbins leave the rack for a loom; the balance of the  *)
(* QR must cover their weight (within a gram), which has two decimals.     *)
LoadCreel(k, n) ==
    LET rack == racks[k]
        unit == IF rack.unit > 0 THEN rack.unit ELSE Standard[rack.cargo]
        kg == Hundredths(n * unit)
    IN /\ rack.custody = 0
       /\ n \in 1..rack.pieces
       /\ Len(loads) < MaxLoads
       /\ kg > 0 /\ kg <= rack.kg + 1
       /\ loads' = Append(loads, [rack |-> k, cargo |-> rack.cargo, pieces |-> n,
                                  kg |-> kg, source |-> LatestOf(k)])
       /\ racks' = [racks EXCEPT ![k] = Saved([rack EXCEPT !.pieces = @ - n, !.kg = @ - kg])]
       /\ UNCHANGED <<session, opened, production, desk, edition>>

(* updatePtiRackPrice reads the rack without a lock and saves the columns  *)
(* that changed.  The hook sets the pieces of a rack read empty to the     *)
(* number 0, which is not the "0.00" that was read, so they are saved too. *)
ReadPrice(k) ==
    /\ edit = Idle
    /\ edits < MaxEdits
    /\ edits' = edits + 1
    /\ edit' = [op |-> "edit", rack |-> k, empty |-> racks[k].pieces = 0,
                bare |-> racks[k].cargo = Empty]
    /\ UNCHANGED <<session, opened, production, racks, loads, desk, zeroed>>

SavePrice(unit) ==
    LET k == edit.rack
        rack == [racks[k] EXCEPT !.unit = unit]
        emptied == [rack EXCEPT !.pieces = 0,
                                !.cargo = IF edit.bare THEN @ ELSE Empty]
    IN /\ edit.op = "edit"
       /\ racks' = [racks EXCEPT ![k] = IF edit.empty THEN emptied ELSE rack]
       /\ zeroed' = IF edit.empty /\ rack.pieces > 0 THEN zeroed \cup {k} ELSE zeroed
       /\ edit' = Idle
       /\ UNCHANGED <<session, opened, production, loads, desk, edits>>

-----------------------------------------------------------------------------
Init ==
    /\ session = 0
    /\ opened = 0
    /\ queue = [q \in Runs |-> [status |-> "EN_ESPERA", session |-> 0]]
    /\ left = Mixture
    /\ racks = <<>>
    /\ entries = {}
    /\ loads = <<>>
    /\ desk = [c \in Clerks |-> Idle]
    /\ edit = Idle
    /\ edits = 0
    /\ zeroed = {}

Handle(c) ==
    \/ Begin(c)
    \/ Rollback(c)
    \/ \E q \in Runs : Activate(c, q)
    \/ \E q \in Runs, k \in DOMAIN racks, pieces \in Pieces, scale \in Scales \cup {0} :
          ScanRack(c, q, k, pieces, scale)

Next ==
    \/ \E c \in Clerks : Handle(c)
    \/ \E capacity \in Capacities : CreateRack(capacity)
    \/ OpenSession
    \/ CloseSession
    \/ \E k \in DOMAIN racks : \E n \in 1..racks[k].pieces : LoadCreel(k, n)
    \/ \E k \in DOMAIN racks : ReadPrice(k)
    \/ \E unit \in Units : SavePrice(unit)

Spec == Init /\ [][Next]_vars
-----------------------------------------------------------------------------
Cargoes == {Cargo[q] : q \in Runs}
RackType == [cargo : Cargoes \cup {Empty}, pieces : Nat, unit : Nat, custody : Nat,
             kg : Int, capacity : Nat]
EntryType == [scan : Nat, rack : Nat, run : Runs, session : Nat, late : BOOLEAN,
              pieces : Nat \ {0}, net : Nat]
LoadType == [rack : Nat, cargo : Cargoes, pieces : Nat, kg : Nat, source : EntryType]

(* Every table is well formed; no bobbin is in a rack, or in a loom,       *)
(* without its product.                                                    *)
TypeOK ==
    /\ session \in Nat /\ opened \in Nat
    /\ queue \in [Runs -> [status : {"EN_ESPERA", "ACTIVA", "PAUSADA", "COMPLETADA"},
                           session : Nat]]
    /\ left \in [Runs -> Nat]
    /\ racks \in Seq(RackType)
    /\ \A k \in DOMAIN racks : racks[k].pieces > 0 => racks[k].cargo # Empty
    /\ entries \subseteq EntryType
    /\ loads \in Seq(LoadType)
    /\ desk \in [Clerks -> {Idle} \cup [op : {"ready"}, session : Nat]]
    /\ edit \in {Idle} \cup [op : {"edit"}, rack : Nat, empty : BOOLEAN,
                             bare : BOOLEAN]
    /\ edits \in Nat /\ zeroed \subseteq Nat

LoadsOf(k) == {i \in DOMAIN loads : loads[i].rack = k}
LoadedPieces == [i \in DOMAIN loads |-> loads[i].pieces]
LoadedKg == [i \in DOMAIN loads |-> loads[i].kg]
ScannedPieces == [e \in entries |-> e.pieces]
ScannedKg == [e \in entries |-> e.net]

(* Bobbins are not lost nor made between the extruder and the looms, over  *)
(* scans that overflow into other racks and into new ones: a rack holds    *)
(* what was scanned into it and not loaded, and never more than fits.      *)
(* Except the racks whose pieces an edit of the price overwrote.           *)
PiecesReconcile ==
    \A k \in DOMAIN racks \ zeroed :
        /\ racks[k].pieces + Total(LoadedPieces, LoadsOf(k)) =
               Total(ScannedPieces, EntriesOf(k))
        /\ racks[k].pieces <= racks[k].capacity

(* So with kilograms, whatever was rounded: what the mixture gave is in    *)
(* the production entries, and these are in the balance of the rack's QR   *)
(* or in the looms.                                                        *)
MassReconcile ==
    /\ \A q \in Runs :
          Mixture[q] = left[q] + Total(ScannedKg, {e \in entries : e.run = q})
    /\ \A k \in DOMAIN racks :
          racks[k].kg + Total(LoadedKg, LoadsOf(k)) = Total(ScannedKg, EntriesOf(k))

(* The custody of a rack ("Turno que produjo este PTI; bloquea movimientos *)
(* hasta su cierre"): what the open session filled stays in its custody,   *)
(* whatever overflowed where, so that no loom takes it; and no rack is in  *)
(* the custody of a session that did not fill it, nor of a closed one but  *)
(* through a scan that was registered when it was closed already.          *)
CustodyIsTheShift ==
    \A k \in DOMAIN racks : LET custodian == racks[k].custody IN
        /\ \A e \in EntriesOf(k) : e.session = session => custodian = session
        /\ custodian # 0 => \E e \in EntriesOf(k) :
               e.session = custodian /\ (e.late \/ custodian = session)

(* The bobbins of a loom are traced to a production of their own product   *)
(* and route, also from a rack that was emptied and filled with another.   *)
SpoolTraceIsRight ==
    \A i \in DOMAIN loads :
        /\ loads[i].source \in EntriesOf(loads[i].rack)
        /\ Cargo[loads[i].source.run] = loads[i].cargo
=============================================================================
