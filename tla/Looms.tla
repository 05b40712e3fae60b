-------------------------------- MODULE Looms --------------------------------
(***************************************************************************)
(* The looms (backend/src/modules/telares/telares.service.js): spools of   *)
(* tape (PTI) go from a rack to the creel of a loom, a run weaves them     *)
(* according to a technical sheet (BOM), and every finished roll debits    *)
(* (backflushes) the creel FIFO.                                           *)
(*                                                                         *)
(* READ COMMITTED.  A handler whose reads are all FOR UPDATE is one action *)
(* (loadLoomCreel, startLoomRun, finishLoomRun).  finishRollAndBackflush   *)
(* reads the loom in a join that locks the run only: its snapshot, the     *)
(* run's lock and the writes are three actions.  The catalogue form sends  *)
(* back the whole row it was opened with.                                  *)
(*                                                                         *)
(* Spools are in thousandths; the columns keep hundredths (Stored).  Every *)
(* spool weighs the same, so kilograms follow the spools.                  *)
(***************************************************************************)
EXTENDS Naturals, FiniteSets, Sequences, Totals

CONSTANTS
    TheLooms, Racks, Boms, Ptis,
    PtiOf,          \* the PTI a rack holds
    InRack,         \* whole spools in each rack when the behaviour starts
    Carts,          \* the racks that are transport carts (container_type)
    Traced,         \* the racks whose QR has a traceable balance
    PtisOfBom,      \* the PTIs a sheet weaves
    Supported,      \* supported_bom_ids of each loom
    InitialMode,    \* telares.pti_transfer_mode
    Capacities,     \* creel capacities the catalogue form may save
    Demands,        \* what a planned or finished roll may need of a PTI
    Keys,           \* idempotency keys of the clients
    Sessions,       \* concurrent requests
    Editors,        \* the sessions that have the loom catalogue open
    MaxRuns         \* bound: runs started

Modes == {"RACK_PARTIAL", "CART_FULL"}
NoBom == "none"
Spool == 1000

ASSUME LoomAssumption ==
    /\ PtiOf \in [Racks -> Ptis]
    /\ InRack \in [Racks -> Nat]
    /\ Carts \subseteq Racks /\ Traced \subseteq Racks
    /\ PtisOfBom \in [Boms -> SUBSET Ptis]
    /\ Supported \in [TheLooms -> SUBSET Boms]
    /\ InitialMode \in Modes
    /\ Capacities \subseteq Nat /\ Capacities # {}
    /\ Demands \subseteq {n \in Nat : n >= 10}
    /\ NoBom \notin Boms
    /\ Editors \subseteq Sessions

VARIABLES
    mode,       \* system setting telares.pti_transfer_mode
    racks,      \* pti_racks.current_quantity
    traced,     \* traceable_items.quantity_current of the racks
    looms,      \* rows of looms
    wip,        \* rows of loom_pti_wip_items, in received_at order
    runs,       \* rows of loom_runs
    rolls,      \* rows of viajero_rolls, each with its backflush entries
    desk        \* the open request of each session

vars == <<mode, racks, traced, looms, wip, runs, rolls, desk>>

Idle == [op |-> "idle"]
Smaller(a, b) == IF a < b THEN a ELSE b
Larger(a, b) == IF a > b THEN a ELSE b
Less(a, b) == IF a > b THEN a - b ELSE 0

(* What a DECIMAL(_,2) column keeps.                                       *)
Stored(x) == 10 * ((x + 5) \div 10)

OpenRuns(l) == {k \in DOMAIN runs : runs[k].loom = l /\ runs[k].open}
RowsOf(l, p) == {i \in DOMAIN wip : wip[i].loom = l /\ PtiOf[wip[i].rack] = p}
Remaining == [i \in DOMAIN wip |-> wip[i].remaining]
Left(S) == Total(Remaining, S)
RollsOf(l) == {n \in DOMAIN rolls : rolls[n].loom = l}

-----------------------------------------------------------------------------
SetMode(m) ==
    /\ mode' = m
    /\ UNCHANGED <<racks, traced, looms, wip, runs, rolls, desk>>

(* loadLoomCreel: n spools leave rack r for the creel of loom l.           *)

(* The sheets whose PTIs the creel accepts: that of the open run, else the *)
(* last one woven, else the supported ones (none: any).                    *)
SheetsOf(l) ==
    IF OpenRuns(l) # {} THEN {runs[k].bom : k \in OpenRuns(l)}
    ELSE IF looms[l].bom # NoBom THEN {looms[l].bom}
    ELSE Supported[l]
MayLoad(l, p) == SheetsOf(l) # {} => \E b \in SheetsOf(l) : p \in PtisOfBom[b]

InStock(r, n) == n > 0 /\ n <= racks[r]

LoadCreel(l, r, n) ==
    /\ mode = IF r \in Carts THEN "CART_FULL" ELSE "RACK_PARTIAL"
    /\ InStock(r, n)
    /\ mode = "CART_FULL" => n = racks[r]
    /\ MayLoad(l, PtiOf[r])
    /\ looms[l].spools + n <= looms[l].capacity
    /\ r \in Traced => n <= traced[r]
    /\ racks' = [racks EXCEPT ![r] = @ - n]
    /\ traced' = [q \in Traced |-> IF q = r THEN traced[q] - n ELSE traced[q]]
    /\ looms' = [looms EXCEPT ![l].spools = @ + n]
    /\ wip' = Append(wip, [loom |-> l, rack |-> r, received |-> n, remaining |-> n])
    /\ UNCHANGED <<mode, runs, rolls, desk>>

-----------------------------------------------------------------------------
(* startLoomRun: the loom is locked, so two starts are serialised.         *)

Covers(l, need) == \A p \in DOMAIN need : need[p] <= Left(RowsOf(l, p))
Needs(b) == [PtisOfBom[b] -> Demands]

StartRun(l, b) ==
    /\ Len(runs) < MaxRuns
    /\ OpenRuns(l) = {}
    /\ Supported[l] # {} => b \in Supported[l]
    /\ PtisOfBom[b] # {}
    /\ \E planned \in Needs(b) : Covers(l, planned)
    /\ runs' = Append(runs, [loom |-> l, bom |-> b, open |-> TRUE, produced |-> 0])
    /\ looms' = [looms EXCEPT ![l].status = "EN_PRODUCCION", ![l].bom = b]
    /\ UNCHANGED <<mode, racks, traced, wip, rolls, desk>>

(* No transaction holds the run's row FOR UPDATE.                          *)
AlwaysFree(k) == k \in DOMAIN runs
NotInUse(k) == \A w \in Sessions : ~(/\ desk[w].op = "roll"
                                     /\ desk[w].run = k
                                     /\ desk[w].locked)

(* finishLoomRun: the loom is free and keeps the spools of its creel.      *)
FinishRun(k) ==
    /\ NotInUse(k)
    /\ runs[k].open
    /\ runs' = [runs EXCEPT ![k].open = FALSE]
    /\ looms' = [looms EXCEPT ![runs[k].loom].status = "DISPONIBLE"]
    /\ UNCHANGED <<mode, racks, traced, wip, rolls, desk>>

-----------------------------------------------------------------------------
(* finishRollAndBackflush.                                                 *)

(* The advisory lock on the idempotency key is held until the transaction  *)
(* ends; a key that already has a roll is only answered again.             *)
KeyUnused(key) == \A n \in DOMAIN rolls : rolls[n].key # key
KeyFree(key) ==
    /\ KeyUnused(key)
    /\ \A w \in Sessions : desk[w].op = "roll" => desk[w].key # key

(* The statement that reads the run, joined with its loom: if it waits for *)
(* the run's lock, the run is read again and the loom is not.              *)
RollRead(w, key, k) ==
    /\ desk[w] = Idle
    /\ KeyFree(key)
    /\ desk' = [desk EXCEPT ![w] =
                   [op |-> "roll", key |-> key, run |-> k, locked |-> FALSE,
                    spools |-> looms[runs[k].loom].spools,
                    total |-> looms[runs[k].loom].total]]
    /\ UNCHANGED <<mode, racks, traced, looms, wip, runs, rolls>>

RollLock(w) ==
    /\ desk[w].op = "roll" /\ ~desk[w].locked
    /\ NotInUse(desk[w].run)
    /\ runs[desk[w].run].open
    /\ desk' = [desk EXCEPT ![w].locked = TRUE]
    /\ UNCHANGED <<mode, racks, traced, looms, wip, runs, rolls>>

(* What row i gives to a demand its loom has for its PTI, oldest first.    *)
Older(i) == {j \in RowsOf(wip[i].loom, PtiOf[wip[i].rack]) : j < i}
Newer(i) == {j \in RowsOf(wip[i].loom, PtiOf[wip[i].rack]) : j > i}
GivesToNewest(i, demand) == Smaller(wip[i].remaining, Less(demand, Left(Newer(i))))
GivesAlone(i, demand) == Smaller(wip[i].remaining, demand)
Gives(i, demand) == Smaller(wip[i].remaining, Less(demand, Left(Older(i))))

WholeSpoolsLeft(remaining, given) == Spool * ((remaining - given) \div Spool)
RowLeft(remaining, given) == Stored(remaining - given)

(* Consecutive number of the roll on its loom.                             *)
NextOfTotal(total, l) == total + 1
NextSequence(total, l) == Larger(total, Cardinality(RollsOf(l))) + 1

RollWrite(w, need) ==
    LET d == desk[w]
        l == runs[d.run].loom
        rows == {i \in DOMAIN wip : wip[i].loom = l /\ PtiOf[wip[i].rack] \in DOMAIN need}
        given == [i \in rows |-> Gives(i, need[PtiOf[wip[i].rack]])]
        total == Total(given, rows)
        taken == {i \in rows : given[i] > 0}
        sequence == NextSequence(d.total, l)
    IN /\ Covers(l, need)
       /\ total <= d.spools + 1
       /\ wip' = [i \in DOMAIN wip |->
                    IF i \in taken THEN [wip[i] EXCEPT !.remaining = RowLeft(@, given[i])]
                    ELSE wip[i]]
       /\ rolls' = Append(rolls,
              [run |-> d.run, loom |-> l, key |-> d.key, sequence |-> sequence,
               need |-> need, entries |-> [i \in taken |-> Stored(given[i])]])
       /\ looms' = [looms EXCEPT ![l].spools = Stored(Less(d.spools, total)),
                                 ![l].total = sequence]
       /\ runs' = [runs EXCEPT ![d.run].produced = @ + 1]
       /\ desk' = [desk EXCEPT ![w] = Idle]
       /\ UNCHANGED <<mode, racks, traced>>

RollCommit(w) ==
    /\ desk[w].op = "roll" /\ desk[w].locked
    /\ \E need \in Needs(runs[desk[w].run].bom) : RollWrite(w, need)

-----------------------------------------------------------------------------
(* saveLoom, from the catalogue form: the columns of the form overwrite    *)
(* those of the row.  deactivateLoom: two unlocked reads, then the write.  *)

OpenForm(w, l) ==
    /\ desk[w] = Idle
    /\ desk' = [desk EXCEPT ![w] = [op |-> "form", loom |-> l, row |-> looms[l]]]
    /\ UNCHANGED <<mode, racks, traced, looms, wip, runs, rolls>>

SaveForm(w, capacity) ==
    LET d == desk[w]
    IN /\ d.op = "form"
       /\ d.row.spools <= capacity
       /\ looms' = [looms EXCEPT
              ![d.loom].spools = d.row.spools, ![d.loom].status = d.row.status,
              ![d.loom].active = d.row.active, ![d.loom].capacity = capacity]
       /\ desk' = [desk EXCEPT ![w] = Idle]
       /\ UNCHANGED <<mode, racks, traced, wip, runs, rolls>>

CheckUnused(w, l) ==
    /\ desk[w] = Idle
    /\ OpenRuns(l) = {}
    /\ desk' = [desk EXCEPT ![w] = [op |-> "deactivate", loom |-> l]]
    /\ UNCHANGED <<mode, racks, traced, looms, wip, runs, rolls>>

Deactivate(w) ==
    /\ desk[w].op = "deactivate"
    /\ looms' = [looms EXCEPT ![desk[w].loom].active = FALSE,
                              ![desk[w].loom].status = "DETENIDO"]
    /\ desk' = [desk EXCEPT ![w] = Idle]
    /\ UNCHANGED <<mode, racks, traced, wip, runs, rolls>>

(* The request fails, or its form is closed: nothing is written.           *)
Rollback(w) ==
    /\ desk[w] # Idle
    /\ desk' = [desk EXCEPT ![w] = Idle]
    /\ UNCHANGED <<mode, racks, traced, looms, wip, runs, rolls>>

-----------------------------------------------------------------------------
Init ==
    /\ mode = InitialMode
    /\ racks = [r \in Racks |-> Spool * InRack[r]]
    /\ traced = [r \in Traced |-> Spool * InRack[r]]
    /\ looms \in [TheLooms -> [spools : {0}, total : {0}, capacity : Capacities,
                               status : {"DISPONIBLE"}, bom : {NoBom}, active : {TRUE}]]
    /\ wip = <<>> /\ runs = <<>> /\ rolls = <<>>
    /\ desk = [w \in Sessions |-> Idle]

Next ==
    \/ \E m \in Modes \ {mode} : SetMode(m)
    \/ \E l \in TheLooms, r \in Racks : \E n \in 1..InRack[r] : LoadCreel(l, r, Spool * n)
    \/ \E l \in TheLooms, b \in Boms : StartRun(l, b)
    \/ \E k \in DOMAIN runs : FinishRun(k)
    \/ \E w \in Sessions, key \in Keys, k \in DOMAIN runs : RollRead(w, key, k)
    \/ \E w \in Sessions : RollLock(w)
    \/ \E w \in Sessions : RollCommit(w)
    \/ \E w \in Editors, l \in TheLooms : OpenForm(w, l)
    \/ \E w \in Editors, capacity \in Capacities : SaveForm(w, capacity)
    \/ \E w \in Editors, l \in TheLooms : CheckUnused(w, l)
    \/ \E w \in Editors : Deactivate(w)
    \/ \E w \in Sessions : Rollback(w)

Spec == Init /\ [][Next]_vars

-----------------------------------------------------------------------------
(* Properties.                                                             *)

LoomType == [spools : Nat, total : Nat, capacity : Nat, active : BOOLEAN,
             status : {"DISPONIBLE", "EN_PRODUCCION", "DETENIDO"},
             bom : Boms \cup {NoBom}]
RowType == [loom : TheLooms, rack : Racks, received : Nat, remaining : Nat]
RunType == [loom : TheLooms, bom : Boms, open : BOOLEAN, produced : Nat]
DeskType == {Idle}
            \cup [op : {"roll"}, key : Keys, run : DOMAIN runs, locked : BOOLEAN,
                  spools : Nat, total : Nat]
            \cup [op : {"form"}, loom : TheLooms, row : LoomType]
            \cup [op : {"deactivate"}, loom : TheLooms]

(* Every row has its type; what a roll used are rows of the creels.        *)
TypeOK ==
    /\ mode \in Modes
    /\ racks \in [Racks -> Nat]
    /\ traced \in [Traced -> Nat]
    /\ looms \in [TheLooms -> LoomType]
    /\ wip \in Seq(RowType)
    /\ runs \in Seq(RunType)
    /\ \A n \in DOMAIN rolls :
        /\ rolls[n].run \in DOMAIN runs
        /\ rolls[n].loom = runs[rolls[n].run].loom
        /\ rolls[n].key \in Keys /\ rolls[n].sequence \in Nat
        /\ DOMAIN rolls[n].entries \subseteq DOMAIN wip
    /\ desk \in [Sessions -> DeskType]

(* A client that sends a finished roll again, after an answer or while the *)
(* first request is still open, never makes a second roll: the advisory    *)
(* lock on the key is enough, without the unique index on the column.      *)
OneRollPerKey ==
    \A m, n \in DOMAIN rolls : rolls[m].key = rolls[n].key => m = n

Received == [i \in DOMAIN wip |-> wip[i].received]
FromRack(r) == {i \in DOMAIN wip : wip[i].rack = r}
Entries(i) == {n \in DOMAIN rolls : i \in DOMAIN rolls[n].entries}
Given(i) == Total([n \in Entries(i) |-> rolls[n].entries[i]], Entries(i))

(* Spools are neither made nor lost from rack to roll: what left a rack is *)
(* in the rows of the creels that came from it, and each row is what it    *)
(* still holds plus what the genealogy of the rolls says it gave, up to    *)
(* one hundredth per backflush entry (the rounding of the columns).        *)
SpoolsAccounted ==
    /\ TypeOK
    /\ \A r \in Racks : Spool * InRack[r] = racks[r] + Total(Received, FromRack(r))
    /\ \A r \in Traced : traced[r] = racks[r]
    /\ \A i \in DOMAIN wip :
          LET hundredths == 10 * Cardinality(Entries(i))
          IN /\ wip[i].remaining + Given(i) <= wip[i].received + hundredths
             /\ wip[i].received <= wip[i].remaining + Given(i) + hundredths

(* The genealogy of a roll accounts for what its sheet needs of each PTI,  *)
(* from rows of its own loom, however many rows it had to take it from.    *)
EntriesOf(roll, p) == {i \in DOMAIN roll.entries : PtiOf[wip[i].rack] = p}
Charged(roll, p) == Total(roll.entries, EntriesOf(roll, p))
ChargedRight(roll) ==
    /\ \A i \in DOMAIN roll.entries : wip[i].loom = roll.loom
    /\ \A p \in DOMAIN roll.need :
        /\ Charged(roll, p) <= roll.need[p] + 5 * Cardinality(EntriesOf(roll, p))
        /\ roll.need[p] <= Charged(roll, p) + 5 * Cardinality(EntriesOf(roll, p))
RollIsCharged == \A n \in DOMAIN rolls : ChargedRight(rolls[n])

(* A creel is consumed FIFO: a row gives nothing while an older row of the *)
(* same loom and PTI keeps spools, whatever is loaded meanwhile.           *)
ConsumedFifo ==
    [][\A i, j \in DOMAIN wip :
         /\ i < j /\ wip[i].loom = wip[j].loom
         /\ PtiOf[wip[i].rack] = PtiOf[wip[j].rack]
         /\ wip'[j].remaining < wip[j].remaining
         => wip'[i].remaining = 0]_vars

(* A roll is only registered on a run that is still open when the roll     *)
(* commits: closing the run waits for the roll that is being registered.   *)
RollsBelongToOpenRuns ==
    [][Len(rolls') > Len(rolls) => runs[rolls'[Len(rolls')].run].open]_vars

(* The numbers of the rolls of a loom, printed in their codes, never       *)
(* repeat, and each run counts its own rolls, although the loom's counter  *)
(* is written from a read that may be stale.                               *)
LoomHistory ==
    /\ \A m, n \in DOMAIN rolls :
          rolls[m].loom = rolls[n].loom /\ rolls[m].sequence = rolls[n].sequence => m = n
    /\ \A k \in DOMAIN runs :
          runs[k].produced = Cardinality({n \in DOMAIN rolls : rolls[n].run = k})

-----------------------------------------------------------------------------
(* What the repository's checks and documents say, and the code does not   *)
(* keep.                                                                   *)

(* scripts/test-warehouse-to-telares-integrity.js: the creel's aggregate   *)
(* is the sum of its rows ("los saldos agregados del telar no se           *)
(* reconciliaron tras el backflush" when it is not).                       *)
CreelMatchesRows ==
    \A l \in TheLooms :
        looms[l].spools = Left({i \in DOMAIN wip : wip[i].loom = l})
=============================================================================
