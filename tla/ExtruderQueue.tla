----------------------------- MODULE ExtruderQueue -----------------------------
(***************************************************************************)
(* The mixture queue of an extruder                                        *)
(* (backend/src/modules/extrusion/extrusion.service.js).  A mixture is     *)
(* prepared in one or several containers, each with its QR; containers     *)
(* wait in the queue of the machine, one of them is ACTIVA and feeds it,   *)
(* and every scan of a rack and every scrap takes kilograms from the       *)
(* container and from its preparation.  Work belongs to a shift session,   *)
(* and estimated scrap is weighed when the shift is reconciled.            *)
(*                                                                         *)
(* One extruder.  A request first passes requireActiveShift, which reads   *)
(* the open session; the handler uses what was read, even if the session   *)
(* is closed meanwhile.  A handler that locks the rows it uses is then one *)
(* action; switchQueuePriority (the target is locked before the active     *)
(* row is looked up) and enqueueMix (nothing is locked) are two.           *)
(* Weights are naturals, in halves of a hundredth of a kilogram, so that   *)
(* the thousandths of tolerance of the checks are none.  Left out: racks   *)
(* and bobbins, costs, scrap of purge material (it has no mixture) and of  *)
(* no attributed mixture.                                                  *)
(***************************************************************************)
EXTENDS Naturals, Sequences, FiniteSets, SequencesExt, Totals

CONSTANTS
    Batches,     \* preparations (process_preparations)
    Containers,  \* containers of prepared mixture, by their QR
    BatchOf,     \* the preparation of each container
    Mixed,       \* what is mixed for each preparation
    Filled,      \* what each container holds when it is prepared
    Rounding,    \* half a hundredth: what toFixed(2) adds or drops
    Clerks,      \* concurrent requests
    Weights,     \* weights a scan or a scrap report may be of
    Scales,      \* weights the scales may show in a correction or a closure
    MaxSessions, \* bound: shift sessions
    MaxRows,     \* bound: queue rows
    MaxEntries,  \* bound: production entries
    MaxLogs      \* bound: no request logs scrap once there are so many logs

ContainersOf(b) == {m \in Containers : BatchOf[m] = b}

(* Two quantities that are the same up to d.                               *)
Within(d, x, y) == x <= y + d /\ y <= x + d

(* A preparation is divided into containers of hundredths: equal parts,    *)
(* and for the last one the rest, which is rounded too.                    *)
DividedInto(b) == Within(Rounding, Mixed[b], Total(Filled, ContainersOf(b)))

ASSUME MixAssumption ==
    /\ IsFiniteSet(Containers)
    /\ BatchOf \in [Containers -> Batches]
    /\ Mixed \in [Batches -> Nat]
    /\ Filled \in [Containers -> Nat]
    /\ Rounding \in Nat
    /\ \A b \in Batches : DividedInto(b)
    /\ Weights \subseteq Nat \ {0}
    /\ Scales \subseteq Nat
ASSUME BoundAssumption ==
    /\ MaxSessions \in Nat
    /\ MaxRows \in Nat
    /\ MaxEntries \in Nat
    /\ MaxLogs \in Nat

VARIABLES
    session,    \* the ABIERTO shift session, 0 if none
    opened,     \* sessions opened so far
    reconciled, \* sessions whose closure of the machine exists
    prepared,   \* batches mixed so far
    rows,       \* extruder_queue, by id
    balance,    \* containers, preparations and the overrun of each container
    entries,    \* extrusion_production_entries, by id
    logs,       \* extrusion_scrap_logs, by id
    desk,       \* what each request has read
    raced       \* containers that two requests were adding to the queue at once

vars == <<session, opened, reconciled, prepared, rows, balance, entries, logs, desk, raced>>
shift == <<session, opened, reconciled>>

Idle == [op |-> "idle"]
Live == {"EN_ESPERA", "PAUSADA", "ACTIVA"}
Less(a, b) == IF a > b THEN a - b ELSE 0
SameBatch(i, j) == BatchOf[rows[i].mix] = BatchOf[rows[j].mix]
RowsOf(rs, m) == {i \in DOMAIN rs : rs[i].mix = m}
BatchRows(b) == {i \in DOMAIN rows : BatchOf[rows[i].mix] = b}
InStatus(rs, S) == {i \in DOMAIN rs : rs[i].status \in S}

(* A row that a switch has locked and not released yet: others wait.       *)
Unlocked(c, i) == FALSE
HeldBy(c, i) == desk[c].op = "switch" /\ desk[c].target = i
Locked(c, i) == \E d \in Clerks \ {c} : HeldBy(d, i)
Changed(i) == rows'[i] # rows[i]
WaitsForNobody(c) == \A i \in DOMAIN rows : Changed(i) => ~Locked(c, i)

-----------------------------------------------------------------------------
(* Balances.  A debit is charged to a container and to its preparation;    *)
(* a correction gives back what was charged before and takes the new       *)
(* weight.  Each balance stops at zero by itself; what the container could *)
(* not give is its overrun, a mass-balance variance.                       *)
ChargeAgain(bal, m, back, kg) ==
    [content |-> [bal.content EXCEPT ![m] = Less(@, kg)],
     prep |-> [bal.prep EXCEPT ![BatchOf[m]] = Less(@, kg)],
     overrun |-> [bal.overrun EXCEPT ![m] = @ + Less(kg, bal.content[m])]]
ChargeContainer(bal, m, back, kg) ==
    [bal EXCEPT !.content[m] = Less(@ + back, kg),
                !.overrun[m] = @ + Less(kg, bal.content[m] + back)]
Charge(bal, m, back, kg) ==
    [content |-> [bal.content EXCEPT ![m] = Less(@ + back, kg)],
     prep |-> [bal.prep EXCEPT ![BatchOf[m]] = Less(@ + back, kg)],
     overrun |-> [bal.overrun EXCEPT ![m] = @ + Less(kg, bal.content[m] + back)]]

Holds(m, kg) == kg <= balance.content[m] /\ kg <= balance.prep[BatchOf[m]]

(* What a log is charged again for when its shift is reconciled.           *)
Recorded(log) == IF log.estimate > 0 THEN log.estimate ELSE log.weight

(* A log of kg charged to container m; to another one too if the scrap was *)
(* made while the machine passed from it.  The closure of shift s weighs   *)
(* the logs with its code that were created while s was open.              *)
Log(m, from, kg, estimated, own, s) ==
    [mix |-> m, from |-> from, estimate |-> IF estimated THEN kg ELSE 0,
     weight |-> kg, weighed |-> ~estimated, session |-> own,
     shift |-> IF session = s THEN s ELSE 0, closed |-> FALSE, corrected |-> FALSE]

(* completeQueueIfDepleted: the row of an empty container with no scrap    *)
(* left to weigh is COMPLETADA, and if the machine has no other ACTIVA row *)
(* a waiting row of the same batch follows.  The set of possible tables:   *)
(* which of them follows (priority, age) is not modelled.                  *)
Pending(ls, m) == {n \in DOMAIN ls : ~ls[n].weighed /\ m \in {ls[n].mix, ls[n].from}}
Depleted(bal, ls, m) == bal.content[m] = 0 /\ Pending(ls, m) = {}

Follow(rs, j) == [rs EXCEPT ![j].status = "ACTIVA"]

Finished(rs, i, bal, ls) ==
    LET done == [rs EXCEPT ![i].status = "COMPLETADA"]
        next == {j \in InStatus(done, {"EN_ESPERA"}) :
                    BatchOf[rs[j].mix] = BatchOf[rs[i].mix]}
    IN IF rs[i].status = "COMPLETADA" \/ ~Depleted(bal, ls, rs[i].mix) THEN {rs}
       ELSE IF InStatus(done, {"ACTIVA"}) # {} \/ next = {} THEN {done}
       ELSE {Follow(done, j) : j \in next}

-----------------------------------------------------------------------------
(* requireActiveShift: the request goes on with the session it read.       *)
Begin(c) ==
    /\ desk[c] = Idle
    /\ session # 0
    /\ desk' = [desk EXCEPT ![c] = [op |-> "ready", session |-> session]]
    /\ UNCHANGED <<shift, prepared, rows, balance, entries, logs, raced>>

Ready(c) == desk[c].op = "ready"
Answer(c) == desk' = [desk EXCEPT ![c] = Idle] /\ UNCHANGED raced

(* The client gives up, a check fails, or the database breaks a deadlock.  *)
Rollback(c) ==
    /\ desk[c] # Idle
    /\ Answer(c)
    /\ UNCHANGED <<shift, prepared, rows, balance, entries, logs>>

NewRow(m, s) == [mix |-> m, status |-> "EN_ESPERA", session |-> s]

(* mixFormula: the containers of a batch, queued if a machine was chosen.  *)
MixFormula(c, b, queued) ==
    /\ Ready(c)
    /\ b \notin prepared
    /\ prepared' = prepared \cup {b}
    /\ queued => Len(rows) + Cardinality(ContainersOf(b)) <= MaxRows
    /\ \E new \in SetToSeqs(ContainersOf(b)) :
          rows' = IF queued
                  THEN rows \o [k \in DOMAIN new |-> NewRow(new[k], desk[c].session)]
                  ELSE rows
    /\ balance' = [balance EXCEPT
           !.content = [m \in Containers |->
               IF BatchOf[m] = b THEN Filled[m] ELSE @[m]],
           !.prep[b] = Mixed[b]]
    /\ Answer(c)
    /\ UNCHANGED <<shift, entries, logs>>

(* enqueueMix: a container with no live row gets one; the check is read    *)
(* without a lock.                                                         *)
IsActive(m) == \E i \in RowsOf(rows, m) : rows[i].status = "ACTIVA"
IsQueued(m) == \E i \in RowsOf(rows, m) : rows[i].status \in Live
Adding(c, m) == desk[c].op = "enqueue" /\ desk[c].mix = m

CheckQueue(c, m) ==
    /\ Ready(c)
    /\ BatchOf[m] \in prepared
    /\ ~IsQueued(m)
    /\ desk' = [desk EXCEPT ![c] = [op |-> "enqueue", session |-> desk[c].session, mix |-> m]]
    /\ raced' = IF \E d \in Clerks \ {c} : Adding(d, m) THEN raced \cup {m} ELSE raced
    /\ UNCHANGED <<shift, prepared, rows, balance, entries, logs>>

EnqueueMix(c) ==
    /\ desk[c].op = "enqueue"
    /\ Len(rows) < MaxRows
    /\ rows' = Append(rows, NewRow(desk[c].mix, desk[c].session))
    /\ Answer(c)
    /\ UNCHANGED <<shift, prepared, balance, entries, logs>>

-----------------------------------------------------------------------------
(* scanRackPti: production of kg, and perhaps scrap, from the ACTIVA row   *)
(* of the scanned mixture.  The row is looked up by QR alone: any of the   *)
(* rows the mixture has had may be found.                                  *)
OfTheShift(row, s) == row.session = s

ScanRack(c, m, i, kg, scrap, estimated) ==
    LET s == desk[c].session
        charged == Charge(balance, m, 0, kg + scrap)
        logged == IF scrap = 0 THEN logs
                  ELSE Append(logs, Log(m, m, scrap, estimated, s, s))
    IN /\ Ready(c)
       /\ i \in RowsOf(rows, m)
       /\ ~Locked(c, i)
       /\ OfTheShift(rows[i], s)
       /\ rows[i].status = "ACTIVA"
       /\ Holds(m, kg + scrap)
       /\ Len(entries) < MaxEntries
       /\ scrap > 0 => Len(logs) < MaxLogs
       /\ entries' = Append(entries, [mix |-> m, row |-> i, session |-> s,
                                      net |-> kg, corrected |-> FALSE])
       /\ logs' = logged
       /\ balance' = charged
       /\ rows' \in Finished(rows, i, charged, logged)
       /\ WaitsForNobody(c)
       /\ Answer(c)
       /\ UNCHANGED <<shift, prepared>>

(* registerOperationalScrap: scrap of a mixture of the queue, active or    *)
(* not.  The log does not keep the session.                                *)
Scrap(c, m, i, kg, estimated) ==
    LET charged == Charge(balance, m, 0, kg)
        logged == Append(logs, Log(m, m, kg, estimated, 0, desk[c].session))
    IN /\ Ready(c)
       /\ i \in RowsOf(rows, m)
       /\ Holds(m, kg)
       /\ Len(logs) < MaxLogs
       /\ logs' = logged
       /\ balance' = charged
       /\ rows' \in Finished(rows, i, charged, logged)
       /\ WaitsForNobody(c)
       /\ Answer(c)
       /\ UNCHANGED <<shift, prepared, entries>>

-----------------------------------------------------------------------------
(* switchQueuePriority.  The target is locked; the ACTIVA row is looked up *)
(* among those of the request's session as they are now (what is committed *)
(* while the statement waits for a lock is only used to discard it).       *)
ActiveOf(s) == {i \in InStatus(rows, {"ACTIVA"}) : rows[i].session = s}

LockTarget(c, i) ==
    /\ Ready(c)
    /\ i \in InStatus(rows, Live)
    /\ ~Locked(c, i)
    /\ desk' = [desk EXCEPT ![c] =
           [op |-> "switch", session |-> @.session, target |-> i,
            seen |-> ActiveOf(@.session)]]
    /\ UNCHANGED <<shift, prepared, rows, balance, entries, logs, raced>>

StillActive(c) == desk[c].seen \cap ActiveOf(desk[c].session)

(* The target becomes ACTIVA; paused containers of its batch wait again.   *)
Started(rs, i, s) ==
    [j \in DOMAIN rs |->
        IF j = i THEN [rs[j] EXCEPT !.status = "ACTIVA", !.session = s]
        ELSE IF BatchOf[rs[j].mix] = BatchOf[rs[i].mix] /\ rs[j].status = "PAUSADA"
        THEN [rs[j] EXCEPT !.status = "EN_ESPERA", !.session = s]
        ELSE rs[j]]

(* Nothing is displaced.                                                   *)
Activate(c) ==
    /\ desk[c].op = "switch"
    /\ StillActive(c) = {}
    /\ rows' = Started(rows, desk[c].target, desk[c].session)
    /\ WaitsForNobody(c)
    /\ Answer(c)
    /\ UNCHANGED <<shift, prepared, balance, entries, logs>>

(* The live rows of the displaced batch: all released to WIP, or the       *)
(* active one scrapped and the others paused, or all paused.               *)
Displaced(a, left, disposition) ==
    LET batch == {j \in BatchRows(BatchOf[rows[a].mix]) : rows[j].status \in Live}
        status(j) == IF left > 0 /\ disposition = "WIP" THEN "CANCELADA"
                     ELSE IF left > 0 /\ j = a THEN "COMPLETADA"
                     ELSE "PAUSADA"
    IN [j \in DOMAIN rows |-> IF j \in batch THEN [rows[j] EXCEPT !.status = status(j)]
                              ELSE rows[j]]

(* The active row a gives way to another batch; purge is the estimate of   *)
(* what the machine wastes of the new mixture.                             *)
Displace(c, a, disposition, purge) ==
    LET s == desk[c].session
        t == desk[c].target
        from == rows[a].mix
        to == rows[t].mix
        left == balance.content[from]
        scraps == left > 0 /\ disposition = "SCRAP_ESPECIAL"
        emptied == IF scraps THEN Charge(balance, from, 0, left) ELSE balance
        purged == IF purge > 0 THEN Charge(emptied, to, 0, purge) ELSE emptied
        special == IF scraps THEN <<Log(from, from, left, TRUE, s, s)>> ELSE <<>>
        wasted == IF purge > 0 THEN <<Log(to, from, purge, TRUE, s, s)>> ELSE <<>>
    IN /\ desk[c].op = "switch"
       /\ a \in StillActive(c)
       /\ a # t
       /\ ~SameBatch(a, t)
       /\ \A j \in BatchRows(BatchOf[from]) : ~Locked(c, j)
       /\ purge <= emptied.content[to]
       /\ (scraps \/ purge > 0) => Len(logs) < MaxLogs
       /\ logs' = logs \o special \o wasted
       /\ balance' = purged
       /\ rows' = Started(Displaced(a, left, disposition), t, s)
       /\ WaitsForNobody(c)
       /\ Answer(c)
       /\ UNCHANGED <<shift, prepared, entries>>

-----------------------------------------------------------------------------
(* adjustScrapWeight and adjustProductionEntry: corrections of what        *)
(* belongs to the request's session.                                       *)
AdjustScrap(c, n, kg) ==
    /\ Ready(c)
    /\ n \in DOMAIN logs
    /\ logs[n].session = desk[c].session
    /\ logs' = [logs EXCEPT ![n].weight = kg, ![n].weighed = TRUE, ![n].corrected = TRUE]
    /\ balance' = Charge(balance, logs[n].mix, logs[n].weight, kg)
    /\ Answer(c)
    /\ UNCHANGED <<shift, prepared, rows, entries>>

Reopened(rs, i, bal) ==
    IF rs[i].status = "COMPLETADA" /\ bal.content[rs[i].mix] > 0
    THEN [rs EXCEPT ![i].status = "PAUSADA"] ELSE rs

AdjustEntry(c, n, kg) ==
    LET i == entries[n].row
        charged == Charge(balance, entries[n].mix, entries[n].net, kg)
    IN /\ Ready(c)
       /\ n \in DOMAIN entries
       /\ entries[n].session = desk[c].session
       /\ ~Locked(c, i)
       /\ entries' = [entries EXCEPT ![n].net = kg, ![n].corrected = TRUE]
       /\ balance' = charged
       /\ rows' \in Finished(Reopened(rows, i, charged), i, charged, logs)
       /\ WaitsForNobody(c)
       /\ Answer(c)
       /\ UNCHANGED <<shift, prepared, logs>>

(* scrapWipMixture: what is left of a released batch becomes scrap, one    *)
(* log per container.  The logs have no shift code.                        *)
ScrapWip(c, b) ==
    LET left == {m \in ContainersOf(b) : balance.content[m] > 0}
    IN /\ Ready(c)
       /\ b \in prepared
       /\ left # {}
       /\ \E i \in BatchRows(b) : rows[i].status = "CANCELADA"
       /\ \A i \in BatchRows(b) : rows[i].status \notin Live
       /\ \A m \in left : \E i \in RowsOf(rows, m) : rows[i].status = "CANCELADA"
       /\ Within(2 * Rounding, Total(balance.content, left), balance.prep[b])
       /\ Len(logs) < MaxLogs
       /\ \E order \in SetToSeqs(left) :
              logs' = logs \o [k \in DOMAIN order |->
                  [Log(order[k], order[k], balance.content[order[k]], TRUE,
                       desk[c].session, 0) EXCEPT !.shift = 0]]
       /\ balance' = [balance EXCEPT
              !.content = [m \in Containers |-> IF m \in left THEN 0 ELSE @[m]],
              !.prep[b] = 0]
       /\ Answer(c)
       /\ UNCHANGED <<shift, prepared, rows, entries>>

-----------------------------------------------------------------------------
(* Shifts.  Opening adopts every ACTIVA row; one session is open at a time *)
(* (unique index).                                                         *)
OpenSession ==
    /\ session = 0
    /\ opened < MaxSessions
    /\ opened' = opened + 1
    /\ session' = opened + 1
    /\ rows' = [i \in DOMAIN rows |-> IF rows[i].status = "ACTIVA"
                                      THEN [rows[i] EXCEPT !.session = opened + 1]
                                      ELSE rows[i]]
    /\ \A i \in DOMAIN rows, c \in Clerks : Changed(i) => ~HeldBy(c, i)
    /\ UNCHANGED <<reconciled, prepared, balance, entries, logs, desk, raced>>

(* The machine has activity in the open session.                           *)
Used == \/ \E i \in DOMAIN rows : rows[i].session = session
        \/ \E n \in DOMAIN entries : entries[n].session = session

CloseSession ==
    /\ session # 0
    /\ Used => session \in reconciled
    /\ rows' = [i \in DOMAIN rows |->
           IF rows[i].session = session /\ rows[i].status = "ACTIVA"
           THEN [rows[i] EXCEPT !.status = "PAUSADA"] ELSE rows[i]]
    /\ \A i \in DOMAIN rows, c \in Clerks : Changed(i) => ~HeldBy(c, i)
    /\ session' = 0
    /\ UNCHANGED <<opened, reconciled, prepared, balance, entries, logs, desk, raced>>

(* closeExtrusionShift: the logs of the shift are weighed, and one after   *)
(* the other their charges are corrected.                                  *)
Weighed(weights) ==
    [n \in DOMAIN logs |->
        IF n \in DOMAIN weights
        THEN [logs[n] EXCEPT !.weight = weights[n], !.weighed = TRUE, !.closed = TRUE]
        ELSE logs[n]]

Corrected(weights) ==
    LET after[n \in 0..Len(logs)] ==
            IF n = 0 THEN balance
            ELSE IF n \in DOMAIN weights
            THEN Charge(after[n - 1], logs[n].mix, Recorded(logs[n]), weights[n])
            ELSE after[n - 1]
    IN after[Len(logs)]

(* Of each mixture in turn, one of its rows may be finished.               *)
FinishedInTurn(order, bal, ls) ==
    LET tables[k \in 0..Len(order)] ==
            IF k = 0 THEN {rows}
            ELSE UNION {Finished(t, i, bal, ls) :
                            t \in tables[k - 1], i \in RowsOf(rows, order[k])}
    IN tables[Len(order)]

CloseShift(c, weights) ==
    LET s == desk[c].session
        ours == DOMAIN weights
        named == {logs[n].mix : n \in ours} \cup {logs[n].from : n \in ours}
    IN /\ Ready(c)
       /\ s = session
       /\ s \notin reconciled
       /\ Used
       /\ ours = {n \in DOMAIN logs : logs[n].shift = s}
       /\ reconciled' = reconciled \cup {s}
       /\ logs' = Weighed(weights)
       /\ balance' = Corrected(weights)
       /\ \E order \in SetToSeqs(named) :
              rows' \in FinishedInTurn(order, Corrected(weights), Weighed(weights))
       /\ WaitsForNobody(c)
       /\ Answer(c)
       /\ UNCHANGED <<session, opened, prepared, entries>>

-----------------------------------------------------------------------------
Init ==
    /\ session = 0
    /\ opened = 0
    /\ reconciled = {}
    /\ prepared = {}
    /\ rows = <<>>
    /\ balance = [content |-> [m \in Containers |-> 0],
                  prep |-> [b \in Batches |-> 0],
                  overrun |-> [m \in Containers |-> 0]]
    /\ entries = <<>>
    /\ logs = <<>>
    /\ desk = [c \in Clerks |-> Idle]
    /\ raced = {}

Handle(c) ==
    \/ Begin(c)
    \/ Rollback(c)
    \/ \E b \in Batches, queued \in BOOLEAN : MixFormula(c, b, queued)
    \/ \E m \in Containers : CheckQueue(c, m)
    \/ EnqueueMix(c)
    \/ \E i \in DOMAIN rows, kg \in Weights, scrap \in Weights \cup {0}, estimated \in BOOLEAN :
          ScanRack(c, rows[i].mix, i, kg, scrap, estimated)
    \/ \E i \in DOMAIN rows, kg \in Weights, estimated \in BOOLEAN :
          Scrap(c, rows[i].mix, i, kg, estimated)
    \/ \E i \in DOMAIN rows : LockTarget(c, i)
    \/ Activate(c)
    \/ \E a \in DOMAIN rows, disposition \in {"WIP", "SCRAP_ESPECIAL"},
             purge \in Weights \cup {0} : Displace(c, a, disposition, purge)
    \/ \E n \in DOMAIN logs, kg \in Scales \ {0} : AdjustScrap(c, n, kg)
    \/ \E n \in DOMAIN entries, kg \in Scales \ {0} : AdjustEntry(c, n, kg)
    \/ \E b \in Batches : ScrapWip(c, b)
    \/ \E weights \in [{n \in DOMAIN logs : logs[n].shift = session} -> Scales] :
          CloseShift(c, weights)

Next == OpenSession \/ CloseSession \/ \E c \in Clerks : Handle(c)

Spec == Init /\ [][Next]_vars

-----------------------------------------------------------------------------
RowType == [mix : Containers, status : Live \cup {"COMPLETADA", "CANCELADA"}, session : Nat]
EntryType == [mix : Containers, row : Nat, session : Nat, net : Nat, corrected : BOOLEAN]
LogType == [mix : Containers, from : Containers, estimate : Nat, weight : Nat,
            weighed : BOOLEAN, session : Nat, shift : Nat, closed : BOOLEAN,
            corrected : BOOLEAN]
DeskType == {Idle} \cup [op : {"ready"}, session : Nat]
            \cup [op : {"enqueue"}, session : Nat, mix : Containers]
            \cup [op : {"switch"}, session : Nat, target : Nat, seen : SUBSET Nat]

(* The columns of every table hold values of their types.                  *)
TypeOK ==
    /\ session \in Nat /\ opened \in Nat /\ reconciled \subseteq Nat
    /\ prepared \subseteq Batches
    /\ rows \in Seq(RowType)
    /\ balance \in [content : [Containers -> Nat], prep : [Batches -> Nat],
                    overrun : [Containers -> Nat]]
    /\ entries \in Seq(EntryType)
    /\ logs \in Seq(LogType)
    /\ desk \in [Clerks -> DeskType]
    /\ raced \subseteq Containers

Produced(m) == Total([n \in DOMAIN entries |-> entries[n].net],
                     {n \in DOMAIN entries : entries[n].mix = m})
Wasted(m) == Total([n \in DOMAIN logs |-> logs[n].weight],
                   {n \in DOMAIN logs : logs[n].mix = m})

(* Scrap corrected before its shift was reconciled is charged twice by the *)
(* closure, which starts again from the estimate.                          *)
Recharged(m) == \E n \in DOMAIN logs : logs[n].mix = m /\ logs[n].corrected
                                         /\ logs[n].closed /\ logs[n].estimate > 0

(* Mass balance: what a container held, plus what it was charged beyond    *)
(* that, is what it still holds, what was produced from it and its scrap.  *)
MassBalance ==
    \A m \in Containers : BatchOf[m] \in prepared /\ ~Recharged(m) =>
        Filled[m] + balance.overrun[m] = balance.content[m] + Produced(m) + Wasted(m)

(* Every table is well formed, and a preparation and its containers        *)
(* together stay within the rounding with which they were filled, whatever *)
(* was overrun and corrected; only an overrun may leave them with more.    *)
BatchIsItsContainers ==
    /\ TypeOK
    /\ \A b \in Batches : LET held == Total(balance.content, ContainersOf(b)) IN
        /\ balance.prep[b] <= held + Rounding
        /\ (\A m \in ContainersOf(b) : balance.overrun[m] = 0) =>
              Within(Rounding, balance.prep[b], held)

(* Switches, scans, releases and closures of several requests never leave  *)
(* a container with two live rows in the queue: only two enqueueMix of it  *)
(* at once do, and a correction of production that reopens an old row.     *)
ContainerQueuedOnce ==
    \A i, j \in InStatus(rows, Live) : i # j /\ rows[i].mix = rows[j].mix =>
        \/ rows[i].mix \in raced
        \/ \E n \in DOMAIN entries : entries[n].mix = rows[i].mix /\ entries[n].corrected

(* A row that was finished or released does not run again, although a      *)
(* switch may have found it waiting before: only a correction of its own   *)
(* production reopens it.                                                  *)
EndedRowsStay ==
    [][\A i \in DOMAIN rows : rows[i].status \notin Live =>
          \/ rows'[i].status \notin Live
          \/ \E n \in DOMAIN entries : entries[n].row = i /\ entries'[n].corrected]_vars

(* While a session is open, no ACTIVA row is left to a shift that was      *)
(* reconciled before ("Las corridas activas heredadas pasan a quedar       *)
(* declaradas bajo el supervisor que abre el turno").                      *)
ActiveRunsAreOfTheShift ==
    session # 0 => \A i \in InStatus(rows, {"ACTIVA"}) :
                       rows[i].session \notin reconciled \ {session}
=============================================================================
