------------------------------ MODULE RollRoutes ------------------------------
(***************************************************************************)
(* A roll after the loom: its route through the stations of the plant      *)
(* (backend/src/modules/telares: productionRules.js, telares.service.js)   *)
(* and its lamination (laminado.service.js, wip/rollTransformation.js),    *)
(* which spends the material in process (WIP) of the area and gives the    *)
(* roll a new QR.                                                          *)
(*                                                                         *)
(* Each handler takes the roll FOR UPDATE before it looks at it, and the   *)
(* lamination also takes all the WIP rows of its recipe before it spends   *)
(* any, so each is one action.  Meters are counted in standard lengths of  *)
(* the recipes and material in whole kilograms.  Left out: weights, costs, *)
(* the log of refused scans; and scrap meters, because a roll of the looms *)
(* has no QrCode row of its own and a lamination that reports scrap of it  *)
(* is always refused.                                                      *)
(***************************************************************************)
EXTENDS Naturals, Sequences, FiniteSets, Totals

CONSTANTS
    Rolls,
    Kind,       \* ROLLO_TELA, BANDA or CINTA
    Sheet,      \* the routes the data sheet of each roll lists
    Spoken,     \* the names of stations that requests give
    Lengths,    \* meters a roll may measure
    Materials,
    Specs,      \* recipes of lamination, active
    Recipe,     \* kilograms of each material per standard length
    Fits,       \* the pairs <<recipe, roll>> that are compatible
    Deliveries, \* kilograms that arrive in the WIP at once
    MaxRows,    \* bound: rows of the WIP
    MaxStock    \* bound: kilograms ever received in one row

Stages == {"TELARES", "GLOBO", "LAMINADO", "CORTE", "CONFECCION", "LONAS",
           "ALMACEN", "VENTA"}
None == "NINGUNA"

ASSUME RollAssumption ==
    /\ Kind \in [Rolls -> {"ROLLO_TELA", "BANDA", "CINTA"}]
    /\ Sheet \in [Rolls -> SUBSET Seq(Stages)]
    /\ Lengths \subseteq Nat \ {0}
ASSUME RecipeAssumption ==
    /\ Recipe \in [Specs -> [Materials -> Nat]]
    /\ None \notin Specs
    /\ Fits \subseteq Specs \X Rolls
    /\ Deliveries \subseteq Nat \ {0}
    /\ MaxRows \in Nat /\ MaxStock \in Nat

VARIABLES
    rolls,      \* viajero_rolls, by roll
    rows,       \* wip_inventories of the area, oldest first, with the balance
                \* of the child QR of each
    links       \* traceability_links: what a roll took of a row

vars == <<rolls, rows, links>>

-----------------------------------------------------------------------------
(* normalizeStageName: some stations have more than one name (the first is *)
(* the accented one).                                                      *)
Normal(name) ==
    CASE name = "ALMACE'N" -> "ALMACEN"
      [] name \in {"VENTA DE ROLLO", "VENTA DIRECTA"} -> "VENTA"
      [] name \in {"CORTE DE BANDA", "CORTE DE CINTA", "CORTE DIRECTO"} -> "CORTE"
      [] OTHER -> name

(* normalizeProductionRoute: the routes out of the looms, by what they     *)
(* weave.                                                                  *)
Short(stage) == <<"TELARES", stage>>
Routes(kind) ==
    {Short("CORTE"), Short("ALMACEN"), Short("VENTA")}
        \cup IF kind \in {"BANDA", "CINTA"} THEN {}
             ELSE {Short("LAMINADO"), Short("LONAS"),
                   <<"TELARES", "CORTE", "CONFECCION">>,
                   <<"TELARES", "LAMINADO", "CORTE">>}

In(stage, route) == \E i \in DOMAIN route : route[i] = stage
(* Array.indexOf: zero when the name is not in the route.                  *)
IndexOf(stage, route) ==
    IF In(stage, route) THEN CHOOSE i \in DOMAIN route : route[i] = stage ELSE 0
NextStage(route, i) == IF i = Len(route) THEN "TERMINADO" ELSE route[i + 1]
StatusAt(route, i) == IF i = Len(route) THEN "TRANSFORMADO" ELSE "DISPONIBLE"

Woven(r) == r \in DOMAIN rolls
Store(r, roll) == rolls' = [x \in DOMAIN rolls \cup {r} |-> IF x = r THEN roll ELSE rolls[x]]
Entry(stage, spec, meters) == [stage |-> stage, spec |-> spec, meters |-> meters]

-----------------------------------------------------------------------------
(* finishRollAndBackflush: the roll is born with the route the operator    *)
(* chose, one that its data sheet lists.                                   *)
FinishRoll(r, route, meters) ==
    /\ ~Woven(r)
    /\ route \in Sheet[r] \cap Routes(Kind[r])
    /\ Store(r, [route |-> route, current |-> "TELARES", next |-> route[2],
                 status |-> "DISPONIBLE", meters |-> meters, qr |-> "VIAJERO",
                 history |-> <<Entry("TELARES", None, meters)>>])
    /\ UNCHANGED <<rows, links>>

(* validateViajeroScan: the station is in the route and comes next.        *)
InRoute(roll, target) == In(Normal(target), roll.route)
MayEnter(roll, target) ==
    /\ In(Normal(target), roll.route)
    /\ roll.next = Normal(target)

(* processViajeroStage looks the name it was given up in the route, not    *)
(* the normal name that was validated.                                     *)
ProcessStage(r, target, metersOut) ==
    LET roll == rolls[r]
        i == IndexOf(target, roll.route)
    IN /\ Woven(r)
       /\ MayEnter(roll, target)
       /\ Store(r, [roll EXCEPT
              !.current = target,
              !.next = NextStage(roll.route, i),
              !.status = StatusAt(roll.route, i),
              !.meters = metersOut,
              !.history = Append(@, Entry(target, None, metersOut))])
       /\ UNCHANGED <<rows, links>>

-----------------------------------------------------------------------------
(* receiveOrderQr and the scans of the warehouse (ConsumptionOrders): a    *)
(* new row with its child QR, or more under the same QR.                   *)
Deliver(m, kg) ==
    /\ Len(rows) < MaxRows
    /\ rows' = Append(rows, [material |-> m, amount |-> kg, balance |-> kg, received |-> kg])
    /\ UNCHANGED <<rolls, links>>

DeliverMore(i, kg) ==
    /\ rows[i].received + kg <= MaxStock
    /\ rows' = [rows EXCEPT ![i].amount = @ + kg, ![i].balance = rows[i].amount + kg,
                            ![i].received = @ + kg]
    /\ UNCHANGED <<rolls, links>>

(* consumeWip: every material of the recipe must be there before any is    *)
(* taken; each row gives what it has until the need is met, oldest first.  *)
RowsOf(m) == {i \in DOMAIN rows : rows[i].material = m}
Amounts == [i \in DOMAIN rows |-> rows[i].amount]
Amount(S) == Total(Amounts, S)
Less(a, b) == IF a > b THEN a - b ELSE 0
Smaller(a, b) == IF a < b THEN a ELSE b
Need(s, meters, m) == Recipe[s][m] * meters

SomeInWip(s, meters) == \E m \in Materials : Amount(RowsOf(m)) >= Need(s, meters, m)
AllInWip(s, meters) == \A m \in Materials : Amount(RowsOf(m)) >= Need(s, meters, m)

Older(i) == {j \in RowsOf(rows[i].material) : j < i}
TakenNewest(s, meters, i) ==
    LET m == rows[i].material
    IN Smaller(rows[i].amount,
               Less(Need(s, meters, m), Amount({j \in RowsOf(m) : j > i})))
TakenOf(s, meters, i) ==
    Smaller(rows[i].amount,
            Less(Need(s, meters, rows[i].material), Amount(Older(i))))

(* transformRoll: lamination comes next and the roll is at the station     *)
(* before it.  The roll goes on under its new QR, which must not exist.    *)
MayLaminate(roll) ==
    LET i == IndexOf("LAMINADO", roll.route)
    IN /\ i > 1
       /\ Normal(roll.next) = "LAMINADO"
       /\ Normal(roll.current) = roll.route[i - 1]
       /\ roll.status # "TRANSFORMADO"

TransformRoll(r, s) ==
    LET roll == rolls[r]
        i == IndexOf("LAMINADO", roll.route)
        taken(k) == TakenOf(s, roll.meters, k)
    IN /\ Woven(r)
       /\ MayLaminate(roll)
       /\ <<s, r>> \in Fits
       /\ AllInWip(s, roll.meters)
       /\ \A k \in DOMAIN rows : taken(k) <= rows[k].balance
       /\ roll.qr # "LAM"
       /\ rows' = [k \in DOMAIN rows |->
                     [rows[k] EXCEPT !.amount = @ - taken(k), !.balance = @ - taken(k)]]
       /\ links' = links \cup {[row |-> k, roll |-> r, kg |-> taken(k)] :
                                 k \in {k \in DOMAIN rows : taken(k) > 0}}
       /\ Store(r, [roll EXCEPT
              !.current = "LAMINADO",
              !.next = NextStage(roll.route, i),
              !.status = StatusAt(roll.route, i),
              !.qr = "LAM",
              !.history = Append(@, Entry("LAMINADO", s, roll.meters))])

-----------------------------------------------------------------------------
Init == /\ rolls = [r \in {} |-> 0]
        /\ rows = <<>>
        /\ links = {}

Next ==
    \/ \E r \in Rolls, meters \in Lengths : \E route \in Sheet[r] : FinishRoll(r, route, meters)
    \/ \E r \in Rolls, target \in Spoken, meters \in Lengths : ProcessStage(r, target, meters)
    \/ \E m \in Materials, kg \in Deliveries : Deliver(m, kg)
    \/ \E i \in DOMAIN rows, kg \in Deliveries : DeliverMore(i, kg)
    \/ \E r \in Rolls, s \in Specs : TransformRoll(r, s)

Spec == Init /\ [][Next]_vars
-----------------------------------------------------------------------------
(* Properties.                                                             *)

EntryType == [stage : Stages \cup Spoken, spec : Specs \cup {None}, meters : Nat]
RowType == [material : Materials, amount : Nat, balance : Nat, received : Nat]
LinkType == [row : Nat, roll : Rolls, kg : Nat]

RollOK(roll) ==
    /\ roll.route \in Seq(Stages)
    /\ roll.status \in {"DISPONIBLE", "TRANSFORMADO"}
    /\ roll.qr \in {"VIAJERO", "LAM"}
    /\ roll.meters \in Nat
    /\ roll.history \in Seq(EntryType)

TypeOK ==
    /\ DOMAIN rolls \subseteq Rolls
    /\ \A r \in DOMAIN rolls : RollOK(rolls[r])
    /\ rows \in Seq(RowType)
    /\ links \subseteq LinkType

(* The history of a roll is a first part of its route, and the station it  *)
(* waits for is the one after it: no station is passed twice, skipped or   *)
(* done by two terminals, and a finished roll has passed them all.         *)
Passed(roll) == [i \in DOMAIN roll.history |-> roll.history[i].stage]
OnItsRoute(roll) ==
    LET n == Len(roll.history)
    IN /\ n \in 1..Len(roll.route)
       /\ \A i \in 1..n : roll.history[i].stage = roll.route[i]
       /\ roll.current = roll.route[n]
       /\ roll.next = NextStage(roll.route, n)
       /\ roll.status = StatusAt(roll.route, n)
FollowsItsRoute == \A r \in DOMAIN rolls : OnItsRoute(rolls[r])

(* A lamination is charged in full or not at all: what the rolls took of a *)
(* row is what is missing from it and from the balance of its child QR,    *)
(* and a laminated roll took its whole recipe, of every material.          *)
Kg(S) == Total([l \in links |-> l.kg], S)
TakenFrom(i) == {l \in links : l.row = i}
TakenBy(r, m) == {l \in links : l.roll = r /\ rows[l.row].material = m}
Laminations(roll) == {i \in DOMAIN roll.history : roll.history[i].spec # None}
Coatings(roll, m) ==
    [i \in Laminations(roll) |-> Need(roll.history[i].spec, roll.history[i].meters, m)]
CoatingIsCharged ==
    /\ \A i \in DOMAIN rows :
          /\ rows[i].amount = rows[i].balance
          /\ rows[i].received = rows[i].amount + Kg(TakenFrom(i))
    /\ \A r \in DOMAIN rolls, m \in Materials :
          Kg(TakenBy(r, m)) = Total(Coatings(rolls[r], m), Laminations(rolls[r]))

(* Material is spent in the order in which it arrived: a row gives only    *)
(* when every older row of its material is left empty.                     *)
OldestFirst ==
    [][\A i, j \in DOMAIN rows :
         /\ i < j /\ rows[i].material = rows[j].material
         /\ rows'[j].amount < rows[j].amount
         => rows'[i].amount = 0]_vars

-----------------------------------------------------------------------------
(* The rolls implement the promise of RollJourney, whichever terminal or   *)
(* handler takes them through a station.                                   *)
Journey == INSTANCE RollJourney WITH
    Paths <- [r \in Rolls |-> Sheet[r] \cap Routes(Kind[r])],
    path <- [r \in Rolls |-> IF Woven(r) THEN rolls[r].route ELSE <<>>],
    done <- [r \in Rolls |-> IF Woven(r) THEN Passed(rolls[r]) ELSE <<>>]

ImplementsJourney == Journey!JourneySpec
=============================================================================
