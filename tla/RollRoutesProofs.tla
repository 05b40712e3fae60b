--------------------------- MODULE RollRoutesProofs ---------------------------
(***************************************************************************)
(* Proofs about RollRoutes, for every set of rolls, data sheets, recipes   *)
(* and deliveries: while requests give each station the name it has in the *)
(* routes, a roll follows its route whichever handler advances it, and so  *)
(* the rolls implement RollJourney.  With another name of a station        *)
(* ("CORTE DIRECTO") neither holds.                                        *)
(***************************************************************************)
EXTENDS RollRoutes, TotalTheorems, SequenceTheorems, TLAPS

(* Requests use the names of the routes.                                   *)
CanonicalNames == Spoken \subseteq Stages

(* What a route is: no station comes twice.                                *)
Route(p) ==
    /\ p \in Seq(Stages)
    /\ Len(p) \in {2, 3}
    /\ p[1] = "TELARES"
    /\ \A i, j \in 1..Len(p) : p[i] = p[j] => i = j

(* The inductive invariant: the route of a roll is one its sheet lists,    *)
(* and the roll is on it.                                                  *)
Registered(r) ==
    /\ rolls[r].route \in Sheet[r] \cap Routes(Kind[r])
    /\ DOMAIN rolls[r] = {"route", "current", "next", "status", "meters", "qr", "history"}
    /\ rolls[r].meters \in Lengths
    /\ rolls[r].history \in Seq([stage : Stages, spec : Specs \cup {None}, meters : Lengths])
IInv ==
    /\ DOMAIN rolls \subseteq Rolls
    /\ \A r \in DOMAIN rolls : Registered(r)
    /\ FollowsItsRoute

(* Every route the rules admit visits different stations.                  *)
LEMMA RoutesAreSimple ==
    ASSUME NEW kind, NEW p \in Routes(kind)
    PROVE  Route(p)
<1>1. \/ \E s \in Stages \ {"TELARES"} : p = <<"TELARES", s>>
      \/ \E s, t \in Stages \ {"TELARES"} : s # t /\ p = <<"TELARES", s, t>>
  BY DEF Routes, Short, Stages
<1>2. CASE \E s \in Stages \ {"TELARES"} : p = <<"TELARES", s>>
  BY <1>2 DEF Route, Stages
<1>3. CASE \E s, t \in Stages \ {"TELARES"} : s # t /\ p = <<"TELARES", s, t>>
  BY <1>3 DEF Route, Stages
<1> QED
  BY <1>1, <1>2, <1>3

(* The names of the routes are normal, and so is the mark of the end.      *)
LEMMA StagesAreNormal ==
    ASSUME NEW s \in Stages \cup {"TERMINADO"}
    PROVE  Normal(s) = s
  BY DEF Normal, Stages

(* On a route without repetitions the index of a station is its place.     *)
LEMMA IndexIsPlace ==
    ASSUME NEW p, Route(p), NEW i \in 1..Len(p)
    PROVE  IndexOf(p[i], p) = i
<1>1. DOMAIN p = 1..Len(p)
  BY DEF Route
<1>2. In(p[i], p)
  BY <1>1 DEF In
<1>3. \A j \in DOMAIN p : p[j] = p[i] => j = i
  BY <1>1 DEF Route
<1> QED
  BY <1>1, <1>2, <1>3 DEF IndexOf

(* A roll on its route that is let into a station is let into the one      *)
(* after those it has passed.                                              *)
LEMMA EntersTheNext ==
    ASSUME NEW roll, Route(roll.route), OnItsRoute(roll),
           NEW s \in Stages, roll.next = s
    PROVE  /\ Len(roll.history) + 1 \in 1..Len(roll.route)
           /\ Len(roll.history) \in 1..Len(roll.route)
           /\ s = roll.route[Len(roll.history) + 1]
           /\ IndexOf(s, roll.route) = Len(roll.history) + 1
<1> DEFINE n == Len(roll.history)
<1>1. n \in 1..Len(roll.route) /\ roll.next = NextStage(roll.route, n)
  BY DEF OnItsRoute
<1>2. n # Len(roll.route)
  BY <1>1 DEF NextStage, Stages
<1>3. Len(roll.route) \in Nat
  BY DEF Route
<1>4. n + 1 \in 1..Len(roll.route) /\ roll.next = roll.route[n + 1]
  BY <1>1, <1>2, <1>3 DEF NextStage
<1> QED
  BY <1>1, <1>4, IndexIsPlace

(* Passing the next station keeps a roll on its route.                     *)
LEMMA StaysOnRoute ==
    ASSUME NEW roll, NEW after, NEW e, NEW S, e \in S,
           Route(roll.route), OnItsRoute(roll), roll.history \in Seq(S),
           Len(roll.history) + 1 \in 1..Len(roll.route),
           after.route = roll.route,
           after.history = Append(roll.history, e),
           e.stage = roll.route[Len(roll.history) + 1],
           after.current = e.stage,
           after.next = NextStage(roll.route, Len(roll.history) + 1),
           after.status = StatusAt(roll.route, Len(roll.history) + 1)
    PROVE  OnItsRoute(after)
<1> DEFINE n == Len(roll.history)
<1>1. n \in Nat /\ Len(after.history) = n + 1
  OBVIOUS
<1>2. after.history[n + 1] = e /\ \A i \in 1..n : after.history[i] = roll.history[i]
  OBVIOUS
<1>3. \A i \in 1..n : roll.history[i].stage = roll.route[i]
  BY DEF OnItsRoute
<1>4. \A i \in 1..(n + 1) : i \in 1..n \/ i = n + 1
  BY <1>1
<1>5. \A i \in 1..(n + 1) : after.history[i].stage = after.route[i]
  BY <1>1, <1>2, <1>3, <1>4
<1> QED
  BY <1>1, <1>5 DEF OnItsRoute

(* No roll has been woven yet: each, of which there is none, is on its     *)
(* route.                                                                  *)
LEMMA InitIInv == Init => IInv
  BY DEF Init, IInv, FollowsItsRoute

(* A step that changes roll r only, keeping its route and adding e to its  *)
(* history.                                                                *)
EntrySet == [stage : Stages, spec : Specs \cup {None}, meters : Lengths]
Goes(r, e) ==
    /\ r \in DOMAIN rolls
    /\ DOMAIN rolls' = DOMAIN rolls
    /\ \A x \in DOMAIN rolls \ {r} : rolls'[x] = rolls[x]
    /\ rolls'[r].route = rolls[r].route
    /\ rolls'[r].history = Append(rolls[r].history, e)
    /\ DOMAIN rolls'[r] = DOMAIN rolls[r]
    /\ rolls'[r].meters \in Lengths
    /\ e \in EntrySet
    /\ Len(rolls[r].history) + 1 \in 1..Len(rolls[r].route)
    /\ e.stage = rolls[r].route[Len(rolls[r].history) + 1]
    /\ OnItsRoute(rolls'[r])

(* A step that takes one roll through its next station leaves every roll   *)
(* on its route.                                                           *)
LEMMA GoingKeepsIInv ==
    ASSUME IInv, NEW r, NEW e, Goes(r, e)
    PROVE  IInv'
<1>1. rolls[r].history \in Seq(EntrySet) /\ DOMAIN rolls \subseteq Rolls
  BY DEF IInv, Registered, Goes, EntrySet
<1>2. rolls'[r].history \in Seq(EntrySet)
  BY <1>1 DEF Goes
<1>3. Registered(r)'
  BY <1>2 DEF IInv, Registered, Goes, EntrySet
<1>4. \A x \in DOMAIN rolls' : Registered(x)'
  BY <1>3 DEF IInv, Registered, Goes
<1>5. FollowsItsRoute'
  BY DEF IInv, FollowsItsRoute, Goes
<1> QED
  BY <1>1, <1>4, <1>5 DEF IInv, Goes

(* The routes a data sheet lists, among those of the roll's kind, are      *)
(* simple.                                                                 *)
LEMMA SheetRoutes ==
    ASSUME IInv, NEW r \in DOMAIN rolls
    PROVE  Route(rolls[r].route) /\ OnItsRoute(rolls[r]) /\ Registered(r)
  BY RoutesAreSimple DEF IInv, Registered, FollowsItsRoute

(* What a scan at a station does to the roll.                              *)
LEMMA ProcessGoes ==
    ASSUME CanonicalNames, IInv, NEW r \in Rolls, NEW t \in Spoken,
           NEW m \in Lengths, ProcessStage(r, t, m)
    PROVE  Goes(r, Entry(t, None, m))
<1> DEFINE roll == rolls[r]
           n == Len(roll.history)
<1>1. r \in DOMAIN rolls /\ t \in Stages
  BY DEF ProcessStage, Woven, CanonicalNames
<1>2. Normal(t) = t /\ roll.next = t
  BY <1>1, StagesAreNormal DEF ProcessStage, MayEnter
<1>3. Route(roll.route) /\ OnItsRoute(roll) /\ Registered(r)
  BY <1>1, SheetRoutes
<1>4. /\ n + 1 \in 1..Len(roll.route)
      /\ t = roll.route[n + 1]
      /\ IndexOf(t, roll.route) = n + 1
  BY <1>1, <1>2, <1>3, EntersTheNext
<1>5. /\ DOMAIN rolls' = DOMAIN rolls
      /\ \A x \in DOMAIN rolls \ {r} : rolls'[x] = rolls[x]
      /\ rolls'[r] = [roll EXCEPT
              !.current = t,
              !.next = NextStage(roll.route, n + 1),
              !.status = StatusAt(roll.route, n + 1),
              !.meters = m,
              !.history = Append(@, Entry(t, None, m))]
  BY <1>1, <1>4 DEF ProcessStage, Store
<1>6. Entry(t, None, m) \in EntrySet /\ Entry(t, None, m).stage = t
  BY <1>1 DEF Entry, EntrySet
<1>7. /\ rolls'[r].route = roll.route
      /\ rolls'[r].history = Append(roll.history, Entry(t, None, m))
      /\ rolls'[r].current = t
      /\ rolls'[r].next = NextStage(roll.route, n + 1)
      /\ rolls'[r].status = StatusAt(roll.route, n + 1)
      /\ DOMAIN rolls'[r] = DOMAIN roll
      /\ rolls'[r].meters \in Lengths
  BY <1>3, <1>5 DEF Registered
<1>8. roll.history \in Seq(EntrySet)
  BY <1>3 DEF Registered, EntrySet
<1>9. OnItsRoute(rolls'[r])
  BY <1>3, <1>4, <1>6, <1>7, <1>8, StaysOnRoute
<1> QED
  BY <1>1, <1>4, <1>5, <1>6, <1>7, <1>9 DEF Goes

(* What a lamination does to the roll.                                     *)
LEMMA TransformGoes ==
    ASSUME IInv, NEW r \in Rolls, NEW s \in Specs, TransformRoll(r, s)
    PROVE  Goes(r, Entry("LAMINADO", s, rolls[r].meters))
<1> DEFINE roll == rolls[r]
           n == Len(roll.history)
           e == Entry("LAMINADO", s, roll.meters)
<1>1. r \in DOMAIN rolls
  BY DEF TransformRoll, Woven
<1>2. Route(roll.route) /\ OnItsRoute(roll) /\ Registered(r)
  BY <1>1, SheetRoutes
<1>3. roll.next \in Stages \cup {"TERMINADO"}
  BY <1>2 DEF OnItsRoute, NextStage, Route
<1>4. roll.next = "LAMINADO" /\ "LAMINADO" \in Stages
  BY <1>3, StagesAreNormal DEF TransformRoll, MayLaminate, Stages
<1>5. /\ n + 1 \in 1..Len(roll.route)
      /\ "LAMINADO" = roll.route[n + 1]
      /\ IndexOf("LAMINADO", roll.route) = n + 1
  BY <1>2, <1>4, EntersTheNext
<1>6. /\ DOMAIN rolls' = DOMAIN rolls
      /\ \A x \in DOMAIN rolls \ {r} : rolls'[x] = rolls[x]
      /\ rolls'[r] = [roll EXCEPT
              !.current = "LAMINADO",
              !.next = NextStage(roll.route, n + 1),
              !.status = StatusAt(roll.route, n + 1),
              !.qr = "LAM",
              !.history = Append(@, e)]
  BY <1>1, <1>5 DEF TransformRoll, Store
<1>7. e \in EntrySet /\ e.stage = "LAMINADO"
  BY <1>2, <1>4 DEF Entry, EntrySet, Registered
<1>8. /\ rolls'[r].route = roll.route
      /\ rolls'[r].history = Append(roll.history, e)
      /\ rolls'[r].current = "LAMINADO"
      /\ rolls'[r].next = NextStage(roll.route, n + 1)
      /\ rolls'[r].status = StatusAt(roll.route, n + 1)
      /\ DOMAIN rolls'[r] = DOMAIN roll
      /\ rolls'[r].meters \in Lengths
  BY <1>2, <1>6 DEF Registered
<1>9. roll.history \in Seq(EntrySet)
  BY <1>2 DEF Registered, EntrySet
<1>10. OnItsRoute(rolls'[r])
  BY <1>2, <1>5, <1>7, <1>8, <1>9, StaysOnRoute
<1> QED
  BY <1>1, <1>5, <1>6, <1>7, <1>8, <1>10 DEF Goes

(* A roll that is woven begins on its route.                               *)
LEMMA FinishKeepsIInv ==
    ASSUME IInv, NEW r \in Rolls, NEW p \in Sheet[r], NEW m \in Lengths,
           FinishRoll(r, p, m)
    PROVE  IInv'
<1> DEFINE e == Entry("TELARES", None, m)
<1>1. r \notin DOMAIN rolls /\ p \in Sheet[r] \cap Routes(Kind[r])
  BY DEF FinishRoll, Woven
<1>2. Route(p)
  BY <1>1, RoutesAreSimple
<1>3. /\ DOMAIN rolls' = DOMAIN rolls \cup {r}
      /\ \A x \in DOMAIN rolls : rolls'[x] = rolls[x]
      /\ rolls'[r] = [route |-> p, current |-> "TELARES", next |-> p[2],
                      status |-> "DISPONIBLE", meters |-> m, qr |-> "VIAJERO",
                      history |-> <<e>>]
  BY <1>1 DEF FinishRoll, Store
<1>4. e \in EntrySet /\ e.stage = "TELARES"
  BY DEF Entry, EntrySet, Stages
<1>5. <<e>> \in Seq(EntrySet) /\ Len(<<e>>) = 1 /\ <<e>>[1] = e
  BY <1>4
<1>6. Registered(r)'
  BY <1>1, <1>3, <1>5 DEF Registered, EntrySet
<1>7. OnItsRoute(rolls'[r])
  <2>0. Len(p) \in {2, 3} /\ p[1] = "TELARES"
    BY <1>2 DEF Route
  <2>1. Len(p) \in Nat /\ 1 # Len(p) /\ 1 \in 1..Len(p) /\ p[1] = "TELARES"
    BY <2>0
  <2>2. NextStage(p, 1) = p[2] /\ StatusAt(p, 1) = "DISPONIBLE"
    BY <2>1 DEF NextStage, StatusAt
  <2> QED
    BY <1>3, <1>4, <1>5, <2>1, <2>2 DEF OnItsRoute
<1>8. \A x \in DOMAIN rolls' : Registered(x)'
  BY <1>3, <1>6 DEF IInv, Registered
<1>9. FollowsItsRoute'
  BY <1>3, <1>7 DEF IInv, FollowsItsRoute
<1> QED
  BY <1>3, <1>8, <1>9 DEF IInv

(* Deliveries of material touch no roll.                                   *)
LEMMA SameRollsKeepIInv ==
    ASSUME IInv, rolls' = rolls
    PROVE  IInv'
  BY DEF IInv, Registered, FollowsItsRoute

(* Every step keeps the rolls on their routes, while requests use the      *)
(* names of the routes.                                                    *)
LEMMA NextIInv ==
    ASSUME CanonicalNames, IInv, [Next]_vars
    PROVE  IInv'
<1>1. CASE \E r \in Rolls, m \in Lengths : \E p \in Sheet[r] : FinishRoll(r, p, m)
  BY <1>1, FinishKeepsIInv
<1>2. CASE \E r \in Rolls, t \in Spoken, m \in Lengths : ProcessStage(r, t, m)
  BY <1>2, ProcessGoes, GoingKeepsIInv
<1>3. CASE \E m \in Materials, kg \in Deliveries : Deliver(m, kg)
  BY <1>3, SameRollsKeepIInv DEF Deliver
<1>4. CASE \E i \in DOMAIN rows, kg \in Deliveries : DeliverMore(i, kg)
  BY <1>4, SameRollsKeepIInv DEF DeliverMore
<1>5. CASE \E r \in Rolls, s \in Specs : TransformRoll(r, s)
  BY <1>5, TransformGoes, GoingKeepsIInv
<1>6. CASE UNCHANGED vars
  BY <1>6, SameRollsKeepIInv DEF vars
<1> QED
  BY <1>1, <1>2, <1>3, <1>4, <1>5, <1>6 DEF Next

(* While stations go by the names of the routes, the stations a roll has   *)
(* passed are a first part of its route, and what it waits for is the next *)
(* one, for every number of rolls and terminals.                           *)
THEOREM RouteInvariance ==
    ASSUME CanonicalNames
    PROVE  Spec => []FollowsItsRoute
<1>1. Init => IInv
  BY InitIInv
<1>2. IInv /\ [Next]_vars => IInv'
  BY NextIInv
<1>3. IInv => FollowsItsRoute
  BY DEF IInv
<1> QED
  BY <1>1, <1>2, <1>3, PTL DEF Spec

-----------------------------------------------------------------------------
(* The refinement.                                                         *)

(* What RollJourney sees of the rolls.                                     *)
PathOf(r) == IF Woven(r) THEN rolls[r].route ELSE <<>>
DoneOf(r) == IF Woven(r) THEN Passed(rolls[r]) ELSE <<>>

(* The stations a roll has passed, after it passes one more.               *)
LEMMA PassedOneMore ==
    ASSUME NEW roll, NEW after, NEW e, NEW S, roll.history \in Seq(S), e \in S,
           after.history = Append(roll.history, e),
           \A x \in S : x.stage \in Stages
    PROVE  /\ Passed(after) = Append(Passed(roll), e.stage)
           /\ Len(Passed(roll)) = Len(roll.history)
           /\ Passed(roll) \in Seq(Stages)
<1> DEFINE n == Len(roll.history)
<1>1. n \in Nat /\ DOMAIN roll.history = 1..n
  OBVIOUS
<1>2. /\ after.history \in Seq(S) /\ DOMAIN after.history = 1..(n + 1)
      /\ Len(after.history) = n + 1
      /\ after.history[n + 1] = e
      /\ \A i \in 1..n : after.history[i] = roll.history[i]
  OBVIOUS
<1>3. Passed(roll) = [i \in 1..n |-> roll.history[i].stage]
  BY <1>1 DEF Passed
<1>4. Passed(roll) \in Seq(Stages) /\ Len(Passed(roll)) = n
  BY <1>1, <1>3
<1>5. Passed(after) = [i \in 1..(n + 1) |-> after.history[i].stage]
  BY <1>2 DEF Passed
<1>6. Passed(after) \in Seq(Stages) /\ Len(Passed(after)) = n + 1
  BY <1>1, <1>2, <1>5
<1>7. Append(Passed(roll), e.stage) \in Seq(Stages)
      /\ Len(Append(Passed(roll), e.stage)) = n + 1
  BY <1>4
<1>8. \A i \in 1..(n + 1) : Passed(after)[i] = Append(Passed(roll), e.stage)[i]
  <2> SUFFICES ASSUME NEW i \in 1..(n + 1)
               PROVE  Passed(after)[i] = Append(Passed(roll), e.stage)[i]
    OBVIOUS
  <2>1. CASE i = n + 1
    BY <2>1, <1>2, <1>4, <1>5
  <2>2. CASE i # n + 1
    <3>1. i \in 1..n
      BY <1>1, <2>2
    <3> QED
      BY <3>1, <1>2, <1>3, <1>4, <1>5
  <2> QED
    BY <2>1, <2>2
<1>9. Passed(after) = Append(Passed(roll), e.stage)
  BY <1>6, <1>7, <1>8, SeqEqual
<1> QED
  BY <1>4, <1>9

(* The initial states are initial states of RollJourney.                   *)
LEMMA InitMaps == Init => Journey!Init
  BY DEF Init, Journey!Init, Woven

(* A roll that goes through a station takes the next step of its journey.  *)
LEMMA GoingAdvances ==
    ASSUME IInv, NEW r \in Rolls, NEW e, Goes(r, e)
    PROVE  Journey!Advance(r)
<1> DEFINE roll == rolls[r]
           n == Len(roll.history)
<1>1. Route(roll.route) /\ OnItsRoute(roll) /\ Registered(r)
  BY SheetRoutes DEF Goes
<1>2. roll.history \in Seq(EntrySet) /\ e \in EntrySet
      /\ \A x \in EntrySet : x.stage \in Stages
  BY <1>1 DEF Registered, EntrySet, Goes
<1>3. /\ Passed(rolls'[r]) = Append(Passed(roll), e.stage)
      /\ Len(Passed(roll)) = n
  BY <1>2, PassedOneMore DEF Goes
<1>4. /\ roll.route # <<>>
      /\ n < Len(roll.route)
  <2>1. Len(roll.route) \in {2, 3} /\ n + 1 \in 1..Len(roll.route) /\ n \in Nat
    BY <1>1, <1>2 DEF Route, Goes
  <2>2. Len(<<>>) = 0
    OBVIOUS
  <2> QED
    BY <2>1, <2>2
<1>5. \A x \in Rolls : (PathOf(x))' = PathOf(x)
  BY DEF Goes, PathOf, Woven
<1>6. \A x \in Rolls \ {r} : (DoneOf(x))' = DoneOf(x)
  BY DEF Goes, DoneOf, Woven
<1>7. (DoneOf(r))' = Append(DoneOf(r), PathOf(r)[Len(DoneOf(r)) + 1])
  BY <1>3 DEF Goes, DoneOf, PathOf, Woven
<1>8. PathOf(r) # <<>> /\ Len(DoneOf(r)) < Len(PathOf(r))
  BY <1>3, <1>4 DEF Goes, DoneOf, PathOf, Woven
<1> QED
  BY <1>5, <1>6, <1>7, <1>8 DEF Journey!Advance, PathOf, DoneOf

(* A roll that leaves the loom takes the first step of its journey.        *)
LEMMA FinishWeaves ==
    ASSUME IInv, NEW r \in Rolls, NEW p \in Sheet[r], NEW m \in Lengths,
           FinishRoll(r, p, m)
    PROVE  Journey!Weave(r)
<1> DEFINE e == Entry("TELARES", None, m)
<1>1. r \notin DOMAIN rolls /\ p \in Sheet[r] \cap Routes(Kind[r])
  BY DEF FinishRoll, Woven
<1>2. p[1] = "TELARES"
  BY <1>1, RoutesAreSimple DEF Route
<1>3. /\ DOMAIN rolls' = DOMAIN rolls \cup {r}
      /\ \A x \in DOMAIN rolls : rolls'[x] = rolls[x]
      /\ rolls'[r].route = p /\ rolls'[r].history = <<e>>
  BY <1>1 DEF FinishRoll, Store
<1>4. Passed(rolls'[r]) = <<"TELARES">>
  BY <1>3 DEF Passed, Entry
<1>5. \A x \in Rolls \ {r} : (PathOf(x))' = PathOf(x) /\ (DoneOf(x))' = DoneOf(x)
  BY <1>3 DEF PathOf, DoneOf, Woven
<1>6. (PathOf(r))' = p /\ (DoneOf(r))' = <<p[1]>> /\ PathOf(r) = <<>>
  BY <1>1, <1>2, <1>3, <1>4 DEF PathOf, DoneOf, Woven
<1> QED
  BY <1>1, <1>5, <1>6 DEF Journey!Weave, PathOf, DoneOf

(* A delivery of material is a stutter of RollJourney.                     *)
LEMMA SameRollsStutter ==
    ASSUME rolls' = rolls
    PROVE  UNCHANGED Journey!journey
  BY DEF Journey!journey, Woven, Passed

(* Every step is a step of RollJourney or a stutter.                       *)
LEMMA StepMaps ==
    ASSUME CanonicalNames, IInv, [Next]_vars
    PROVE  [Journey!Next]_(Journey!journey)
<1>1. CASE \E r \in Rolls, m \in Lengths : \E p \in Sheet[r] : FinishRoll(r, p, m)
  BY <1>1, FinishWeaves DEF Journey!Next
<1>2. CASE \E r \in Rolls, t \in Spoken, m \in Lengths : ProcessStage(r, t, m)
  BY <1>2, ProcessGoes, GoingAdvances DEF Journey!Next
<1>3. CASE \E m \in Materials, kg \in Deliveries : Deliver(m, kg)
  BY <1>3, SameRollsStutter DEF Deliver
<1>4. CASE \E i \in DOMAIN rows, kg \in Deliveries : DeliverMore(i, kg)
  BY <1>4, SameRollsStutter DEF DeliverMore
<1>5. CASE \E r \in Rolls, s \in Specs : TransformRoll(r, s)
  BY <1>5, TransformGoes, GoingAdvances DEF Journey!Next
<1>6. CASE UNCHANGED vars
  BY <1>6, SameRollsStutter DEF vars
<1> QED
  BY <1>1, <1>2, <1>3, <1>4, <1>5, <1>6 DEF Next

(* Laminations, scans and deliveries, at every interleaving, are steps of  *)
(* the journey of one roll or leave all journeys as they are.              *)
THEOREM RoutesImplementJourney ==
    ASSUME CanonicalNames
    PROVE  Spec => ImplementsJourney
<1>1. Init => Journey!Init
  BY InitMaps
<1>2. Init => IInv
  BY InitIInv
<1>3. IInv /\ [Next]_vars => IInv'
  BY NextIInv
<1>4. IInv /\ [Next]_vars => [Journey!Next]_(Journey!journey)
  BY StepMaps
<1> QED
  BY <1>1, <1>2, <1>3, <1>4, PTL DEF Spec, ImplementsJourney, Journey!JourneySpec
-----------------------------------------------------------------------------
(* The material. A roll that took some of a row carries the new QR, which  *)
(* it gets once: so nothing is taken for it twice.                         *)
Fields == {"route", "current", "next", "status", "meters", "qr", "history"}
Linked ==
    /\ IsFiniteSet(links)
    /\ \A l \in links : /\ l.row \in DOMAIN rows
                        /\ l.roll \in DOMAIN rolls /\ rolls[l.roll].qr = "LAM"
    /\ \A r \in DOMAIN rolls : /\ DOMAIN rolls[r] = Fields
                               /\ Laminations(rolls[r]) # {} => rolls[r].qr = "LAM"
CoatInv == TypeOK /\ CoatingIsCharged /\ Linked

(* What a row, and what a roll, must show.                                 *)
RowCharged(i) ==
    /\ rows[i].amount = rows[i].balance
    /\ rows[i].received = rows[i].amount + Kg(TakenFrom(i))
RollCharged(r, m) == Kg(TakenBy(r, m)) = Total(Coatings(rolls[r], m), Laminations(rolls[r]))

(* The property, by row and by roll.                                       *)
LEMMA ChargedIff ==
    CoatingIsCharged <=> /\ \A i \in DOMAIN rows : RowCharged(i)
                         /\ \A r \in DOMAIN rolls, m \in Materials : RollCharged(r, m)
  BY DEF CoatingIsCharged, RowCharged, RollCharged

(* Kilograms of links are numbers, and stay what they are when more links  *)
(* are added.                                                              *)
LEMMA KgFacts ==
    ASSUME CoatInv, NEW S \in SUBSET links
    PROVE  /\ IsFiniteSet(S)
           /\ Kg(S) \in Nat
           /\ \A T : links \subseteq T => Total([l \in T |-> l.kg], S) = Kg(S)
<1> DEFINE f == [l \in links |-> l.kg]
<1>1. IsFiniteSet(S)
  BY FS_Subset DEF CoatInv, Linked
<1>2. \A l \in links : l.kg \in Nat
  BY DEF CoatInv, TypeOK, LinkType
<1>3. \A l \in S : f[l] \in Nat
  BY <1>2
<1>4. Kg(S) = Total(f, S)
  BY DEF Kg
<1> HIDE DEF f
<1>5. Kg(S) \in Nat
  BY <1>1, <1>3, <1>4, TotalNat
<1>6. ASSUME NEW T, links \subseteq T PROVE Total([l \in T |-> l.kg], S) = Kg(S)
  <2> DEFINE g == [l \in T |-> l.kg]
  <2>1. \A l \in S : g[l] = f[l]
    BY <1>6 DEF f
  <2> HIDE DEF g
  <2>2. Total(g, S) = Total(f, S)
    BY <1>1, <2>1, TotalEqual
  <2>. QED
    BY <1>4, <2>2 DEF g
<1>. QED
  BY <1>1, <1>5, <1>6

(* The rows are a finite sequence of numbers.                              *)
LEMMA RowFacts ==
    ASSUME TypeOK
    PROVE  /\ rows \in Seq(RowType)
           /\ Len(rows) \in Nat /\ DOMAIN rows = 1..Len(rows)
           /\ \A i \in DOMAIN rows : /\ rows[i] \in RowType
                                     /\ rows[i].amount \in Nat /\ rows[i].balance \in Nat
                                     /\ rows[i].received \in Nat
                                     /\ Amounts[i] = rows[i].amount
           /\ \A I \in SUBSET DOMAIN rows : IsFiniteSet(I) /\ I \subseteq Int
<1>1. rows \in Seq(RowType)
  BY DEF TypeOK
<1>2. Len(rows) \in Nat /\ DOMAIN rows = 1..Len(rows)
  BY <1>1
<1>3. \A i \in DOMAIN rows : rows[i] \in RowType
  BY <1>1, <1>2, ElementOfSeq
<1>4. \A i \in DOMAIN rows : /\ rows[i].amount \in Nat /\ rows[i].balance \in Nat
                             /\ rows[i].received \in Nat
                             /\ Amounts[i] = rows[i].amount
  BY <1>3 DEF RowType, Amounts
<1>5. IsFiniteSet(1..Len(rows)) /\ 1..Len(rows) \subseteq Int
  BY <1>2, FS_Interval
<1>6. ASSUME NEW I \in SUBSET DOMAIN rows PROVE IsFiniteSet(I) /\ I \subseteq Int
  <2>1. IsFiniteSet(I)
    BY <1>2, <1>5, FS_Subset
  <2>. QED
    BY <1>2, <1>5, <2>1
<1>. QED
  BY <1>1, <1>2, <1>3, <1>4, <1>6

(* With no roll, row or link there is nothing to charge.                   *)
LEMMA CoatInit == Init => CoatInv
<1> SUFFICES ASSUME Init PROVE CoatInv
  OBVIOUS
<1>1. DOMAIN rolls = {} /\ rows = <<>> /\ DOMAIN rows = {} /\ links = {}
  BY DEF Init
<1>2. rows \in Seq(RowType)
  BY <1>1
<1>3. TypeOK
  BY <1>1, <1>2 DEF TypeOK
<1>4. Linked
  BY <1>1, FS_EmptySet DEF Linked
<1>. QED
  BY <1>1, <1>3, <1>4 DEF CoatInv, CoatingIsCharged

-----------------------------------------------------------------------------
(* A roll that is woven, or scanned at a station, takes no material.       *)
LEMMA DryKeepsCoating ==
    ASSUME CoatInv, NEW r \in Rolls, rows' = rows, links' = links,
           DOMAIN rolls' = DOMAIN rolls \cup {r},
           \A x \in DOMAIN rolls \ {r} : rolls'[x] = rolls[x],
           NEW roll, roll = rolls'[r], RollOK(roll), DOMAIN roll = Fields,
           \/ r \notin DOMAIN rolls /\ Laminations(roll) = {}
           \/ /\ r \in DOMAIN rolls /\ roll.qr = rolls[r].qr
              /\ Laminations(roll) = Laminations(rolls[r])
              /\ \A i \in Laminations(roll) : roll.history[i] = rolls[r].history[i]
    PROVE  CoatInv'
<1>1. \A x \in DOMAIN rolls' : x = r \/ (x \in DOMAIN rolls \ {r} /\ rolls'[x] = rolls[x])
  OBVIOUS
<1>2. TypeOK'
  BY <1>1 DEF CoatInv, TypeOK
<1>3. \A i : RowCharged(i)' = RowCharged(i)
  BY DEF RowCharged, TakenFrom, Kg
<1>4. \A x, m : Kg(TakenBy(x, m))' = Kg(TakenBy(x, m))
  BY DEF TakenBy, Kg
<1>5. ASSUME NEW x \in DOMAIN rolls', NEW m \in Materials
      PROVE  RollCharged(x, m)'
  <2>1. CASE x = r /\ r \notin DOMAIN rolls
    <3>1. TakenBy(r, m) = {}
      BY <2>1 DEF TakenBy, CoatInv, Linked
    <3>2. Kg(TakenBy(r, m)) = 0
      BY <3>1, TotalEmpty DEF Kg
    <3>3. Total(Coatings(roll, m), Laminations(roll)) = 0
      BY <2>1, TotalEmpty
    <3>. QED
      BY <1>4, <2>1, <3>2, <3>3 DEF RollCharged
  <2>2. CASE x = r /\ r \in DOMAIN rolls
    <3>1. RollCharged(r, m)
      BY <2>2, ChargedIff DEF CoatInv
    <3>2. Laminations(roll) = Laminations(rolls[r])
      BY <2>2
    <3>3. Coatings(roll, m) = Coatings(rolls[r], m)
      BY <2>2, <3>2 DEF Coatings
    <3>. QED
      BY <1>4, <2>2, <3>1, <3>2, <3>3 DEF RollCharged
  <2>3. CASE x \in DOMAIN rolls \ {r}
    <3>1. RollCharged(x, m) /\ rolls'[x] = rolls[x]
      BY <2>3, ChargedIff DEF CoatInv
    <3>. QED
      BY <1>4, <3>1 DEF RollCharged
  <2>. QED
    BY <1>1, <2>1, <2>2, <2>3
<1>6. CoatingIsCharged'
  <2>1. \A i \in DOMAIN rows : RowCharged(i)
    BY ChargedIff DEF CoatInv
  <2>2. /\ \A i \in DOMAIN rows' : RowCharged(i)'
        /\ \A x \in DOMAIN rolls', m \in Materials : RollCharged(x, m)'
    BY <1>3, <1>5, <2>1
  <2>. QED
    BY <2>2 DEF CoatingIsCharged, RowCharged, RollCharged
<1>7. Linked'
  <2>1. \A l \in links : l.row \in DOMAIN rows'
    BY DEF CoatInv, Linked
  <2>2. \A l \in links : l.roll \in DOMAIN rolls' /\ rolls'[l.roll].qr = "LAM"
    BY DEF CoatInv, Linked
  <2>3. \A x \in DOMAIN rolls \ {r} : /\ DOMAIN rolls[x] = Fields
                                      /\ Laminations(rolls[x]) # {} => rolls[x].qr = "LAM"
    BY DEF CoatInv, Linked
  <2>4. Laminations(roll) # {} => roll.qr = "LAM"
    BY DEF CoatInv, Linked
  <2>5. \A x \in DOMAIN rolls' : /\ DOMAIN rolls'[x] = Fields
                                 /\ Laminations(rolls'[x]) # {} => rolls'[x].qr = "LAM"
    BY <1>1, <2>3, <2>4
  <2>. QED
    BY <2>1, <2>2, <2>5 DEF CoatInv, Linked, Laminations
<1>. QED
  BY <1>2, <1>6, <1>7 DEF CoatInv

(* The constants of the plant.                                             *)
LEMMA PlantTypes ==
    /\ "TELARES" \in Stages /\ "LAMINADO" \in Stages
    /\ \A r \in Rolls : \A p \in Sheet[r] : p \in Seq(Stages)
    /\ Lengths \subseteq Nat
  BY RollAssumption DEF RollAssumption, Stages

(* A roll that leaves the loom has no lamination in its history.           *)
LEMMA FinishKeepsCoating ==
    ASSUME CoatInv, NEW r \in Rolls, NEW p \in Sheet[r], NEW m \in Lengths, FinishRoll(r, p, m)
    PROVE  CoatInv'
<1> DEFINE e == Entry("TELARES", None, m)
           roll == [route |-> p, current |-> "TELARES", next |-> p[2],
                    status |-> "DISPONIBLE", meters |-> m, qr |-> "VIAJERO", history |-> <<e>>]
<1>1. r \notin DOMAIN rolls
  BY DEF FinishRoll, Woven
<1>2. /\ DOMAIN rolls' = DOMAIN rolls \cup {r}
      /\ \A x \in DOMAIN rolls : rolls'[x] = rolls[x]
      /\ rolls'[r] = roll
      /\ rows' = rows /\ links' = links
  BY <1>1 DEF FinishRoll, Store
<1>3. e \in EntryType /\ e.spec = None
  <2>1. m \in Nat /\ None \in Specs \cup {None} /\ "TELARES" \in Stages
    BY PlantTypes
  <2> HIDE DEF None
  <2>. QED
    BY <2>1 DEF Entry, EntryType
<1>4. <<e>> \in Seq(EntryType) /\ DOMAIN <<e>> = {1} /\ <<e>>[1] = e
  BY <1>3
<1> DEFINE h == <<e>>
<1> HIDE DEF e
<1>5. p \in Seq(Stages) /\ m \in Nat
  BY PlantTypes
<1> HIDE DEF h
<1>6. RollOK(roll) /\ DOMAIN roll = Fields
  BY <1>4, <1>5 DEF RollOK, Fields, h
<1>7. roll.history = h
  BY DEF h
<1>8. Laminations(roll) = {}
  BY <1>3, <1>4, <1>7 DEF Laminations, h
<1> HIDE DEF roll
<1>9. PICK made : made = roll
  OBVIOUS
<1>. QED
  BY <1>1, <1>2, <1>6, <1>8, <1>9, DryKeepsCoating

(* A scan at a station adds an entry that is no lamination, and changes    *)
(* neither the QR of the roll nor its earlier entries.                     *)
LEMMA ProcessKeepsCoating ==
    ASSUME CoatInv, NEW r \in Rolls, NEW t \in Spoken, NEW m \in Lengths, ProcessStage(r, t, m)
    PROVE  CoatInv'
<1> DEFINE was == rolls[r]
           i == IndexOf(t, was.route)
           e == Entry(t, None, m)
           h == Append(was.history, e)
           n == Len(was.history)
           next == NextStage(was.route, i)
           status == StatusAt(was.route, i)
           roll == [was EXCEPT !.current = t, !.next = next, !.status = status,
                               !.meters = m, !.history = h]
<1>1. r \in DOMAIN rolls /\ RollOK(was) /\ DOMAIN was = Fields
  BY DEF ProcessStage, Woven, CoatInv, TypeOK, Linked
<1>2. /\ DOMAIN rolls' = DOMAIN rolls \cup {r}
      /\ \A x \in DOMAIN rolls \ {r} : rolls'[x] = rolls[x]
      /\ rolls'[r] = roll
      /\ rows' = rows /\ links' = links
  BY <1>1 DEF ProcessStage, Store
<1>3. e \in EntryType /\ e.spec = None
  BY PlantTypes, RollAssumption DEF Entry, EntryType, RollAssumption
<1>4. status \in {"DISPONIBLE", "TRANSFORMADO"}
  BY DEF StatusAt
<1> HIDE DEF e, next, status
<1>5. was.history \in Seq(EntryType) /\ was.route \in Seq(Stages)
      /\ was.qr \in {"VIAJERO", "LAM"}
  BY <1>1 DEF RollOK
<1>6. /\ h \in Seq(EntryType) /\ n \in Nat
      /\ DOMAIN h = 1..(n + 1) /\ DOMAIN was.history = 1..n
      /\ \A j \in 1..n : h[j] = was.history[j]
      /\ h[n + 1] = e
  <2>1. h \in Seq(EntryType) /\ Len(h) = n + 1 /\ n \in Nat
    BY <1>3, <1>5, AppendProperties
  <2>. QED
    BY <1>3, <1>5, <2>1, AppendProperties
<1> HIDE DEF h
<1>7. roll.history = h /\ roll.qr = was.qr /\ DOMAIN roll = Fields
  BY <1>1 DEF Fields
<1>8. RollOK(roll)
  <2>1. roll.route = was.route /\ roll.status = status /\ roll.meters = m
    BY <1>1 DEF Fields
  <2>2. m \in Nat
    BY PlantTypes
  <2>. QED
    BY <1>4, <1>5, <1>6, <1>7, <2>1, <2>2 DEF RollOK
<1> HIDE DEF roll
<1>9. Laminations(roll) = Laminations(was)
  <2>1. \A j \in 1..(n + 1) : j = n + 1 \/ j \in 1..n
    BY <1>6
  <2>2. 1..n \subseteq 1..(n + 1)
    BY <1>6
  <2>. QED
    BY <1>3, <1>6, <1>7, <2>1, <2>2 DEF Laminations
<1>10. \A j \in Laminations(roll) : roll.history[j] = was.history[j]
  BY <1>6, <1>7, <1>9 DEF Laminations
<1>11. PICK made : made = roll
  OBVIOUS
<1>. QED
  BY <1>1, <1>2, <1>7, <1>8, <1>9, <1>10, <1>11, DryKeepsCoating

-----------------------------------------------------------------------------
(* Material that arrives: no link changes, and no row changes its material *)
(* nor how much of it was taken.                                           *)
LEMMA ArrivalKeepsCoating ==
    ASSUME CoatInv, rolls' = rolls, links' = links, rows' \in Seq(RowType),
           DOMAIN rows \subseteq DOMAIN rows',
           \A i \in DOMAIN rows : rows'[i].material = rows[i].material,
           \A i \in DOMAIN rows' : rows'[i].amount = rows'[i].balance,
           \A i \in DOMAIN rows :
               rows'[i].received - rows'[i].amount = rows[i].received - rows[i].amount,
           \A i \in DOMAIN rows' \ DOMAIN rows : rows'[i].received = rows'[i].amount
    PROVE  CoatInv'
<1>1. TypeOK'
  BY DEF CoatInv, TypeOK
<1>2. \A i : Kg(TakenFrom(i))' = Kg(TakenFrom(i))
  BY DEF Kg, TakenFrom
<1>3. \A i \in DOMAIN rows' : /\ rows'[i].amount \in Nat /\ rows'[i].received \in Nat
  <2>1. DOMAIN rows' = 1..Len(rows')
    OBVIOUS
  <2>2. \A i \in DOMAIN rows' : rows'[i] \in RowType
    BY <2>1, ElementOfSeq
  <2>. QED
    BY <2>2 DEF RowType
<1>4. ASSUME NEW i \in DOMAIN rows'
      PROVE  rows'[i].received = rows'[i].amount + Kg(TakenFrom(i))
  <2>1. CASE i \in DOMAIN rows
    <3>1. rows[i].received = rows[i].amount + Kg(TakenFrom(i))
      BY <2>1, ChargedIff DEF CoatInv, RowCharged
    <3>2. rows[i].amount \in Nat /\ rows[i].received \in Nat
      BY <2>1, RowFacts DEF CoatInv
    <3>3. Kg(TakenFrom(i)) \in Nat
      <4>1. TakenFrom(i) \in SUBSET links
        BY DEF TakenFrom
      <4>. QED
        BY <4>1, KgFacts
    <3>. QED
      BY <1>3, <2>1, <3>1, <3>2, <3>3
  <2>2. CASE i \notin DOMAIN rows
    <3>1. TakenFrom(i) = {}
      BY <2>2 DEF TakenFrom, CoatInv, Linked
    <3>2. Kg(TakenFrom(i)) = 0
      BY <3>1, TotalEmpty DEF Kg
    <3>. QED
      BY <1>3, <2>2, <3>2
  <2>. QED
    BY <2>1, <2>2
<1>5. \A x, m : Kg(TakenBy(x, m))' = Kg(TakenBy(x, m))
  <2>1. \A x, m : TakenBy(x, m)' = TakenBy(x, m)
    BY DEF TakenBy, CoatInv, Linked
  <2>. QED
    BY <2>1 DEF Kg
<1>6. CoatingIsCharged'
  <2>1. \A x \in DOMAIN rolls, m \in Materials : RollCharged(x, m)
    BY ChargedIff DEF CoatInv
  <2>2. \A x \in DOMAIN rolls', m \in Materials : RollCharged(x, m)'
    BY <1>5, <2>1 DEF RollCharged
  <2>. QED
    BY <1>2, <1>4, <2>2 DEF CoatingIsCharged, RollCharged
<1>7. Linked'
  BY DEF CoatInv, Linked
<1>. QED
  BY <1>1, <1>6, <1>7 DEF CoatInv

(* A new row starts with all it has received.                              *)
LEMMA DeliverKeepsCoating ==
    ASSUME CoatInv, NEW m \in Materials, NEW kg \in Deliveries, Deliver(m, kg)
    PROVE  CoatInv'
<1> DEFINE row == [material |-> m, amount |-> kg, balance |-> kg, received |-> kg]
           new == Len(rows) + 1
<1>1. kg \in Nat
  BY RecipeAssumption DEF RecipeAssumption
<1>2. row \in RowType /\ row.amount = kg /\ row.balance = kg /\ row.received = kg
  BY <1>1 DEF RowType
<1>3. rows' = Append(rows, row) /\ rolls' = rolls /\ links' = links
  BY DEF Deliver
<1> HIDE DEF row
<1>4. rows \in Seq(RowType) /\ Len(rows) \in Nat /\ DOMAIN rows = 1..Len(rows)
  BY RowFacts DEF CoatInv
<1>5. /\ rows' \in Seq(RowType) /\ DOMAIN rows' = 1..new
      /\ \A i \in 1..Len(rows) : rows'[i] = rows[i]
      /\ rows'[new] = row
  <2>1. rows' \in Seq(RowType) /\ Len(rows') = new
    BY <1>2, <1>3, <1>4, AppendProperties
  <2>. QED
    BY <1>2, <1>3, <1>4, <2>1, AppendProperties
<1>6. DOMAIN rows' = DOMAIN rows \cup {new}
  BY <1>4, <1>5
<1>7. \A i \in DOMAIN rows : rows'[i] = rows[i] /\ rows[i].amount = rows[i].balance
  BY <1>4, <1>5, ChargedIff DEF CoatInv, RowCharged
<1>8. \A i \in DOMAIN rows' : rows'[i].amount = rows'[i].balance
  BY <1>2, <1>5, <1>6, <1>7
<1>9. \A i \in DOMAIN rows' \ DOMAIN rows : rows'[i].received = rows'[i].amount
  BY <1>2, <1>5, <1>6
<1>. QED
  BY <1>3, <1>5, <1>6, <1>7, <1>8, <1>9, ArrivalKeepsCoating

(* More of a material under the same QR adds the same to what the row has  *)
(* and to what it has received.                                            *)
LEMMA DeliverMoreKeepsCoating ==
    ASSUME CoatInv, NEW k \in DOMAIN rows, NEW kg \in Deliveries, DeliverMore(k, kg)
    PROVE  CoatInv'
<1> DEFINE row == [rows[k] EXCEPT !.amount = @ + kg, !.balance = rows[k].amount + kg,
                                  !.received = @ + kg]
<1>1. kg \in Nat
  BY RecipeAssumption DEF RecipeAssumption
<1>2. /\ rows \in Seq(RowType) /\ Len(rows) \in Nat /\ DOMAIN rows = 1..Len(rows)
      /\ \A i \in DOMAIN rows : /\ rows[i] \in RowType
                                /\ rows[i].amount \in Nat /\ rows[i].received \in Nat
  BY RowFacts DEF CoatInv
<1>3. /\ row \in RowType /\ row.amount = rows[k].amount + kg
      /\ row.balance = rows[k].amount + kg /\ row.received = rows[k].received + kg
      /\ row.material = rows[k].material
  <2> DEFINE a == rows[k].amount + kg
             b == rows[k].received + kg
  <2>1. rows[k] \in RowType /\ a \in Nat /\ b \in Nat
    BY <1>1, <1>2
  <2>2. row = [rows[k] EXCEPT !.amount = a, !.balance = a, !.received = b]
    BY <2>1 DEF RowType
  <2> HIDE DEF a, b, row
  <2>3. /\ row \in RowType /\ row.amount = a /\ row.balance = a /\ row.received = b
        /\ row.material = rows[k].material
    BY <2>1, <2>2 DEF RowType
  <2>. QED
    BY <2>3 DEF a, b
<1>4. rows' = [rows EXCEPT ![k] = row] /\ rolls' = rolls /\ links' = links
  <2>1. rows' = [rows EXCEPT ![k].amount = @ + kg, ![k].balance = rows[k].amount + kg,
                             ![k].received = @ + kg]
    BY DEF DeliverMore
  <2>. QED
    BY <1>2, <2>1 DEF DeliverMore
<1> HIDE DEF row
<1>5. /\ rows' \in Seq(RowType) /\ DOMAIN rows' = DOMAIN rows
      /\ \A i \in DOMAIN rows : rows'[i] = IF i = k THEN row ELSE rows[i]
  <2>1. /\ rows' \in Seq(RowType) /\ Len(rows') = Len(rows)
        /\ \A i \in 1..Len(rows) : rows'[i] = IF i = k THEN row ELSE rows[i]
    BY <1>2, <1>3, <1>4, ExceptSeq
  <2>. QED
    BY <1>2, <2>1
<1>6. \A i \in DOMAIN rows : rows[i].amount = rows[i].balance
  BY ChargedIff DEF CoatInv, RowCharged
<1>7. \A i \in DOMAIN rows : /\ rows'[i].material = rows[i].material
                             /\ rows'[i].amount = rows'[i].balance
                             /\ rows'[i].received - rows'[i].amount
                                  = rows[i].received - rows[i].amount
  BY <1>1, <1>2, <1>3, <1>5, <1>6
<1>. QED
  BY <1>4, <1>5, <1>7, ArrivalKeepsCoating

-----------------------------------------------------------------------------
(* What a lamination takes of each row.                                    *)
Share(s, meters) == [i \in DOMAIN rows |-> TakenOf(s, meters, i)]

(* A row gives its portion of what the recipe asks of its material.        *)
LEMMA ShareIsPortion ==
    ASSUME TypeOK, NEW s \in Specs, NEW meters \in Nat, NEW i \in DOMAIN rows
    PROVE  /\ rows[i].material \in Materials
           /\ Need(s, meters, rows[i].material) \in Nat
           /\ Share(s, meters)[i] = Portion(Amounts, RowsOf(rows[i].material),
                                            Need(s, meters, rows[i].material), i)
<1> DEFINE m == rows[i].material
           S == RowsOf(m)
           d == Need(s, meters, m)
           t == Total(Amounts, Earlier(S, i))
<1>1. m \in Materials
  BY RowFacts DEF RowType
<1>2. d \in Nat
  BY <1>1, RecipeAssumption DEF RecipeAssumption, Need
<1>3. Amounts[i] = rows[i].amount /\ rows[i].amount \in Nat
  BY RowFacts
<1>4. t \in Nat
  <2>1. Earlier(S, i) \in SUBSET DOMAIN rows
    BY DEF Earlier, RowsOf
  <2>2. IsFiniteSet(Earlier(S, i)) /\ \A j \in Earlier(S, i) : Amounts[j] \in Nat
    BY <2>1, RowFacts
  <2>. QED
    BY <2>2, TotalNat
<1>5. Older(i) = Earlier(S, i)
  BY DEF Older, Earlier
<1>6. Share(s, meters)[i] = Smaller(rows[i].amount, Less(d, t))
  BY <1>5 DEF Share, TakenOf, Amount
<1>7. Portion(Amounts, S, d, i) =
         IF t >= d THEN 0 ELSE IF Amounts[i] + t <= d THEN Amounts[i] ELSE d - t
  BY DEF Portion
<1> HIDE DEF m, S, d, t
<1>8. Share(s, meters)[i] = Portion(Amounts, S, d, i)
  BY <1>2, <1>3, <1>4, <1>6, <1>7 DEF Smaller, Less
<1>. QED
  BY <1>1, <1>2, <1>8 DEF m, S, d

(* It never gives more than it has, nor anything before the older rows of  *)
(* its material are empty; and when the WIP covers the recipe, the rows of *)
(* each material give together what the recipe asks of it.                 *)
LEMMA ShareFacts ==
    ASSUME TypeOK, NEW s \in Specs, NEW meters \in Nat
    PROVE  /\ \A i \in DOMAIN rows :
                /\ Share(s, meters)[i] \in Nat
                /\ Share(s, meters)[i] <= rows[i].amount
                /\ Share(s, meters)[i] > 0 =>
                      \A j \in RowsOf(rows[i].material) :
                          j < i => Share(s, meters)[j] = rows[j].amount
           /\ AllInWip(s, meters) =>
                \A m \in Materials :
                    Total(Share(s, meters), RowsOf(m)) = Need(s, meters, m)
<1> DEFINE share == Share(s, meters)
           need(m) == Need(s, meters, m)
<1>1. \A m : /\ RowsOf(m) \in SUBSET DOMAIN rows
             /\ \A i \in RowsOf(m) : rows[i].material = m
  BY DEF RowsOf
<1>2. \A m : /\ IsFiniteSet(RowsOf(m)) /\ RowsOf(m) \subseteq Int
             /\ \A i \in RowsOf(m) : /\ Amounts[i] = rows[i].amount
                                     /\ Amounts[i] \in Nat
  BY <1>1, RowFacts
<1>3. ASSUME NEW m, NEW i \in RowsOf(m)
      PROVE  need(m) \in Nat /\ share[i] = Portion(Amounts, RowsOf(m), need(m), i)
  <2>1. i \in DOMAIN rows /\ rows[i].material = m
    BY <1>1
  <2>. QED
    BY <2>1, ShareIsPortion
<1> HIDE DEF share, need
<1>4. ASSUME NEW i \in DOMAIN rows
      PROVE  /\ share[i] \in Nat
             /\ share[i] <= rows[i].amount
             /\ share[i] > 0 => \A j \in RowsOf(rows[i].material) :
                                   j < i => share[j] = rows[j].amount
  <2> DEFINE m == rows[i].material
             S == RowsOf(m)
             d == need(m)
  <2>1. i \in S
    BY DEF RowsOf
  <2>2. /\ IsFiniteSet(S) /\ S \subseteq Int /\ d \in Nat
        /\ \A j \in S : /\ Amounts[j] = rows[j].amount /\ Amounts[j] \in Nat
                        /\ share[j] = Portion(Amounts, S, d, j)
    BY <1>2, <1>3, <2>1
  <2> HIDE DEF m, S, d
  <2>3. /\ Portion(Amounts, S, d, i) \in Nat
        /\ Portion(Amounts, S, d, i) <= Amounts[i]
        /\ Portion(Amounts, S, d, i) > 0 =>
              \A j \in Earlier(S, i) : Portion(Amounts, S, d, j) = Amounts[j]
    <3>1. \A j \in S : Amounts[j] \in Nat
      BY <2>2
    <3>. QED
      BY <2>1, <2>2, <3>1, PortionBounds
  <2>4. share[i] > 0 => \A j \in S : j < i => share[j] = rows[j].amount
    BY <2>1, <2>2, <2>3 DEF Earlier
  <2>. QED
    BY <2>1, <2>2, <2>3, <2>4 DEF S, m
<1>5. ASSUME AllInWip(s, meters), NEW m \in Materials
      PROVE  Total(share, RowsOf(m)) = need(m)
  <2> DEFINE S == RowsOf(m)
             d == need(m)
             g == Portions(Amounts, S, d)
  <2>1. d \in Nat
    BY RecipeAssumption DEF RecipeAssumption, Need, need
  <2>2. IsFiniteSet(S) /\ S \subseteq Int /\ \A i \in S : Amounts[i] \in Nat
    BY <1>2
  <2>3. d <= Total(Amounts, S)
    <3>1. Amount(S) >= d
      BY <1>5 DEF AllInWip, need
    <3>2. Amount(S) \in Nat
      BY <2>2, TotalNat DEF Amount
    <3>. QED
      BY <2>1, <3>1, <3>2 DEF Amount
  <2>4. \A i \in S : share[i] = g[i]
    BY <1>3 DEF Portions
  <2> HIDE DEF S, d
  <2>5. Total(g, S) = d
    BY <2>1, <2>2, <2>3, PortionsSum
  <2> HIDE DEF g
  <2>6. Total(share, S) = Total(g, S)
    BY <2>2, <2>4, TotalEqual
  <2>. QED
    BY <2>5, <2>6 DEF S, d
<1>. QED
  BY <1>4, <1>5 DEF share, need

(* What a lamination writes.                                               *)
LinkOf(r, share, k) == [row |-> k, roll |-> r, kg |-> share[k]]
Gave(share) == {k \in DOMAIN rows : share[k] > 0}
NewLinks(r, share) == {LinkOf(r, share, k) : k \in Gave(share)}
Spent(share) ==
    [k \in DOMAIN rows |->
        [rows[k] EXCEPT !.amount = @ - share[k], !.balance = @ - share[k]]]
(* With its new QR, the roll has one entry more; the rows and the links    *)
(* change by the share of each row.                                        *)
LEMMA TransformWrites ==
    ASSUME CoatInv, NEW r \in Rolls, NEW s \in Specs, TransformRoll(r, s),
           NEW share, share = Share(s, rolls[r].meters)
    PROVE  /\ r \in DOMAIN rolls /\ rolls[r].qr # "LAM" /\ rolls[r].meters \in Nat
           /\ AllInWip(s, rolls[r].meters)
           /\ rows' = Spent(share)
           /\ links' = links \cup NewLinks(r, share)
           /\ DOMAIN rolls' = DOMAIN rolls
           /\ \A x \in DOMAIN rolls \ {r} : rolls'[x] = rolls[x]
           /\ rolls'[r].qr = "LAM"
           /\ rolls'[r].history =
                Append(rolls[r].history, Entry("LAMINADO", s, rolls[r].meters))
           /\ RollOK(rolls'[r]) /\ DOMAIN rolls'[r] = Fields
<1> DEFINE roll == rolls[r]
           i == IndexOf("LAMINADO", roll.route)
           e == Entry("LAMINADO", s, roll.meters)
           next == NextStage(roll.route, i)
           status == StatusAt(roll.route, i)
           h == Append(roll.history, e)
           lam == [roll EXCEPT !.current = "LAMINADO", !.next = next, !.status = status,
                               !.qr = "LAM", !.history = h]
<1>1. r \in DOMAIN rolls /\ RollOK(roll) /\ DOMAIN roll = Fields
  BY DEF TransformRoll, Woven, CoatInv, TypeOK, Linked
<1>2. roll.meters \in Nat /\ roll.history \in Seq(EntryType) /\ roll.route \in Seq(Stages)
  BY <1>1 DEF RollOK
<1>3. \A k \in DOMAIN rows : TakenOf(s, roll.meters, k) = share[k]
  BY DEF Share
<1>4. rows' = Spent(share)
  <2> DEFINE w(k) == [rows[k] EXCEPT !.amount = @ - TakenOf(s, roll.meters, k),
                                     !.balance = @ - TakenOf(s, roll.meters, k)]
  <2>1. rows' = [k \in DOMAIN rows |-> w(k)]
    BY DEF TransformRoll
  <2>2. \A k \in DOMAIN rows :
           w(k) = [rows[k] EXCEPT !.amount = @ - share[k], !.balance = @ - share[k]]
    BY <1>3
  <2> HIDE DEF w
  <2>. QED
    BY <2>1, <2>2 DEF Spent
<1>5. links' = links \cup NewLinks(r, share)
  <2> DEFINE K == {k \in DOMAIN rows : TakenOf(s, roll.meters, k) > 0}
             L == Gave(share)
  <2>1. links' = links \cup {[row |-> k, roll |-> r, kg |-> TakenOf(s, roll.meters, k)] : k \in K}
    BY DEF TransformRoll
  <2>2. K = L
    BY <1>3 DEF Gave
  <2>3. \A k \in K : [row |-> k, roll |-> r, kg |-> TakenOf(s, roll.meters, k)]
                      = LinkOf(r, share, k)
    BY <1>3 DEF LinkOf
  <2> HIDE DEF K, L
  <2>4. {[row |-> k, roll |-> r, kg |-> TakenOf(s, roll.meters, k)] : k \in K}
          = {LinkOf(r, share, k) : k \in K}
    BY <2>3
  <2>. QED
    BY <2>1, <2>2, <2>4 DEF L, NewLinks
<1>6. /\ DOMAIN rolls' = DOMAIN rolls
      /\ \A x \in DOMAIN rolls \ {r} : rolls'[x] = rolls[x]
      /\ rolls'[r] = lam
  BY <1>1 DEF TransformRoll, Store
<1>7. e \in EntryType
  BY <1>2, PlantTypes DEF Entry, EntryType
<1>8. status \in {"DISPONIBLE", "TRANSFORMADO"}
  BY DEF StatusAt
<1> HIDE DEF e, next, status
<1>9. h \in Seq(EntryType)
  BY <1>2, <1>7, AppendProperties
<1> HIDE DEF h
<1>10. /\ lam.qr = "LAM" /\ lam.history = h /\ DOMAIN lam = Fields
       /\ lam.route = roll.route /\ lam.status = status /\ lam.meters = roll.meters
  BY <1>1 DEF Fields
<1> HIDE DEF lam
<1>11. RollOK(lam)
  BY <1>2, <1>8, <1>9, <1>10 DEF RollOK
<1>12. roll.qr # "LAM" /\ AllInWip(s, roll.meters)
  BY DEF TransformRoll
<1>. QED
  BY <1>1, <1>2, <1>4, <1>5, <1>6, <1>10, <1>11, <1>12 DEF h, e

(* A lamination takes of each row what its new link says, and in all the   *)
(* whole recipe, of every material; and it is the only one of its roll.    *)
LEMMA TransformKeepsCoating ==
    ASSUME CoatInv, NEW r \in Rolls, NEW s \in Specs, TransformRoll(r, s)
    PROVE  CoatInv'
<1>0. PICK share : share = Share(s, rolls[r].meters)
  OBVIOUS
<1>1. /\ r \in DOMAIN rolls /\ rolls[r].qr # "LAM" /\ rolls[r].meters \in Nat
      /\ AllInWip(s, rolls[r].meters)
      /\ rows' = Spent(share)
      /\ links' = links \cup NewLinks(r, share)
      /\ DOMAIN rolls' = DOMAIN rolls
      /\ \A x \in DOMAIN rolls \ {r} : rolls'[x] = rolls[x]
      /\ rolls'[r].qr = "LAM"
      /\ rolls'[r].history =
           Append(rolls[r].history, Entry("LAMINADO", s, rolls[r].meters))
      /\ RollOK(rolls'[r]) /\ DOMAIN rolls'[r] = Fields
  BY <1>0, TransformWrites
<1> DEFINE meters == rolls[r].meters
           e == Entry("LAMINADO", s, meters)
           n == Len(rolls[r].history)
           gave == Gave(share)
           link == [k \in gave |-> LinkOf(r, share, k)]
           new == {link[k] : k \in gave}
           kg == [l \in links' |-> l.kg]
<1>1a. /\ DOMAIN rows' = DOMAIN rows
       /\ \A k \in DOMAIN rows :
            rows'[k] = [rows[k] EXCEPT !.amount = @ - share[k], !.balance = @ - share[k]]
       /\ rows' = [k \in DOMAIN rows |-> rows'[k]]
  <2>1. rows' = Spent(share)
    BY <1>1
  <2>. QED
    BY <2>1 DEF Spent
<1>1b. /\ \A k \in DOMAIN rows : k \in gave <=> share[k] > 0
       /\ gave \in SUBSET DOMAIN rows
       /\ \A k \in gave : k \in DOMAIN rows
  BY DEF Gave
<1> HIDE DEF gave
<1>2. TypeOK
  BY DEF CoatInv
<1>3. /\ \A k \in DOMAIN rows : share[k] \in Nat /\ share[k] <= rows[k].amount
      /\ \A m \in Materials : Total(share, RowsOf(m)) = Need(s, meters, m)
  BY <1>0, <1>1, <1>2, ShareFacts
<1>4. /\ Len(rows) \in Nat /\ DOMAIN rows = 1..Len(rows)
      /\ \A k \in DOMAIN rows : /\ rows[k] \in RowType
                                /\ rows[k].amount \in Nat /\ rows[k].balance \in Nat
                                /\ rows[k].received \in Nat
      /\ \A I \in SUBSET DOMAIN rows : IsFiniteSet(I)
  BY <1>2, RowFacts
<1>5. links' = links \cup new
  BY <1>1 DEF NewLinks, gave
<1>6. /\ \A k \in gave : /\ link[k].row = k /\ link[k].roll = r /\ link[k].kg = share[k]
                         /\ link[k] \in LinkType
      /\ \A l \in new : l.row \in gave /\ l.roll = r /\ l = link[l.row]
  <2>1. \A k \in gave : link[k].row = k /\ link[k].roll = r /\ link[k].kg = share[k]
    BY DEF LinkOf
  <2>2. \A k \in gave : k \in Nat /\ share[k] \in Nat
    BY <1>1b, <1>3, <1>4
  <2>3. \A k \in gave : link[k] \in LinkType
    BY <2>2 DEF LinkOf, LinkType
  <2> HIDE DEF link, gave
  <2>. QED
    BY <2>1, <2>3
<1>7. IsFiniteSet(new)
  <2>1. IsFiniteSet(gave)
    BY <1>1b, <1>4
  <2> HIDE DEF link, gave
  <2>. QED
    BY <2>1, FiniteImage
<1>8. \A l \in links : l.roll # r
  BY <1>1 DEF CoatInv, Linked
<1> HIDE DEF link, new
<1>9. \A k \in DOMAIN rows : /\ rows'[k] \in RowType
                             /\ rows'[k].amount = rows[k].amount - share[k]
                             /\ rows'[k].balance = rows[k].balance - share[k]
                             /\ rows'[k].received = rows[k].received
                             /\ rows'[k].material = rows[k].material
  <2> SUFFICES ASSUME NEW k \in DOMAIN rows
               PROVE  /\ rows'[k] \in RowType
                      /\ rows'[k].amount = rows[k].amount - share[k]
                      /\ rows'[k].balance = rows[k].balance - share[k]
                      /\ rows'[k].received = rows[k].received
                      /\ rows'[k].material = rows[k].material
    OBVIOUS
  <2> DEFINE a == rows[k].amount - share[k]
             b == rows[k].balance - share[k]
  <2>1. rows[k].amount = rows[k].balance
    BY ChargedIff DEF CoatInv, RowCharged
  <2>2. a \in Nat /\ b \in Nat /\ rows[k] \in RowType
    BY <1>3, <1>4, <2>1
  <2>3. rows'[k] = [rows[k] EXCEPT !.amount = a, !.balance = b]
    BY <1>1a, <2>2 DEF RowType
  <2> HIDE DEF a, b
  <2>4. /\ rows'[k] \in RowType /\ rows'[k].amount = a /\ rows'[k].balance = b
        /\ rows'[k].received = rows[k].received /\ rows'[k].material = rows[k].material
    BY <2>2, <2>3 DEF RowType
  <2>. QED
    BY <2>4 DEF a, b
<1>10. TypeOK'
  <2>1. rows' \in Seq(RowType)
    <3>1. rows' = [k \in 1..Len(rows) |-> rows'[k]]
      BY <1>1a, <1>4
    <3>2. \A k \in 1..Len(rows) : rows'[k] \in RowType
      BY <1>4, <1>9
    <3>. QED
      BY <1>4, <3>1, <3>2
  <2>2. links' \subseteq LinkType
    <3>1. \A l \in new : l \in LinkType
      BY <1>6
    <3>. QED
      BY <1>2, <1>5, <3>1 DEF TypeOK
  <2>3. \A x \in DOMAIN rolls' : RollOK(rolls'[x])
    BY <1>1, <1>2 DEF TypeOK
  <2>. QED
    BY <1>1, <1>2, <2>1, <2>2, <2>3 DEF TypeOK
<1>11. /\ \A l \in links' : kg[l] = l.kg /\ l.kg \in Nat
       /\ \A S : Kg(S)' = Total(kg, S)
  BY <1>10 DEF TypeOK, LinkType, Kg
<1>12. \A S \in SUBSET links : /\ IsFiniteSet(S) /\ Kg(S) \in Nat
                               /\ Total(kg, S) = Kg(S)
  BY <1>5, KgFacts
<1> HIDE DEF kg
<1>13. ASSUME NEW k \in DOMAIN rows'
       PROVE  RowCharged(k)'
  <2> DEFINE A == TakenFrom(k)
             B == {l \in links' : l.row = k}
  <2>0. k \in DOMAIN rows
    BY <1>1a
  <2>1. A \in SUBSET links /\ TakenFrom(k)' = B
    BY DEF TakenFrom
  <2>2. IsFiniteSet(A) /\ Kg(A) \in Nat /\ Total(kg, A) = Kg(A)
    BY <1>12, <2>1
  <2>3. /\ rows[k].amount = rows[k].balance
        /\ rows[k].received = rows[k].amount + Kg(A)
    BY <1>1a, ChargedIff DEF CoatInv, RowCharged
  <2>4. share[k] \in Nat /\ rows[k].amount \in Nat
    BY <1>1a, <1>3, <1>4
  <2>5. Total(kg, B) = share[k] + Kg(A)
    <3>1. CASE k \in gave
      <4>1. B = A \cup {link[k]} /\ link[k] \notin A
        <5>1. link[k] \in new /\ link[k].row = k /\ link[k].roll = r
          BY <1>6, <3>1 DEF new
        <5>2. \A l \in new : l.row = k => l = link[k]
          BY <1>6
        <5>. QED
          BY <1>5, <1>8, <2>1, <5>1, <5>2 DEF TakenFrom
      <4>2. kg[link[k]] = share[k]
        <5>1. link[k] \in links'
          BY <1>5, <3>1 DEF new
        <5>. QED
          BY <1>6, <1>11, <3>1, <5>1
      <4>3. \A l \in A \cup {link[k]} : kg[l] \in Int
        BY <1>11, <4>1, <2>1
      <4>4. Total(kg, B) = kg[link[k]] + Total(kg, A)
        <5> HIDE DEF A, B
        <5>. QED
          BY <2>2, <4>1, <4>3, TotalAdd
      <4>5. Total(kg, B) = share[k] + Kg(A)
        BY <2>2, <4>2, <4>4
      <4>. QED
        BY <4>5
    <3>2. CASE k \notin gave
      <4>1. B = A
        BY <1>5, <1>6, <2>1, <3>2 DEF TakenFrom
      <4>2. share[k] = 0
        BY <1>1b, <2>0, <2>4, <3>2
      <4>3. Total(kg, B) = Kg(A)
        BY <2>2, <4>1
      <4>. QED
        BY <2>2, <4>2, <4>3
    <3>. QED
      BY <3>1, <3>2
  <2>6. Kg(TakenFrom(k))' = share[k] + Kg(A)
    BY <2>1, <2>5 DEF Kg, kg
  <2>. QED
    <3> DEFINE q == Kg(TakenFrom(k))'
               p == Kg(A)
    <3>1. q = share[k] + p /\ p \in Nat
      BY <2>2, <2>6
    <3>2. /\ rows'[k].amount = rows[k].amount - share[k]
          /\ rows'[k].balance = rows[k].balance - share[k]
          /\ rows'[k].received = rows[k].received
      BY <1>9, <2>0
    <3>3. rows[k].amount = rows[k].balance /\ rows[k].received = rows[k].amount + p
      BY <2>3
    <3> HIDE DEF p, q
    <3>4. /\ rows'[k].amount = rows'[k].balance
          /\ rows'[k].received = rows'[k].amount + q
      BY <2>4, <3>1, <3>2, <3>3
    <3>. QED
      BY <3>4 DEF RowCharged, q
<1>14. ASSUME NEW x \in DOMAIN rolls \ {r}, NEW m \in Materials
       PROVE  RollCharged(x, m)'
  <2>1. TakenBy(x, m)' = TakenBy(x, m)
    <3>1. \A l \in links : rows'[l.row].material = rows[l.row].material
      BY <1>9 DEF CoatInv, Linked
    <3>2. \A l \in new : l.roll # x
      BY <1>6
    <3>. QED
      BY <1>5, <3>1, <3>2 DEF TakenBy
  <2>2. TakenBy(x, m) \in SUBSET links
    BY DEF TakenBy
  <2>3. Total(kg, TakenBy(x, m)) = Kg(TakenBy(x, m))
    BY <1>12, <2>2
  <2>4. Kg(TakenBy(x, m))' = Kg(TakenBy(x, m))
    BY <2>1, <2>3 DEF Kg, kg
  <2>5. RollCharged(x, m) /\ rolls'[x] = rolls[x]
    BY <1>1, ChargedIff DEF CoatInv
  <2>. QED
    BY <2>4, <2>5 DEF RollCharged
<1>15. /\ n \in Nat /\ Laminations(rolls'[r]) = {n + 1}
       /\ rolls'[r].history[n + 1] = e
  <2>1. rolls[r].history \in Seq(EntryType) /\ Laminations(rolls[r]) = {}
    BY <1>1, <1>2 DEF TypeOK, RollOK, CoatInv, Linked
  <2>2. e \in EntryType
    BY <1>1, PlantTypes DEF Entry, EntryType
  <2>3. e.spec = s /\ e.meters = meters /\ s # None
    BY RecipeAssumption DEF RecipeAssumption, Entry
  <2>4. rolls'[r].history = Append(rolls[r].history, e)
    BY <1>1
  <2> HIDE DEF e
  <2>5. /\ n \in Nat /\ DOMAIN rolls'[r].history = 1..(n + 1) /\ DOMAIN rolls[r].history = 1..n
        /\ \A j \in 1..n : rolls'[r].history[j] = rolls[r].history[j]
        /\ rolls'[r].history[n + 1] = e
    <3>1. /\ rolls'[r].history \in Seq(EntryType) /\ Len(rolls'[r].history) = n + 1
          /\ n \in Nat
      BY <2>1, <2>2, <2>4, AppendProperties
    <3>. QED
      BY <2>1, <2>2, <2>4, <3>1, AppendProperties
  <2>6. \A j \in 1..(n + 1) : j = n + 1 \/ j \in 1..n
    BY <2>5
  <2>7. \A j \in 1..n : rolls[r].history[j].spec = None
    BY <2>1, <2>5 DEF Laminations
  <2>. QED
    BY <2>3, <2>5, <2>6, <2>7 DEF Laminations
<1>16. ASSUME NEW m \in Materials
       PROVE  RollCharged(r, m)'
  <2> DEFINE d == Need(s, meters, m)
             S == RowsOf(m)
             T == S \cap gave
             c == Coatings(rolls'[r], m)
             f == [k \in T |-> kg[link[k]]]
  <2>1. d \in Nat /\ Total(share, S) = d
    <3>1. Recipe[s][m] \in Nat /\ meters \in Nat
      <4>1. Recipe[s][m] \in Nat
        BY RecipeAssumption DEF RecipeAssumption
      <4>. QED
        BY <1>1, <4>1
    <3>2. d \in Nat
      <4> HIDE DEF meters
      <4>. QED
        BY <3>1 DEF Need
    <3>. QED
      BY <1>3, <3>2
  <2>2. Total(c, {n + 1}) = d
    <3>1. c[n + 1] = d
      BY <1>15 DEF Coatings, Entry
    <3> HIDE DEF c, d
    <3>2. Total(c, {} \cup {n + 1}) = c[n + 1] + Total(c, {})
      <4>1. IsFiniteSet({}) /\ n + 1 \notin {} /\ \A y \in {} \cup {n + 1} : c[y] \in Int
        BY <2>1, <3>1, FS_EmptySet
      <4>. QED
        BY <4>1, TotalAdd
    <3>. QED
      BY <2>1, <3>1, <3>2, TotalEmpty
  <2>3. TakenBy(r, m)' = {link[k] : k \in T}
    <3>1. TakenBy(r, m)' = {l \in links' : l.roll = r /\ rows'[l.row].material = m}
      BY DEF TakenBy
    <3>2. \A l \in links' : l.roll = r => l \in new
      BY <1>5, <1>8
    <3>3. \A k \in gave : rows'[k].material = m <=> k \in T
      BY <1>1b, <1>9 DEF RowsOf
    <3>4. new = {link[k] : k \in gave}
      BY DEF new
    <3>. QED
      BY <1>5, <1>6, <3>1, <3>2, <3>3, <3>4
  <2>4. IsFiniteSet(S) /\ T \subseteq S /\ IsFiniteSet(T) /\ S \subseteq DOMAIN rows
    <3>1. S \in SUBSET DOMAIN rows /\ T \in SUBSET DOMAIN rows
      BY DEF RowsOf
    <3>. QED
      BY <1>1b, <1>4, <3>1
  <2>5. \A k \in T : kg[link[k]] = share[k] /\ share[k] \in Int
    <3>1. \A k \in gave : link[k] \in links'
      BY <1>5 DEF new
    <3>. QED
      BY <1>3, <1>6, <1>11, <3>1
  <2>6. \A j, k \in T : link[j] = link[k] => j = k
    BY <1>6
  <2>7. \A k \in S \ T : share[k] = 0
    BY <1>1b, <1>3, <2>4
  <2> HIDE DEF S, T, d, c
  <2>8. Total(kg, {link[k] : k \in T}) = Total(f, T)
    <3>1. \A k \in T : kg[link[k]] \in Int
      BY <2>5
    <3>. QED
      BY <2>4, <2>6, <3>1, TotalImage
  <2>9. \A k \in T : f[k] \in Int /\ share[k] = f[k]
    BY <2>5
  <2> HIDE DEF f
  <2>10. Total(share, S) = Total(f, T)
    BY <2>4, <2>7, <2>9, TotalSupport
  <2>11. Total(kg, TakenBy(r, m)') = d
    BY <2>1, <2>3, <2>8, <2>10
  <2>12. Kg(TakenBy(r, m))' = d
    BY <2>11 DEF Kg, kg
  <2>. QED
    BY <1>15, <2>2, <2>12 DEF RollCharged, c
<1>17. CoatingIsCharged'
  <2>1. /\ \A k \in DOMAIN rows' : RowCharged(k)'
        /\ \A x \in DOMAIN rolls', m \in Materials : RollCharged(x, m)'
    BY <1>1, <1>1a, <1>13, <1>14, <1>16
  <2>. QED
    BY <2>1 DEF CoatingIsCharged, RowCharged, RollCharged
<1>18. Linked'
  <2>1. IsFiniteSet(links')
    <3>1. IsFiniteSet(links)
      BY DEF CoatInv, Linked
    <3>. QED
      BY <1>5, <1>7, <3>1, FS_Union
  <2>2. DOMAIN rows' = DOMAIN rows /\ DOMAIN rolls' = DOMAIN rolls
    BY <1>1, <1>1a
  <2>3. \A x \in DOMAIN rolls : \/ x = r /\ rolls'[x].qr = "LAM" /\ DOMAIN rolls'[x] = Fields
                                \/ x \in DOMAIN rolls \ {r} /\ rolls'[x] = rolls[x]
    BY <1>1
  <2>4. \A l \in links : /\ l.row \in DOMAIN rows
                         /\ l.roll \in DOMAIN rolls /\ rolls[l.roll].qr = "LAM"
    BY DEF CoatInv, Linked
  <2>5. \A l \in new : l.row \in DOMAIN rows /\ l.roll = r /\ r \in DOMAIN rolls
    BY <1>1, <1>1b, <1>6
  <2>6. \A l \in links' : /\ l.row \in DOMAIN rows'
                          /\ l.roll \in DOMAIN rolls' /\ rolls'[l.roll].qr = "LAM"
    BY <1>5, <2>2, <2>3, <2>4, <2>5
  <2>7. \A x \in DOMAIN rolls : /\ DOMAIN rolls[x] = Fields
                                /\ Laminations(rolls[x]) # {} => rolls[x].qr = "LAM"
    BY DEF CoatInv, Linked
  <2>8. \A x \in DOMAIN rolls' : /\ DOMAIN rolls'[x] = Fields
                                 /\ Laminations(rolls'[x]) # {} => rolls'[x].qr = "LAM"
    BY <2>2, <2>3, <2>7
  <2>. QED
    BY <2>1, <2>6, <2>8 DEF Linked, Laminations
<1>. QED
  BY <1>10, <1>17, <1>18 DEF CoatInv

(* Every step keeps the material accounted for.                            *)
LEMMA CoatStep == CoatInv /\ [Next]_vars => CoatInv'
<1> SUFFICES ASSUME CoatInv, [Next]_vars PROVE CoatInv'
  OBVIOUS
<1>1. ASSUME NEW r \in Rolls, NEW m \in Lengths, NEW p \in Sheet[r], FinishRoll(r, p, m)
      PROVE  CoatInv'
  BY <1>1, FinishKeepsCoating
<1>2. ASSUME NEW r \in Rolls, NEW t \in Spoken, NEW m \in Lengths, ProcessStage(r, t, m)
      PROVE  CoatInv'
  BY <1>2, ProcessKeepsCoating
<1>3. ASSUME NEW m \in Materials, NEW kg \in Deliveries, Deliver(m, kg)
      PROVE  CoatInv'
  BY <1>3, DeliverKeepsCoating
<1>4. ASSUME NEW i \in DOMAIN rows, NEW kg \in Deliveries, DeliverMore(i, kg)
      PROVE  CoatInv'
  BY <1>4, DeliverMoreKeepsCoating
<1>5. ASSUME NEW r \in Rolls, NEW s \in Specs, TransformRoll(r, s)
      PROVE  CoatInv'
  BY <1>5, TransformKeepsCoating
<1>6. CASE UNCHANGED vars
  <2>1. rolls' = rolls /\ rows' = rows /\ links' = links
    BY <1>6 DEF vars
  <2>2. TypeOK' /\ Linked'
    BY <2>1 DEF CoatInv, TypeOK, Linked
  <2>3. /\ \A i : Kg(TakenFrom(i))' = Kg(TakenFrom(i))
        /\ \A r, m : Kg(TakenBy(r, m))' = Kg(TakenBy(r, m))
    BY <2>1 DEF Kg, TakenFrom, TakenBy
  <2>4. CoatingIsCharged'
    BY <2>1, <2>3 DEF CoatInv, CoatingIsCharged
  <2>. QED
    BY <2>2, <2>4 DEF CoatInv
<1>. QED
  BY <1>1, <1>2, <1>3, <1>4, <1>5, <1>6 DEF Next

(* The inductive invariant of the material holds in every state.           *)
LEMMA CoatInvariance == Spec => []CoatInv
<1>1. Init => CoatInv
  BY CoatInit
<1>2. CoatInv /\ [Next]_vars => CoatInv'
  BY CoatStep
<1>. QED
  BY <1>1, <1>2, PTL DEF Spec

(* The tables of the rolls, of the material in process and of the links    *)
(* hold what the services expect, whatever names the requests give to the  *)
(* stations: a roll is at hand or finished, meters and kilograms are never *)
(* negative.                                                               *)
THEOREM RollTablesTyped == Spec => []TypeOK
<1>1. Spec => []CoatInv
  BY CoatInvariance
<1>2. CoatInv => TypeOK
  BY DEF CoatInv
<1>. QED
  BY <1>1, <1>2, PTL

(* A lamination is charged in full or not at all: what the rolls took of a *)
(* row of the WIP is what is missing from the row and from the balance of  *)
(* its child QR, and a laminated roll took its whole recipe of every       *)
(* material, of as many rows as it needed.                                 *)
THEOREM LaminationIsCharged == Spec => []CoatingIsCharged
<1>1. Spec => []CoatInv
  BY CoatInvariance
<1>2. CoatInv => CoatingIsCharged
  BY DEF CoatInv
<1>. QED
  BY <1>1, <1>2, PTL

(* No step spends material of a row before it leaves every older row of    *)
(* the same material empty.                                                *)
THEOREM OldestMaterialFirst == Spec => OldestFirst
<1> DEFINE Oldest == \A i, j \in DOMAIN rows :
                        /\ i < j /\ rows[i].material = rows[j].material
                        /\ rows'[j].amount < rows[j].amount
                        => rows'[i].amount = 0
<1>1. ASSUME CoatInv, [Next]_vars PROVE [Oldest]_vars
  <2>1. /\ rows \in Seq(RowType) /\ Len(rows) \in Nat /\ DOMAIN rows = 1..Len(rows)
        /\ \A i \in DOMAIN rows : rows[i] \in RowType /\ rows[i].amount \in Nat
    BY <1>1, RowFacts DEF CoatInv
  <2>2. ASSUME \A i \in DOMAIN rows : rows'[i].amount >= rows[i].amount
                                      /\ rows'[i].amount \in Nat
        PROVE  Oldest
    BY <2>1, <2>2
  <2>3. ASSUME NEW m \in Materials, NEW kg \in Deliveries, Deliver(m, kg) PROVE Oldest
    <3> DEFINE row == [material |-> m, amount |-> kg, balance |-> kg, received |-> kg]
    <3>1. rows' = Append(rows, row)
      BY <2>3 DEF Deliver
    <3> HIDE DEF row
    <3>2. rows \in Seq(RowType \cup {row})
      BY <2>1, SeqMonotonic
    <3>3. \A i \in 1..Len(rows) : rows'[i] = rows[i]
      BY <3>1, <3>2, AppendProperties
    <3>4. \A i \in DOMAIN rows : rows'[i].amount >= rows[i].amount /\ rows'[i].amount \in Nat
      BY <2>1, <3>3
    <3>. QED
      BY <2>2, <3>4
  <2>4. ASSUME NEW k \in DOMAIN rows, NEW kg \in Deliveries, DeliverMore(k, kg) PROVE Oldest
    <3> DEFINE a == rows[k].amount + kg
               b == rows[k].received + kg
               row == [rows[k] EXCEPT !.amount = a, !.balance = a, !.received = b]
    <3>1. kg \in Nat
      BY RecipeAssumption DEF RecipeAssumption
    <3>2. rows[k] \in RowType /\ a \in Nat /\ a >= rows[k].amount
      BY <2>1, <3>1
    <3>3. rows' = [rows EXCEPT ![k] = row]
      BY <2>1, <2>4 DEF DeliverMore, RowType
    <3> HIDE DEF a, b
    <3>4. row.amount = a
      BY <3>2 DEF RowType
    <3> HIDE DEF row
    <3>5. \A i \in DOMAIN rows : rows'[i] = IF i = k THEN row ELSE rows[i]
      BY <3>3
    <3>6. \A i \in DOMAIN rows : rows'[i].amount >= rows[i].amount /\ rows'[i].amount \in Nat
      BY <2>1, <3>2, <3>4, <3>5
    <3>. QED
      BY <2>2, <3>6
  <2>5. ASSUME NEW r \in Rolls, NEW s \in Specs, TransformRoll(r, s) PROVE Oldest
    <3>1. PICK share : share = Share(s, rolls[r].meters)
      OBVIOUS
    <3>2. rolls[r].meters \in Nat /\ rows' = Spent(share)
      BY <1>1, <2>5, <3>1, TransformWrites
    <3>3. \A i \in DOMAIN rows :
             /\ share[i] \in Nat /\ share[i] <= rows[i].amount
             /\ share[i] > 0 => \A j \in RowsOf(rows[i].material) :
                                   j < i => share[j] = rows[j].amount
      BY <1>1, <3>1, <3>2, ShareFacts DEF CoatInv
    <3>4. \A i \in DOMAIN rows : rows'[i].amount = rows[i].amount - share[i]
      BY <2>1, <3>2 DEF Spent, RowType
    <3> SUFFICES ASSUME NEW i \in DOMAIN rows, NEW j \in DOMAIN rows,
                        i < j, rows[i].material = rows[j].material,
                        rows'[j].amount < rows[j].amount
                 PROVE  rows'[i].amount = 0
      OBVIOUS
    <3>5. share[j] > 0
      BY <2>1, <3>3, <3>4
    <3>6. i \in RowsOf(rows[j].material)
      BY DEF RowsOf
    <3>7. share[i] = rows[i].amount
      BY <3>3, <3>5, <3>6
    <3>. QED
      BY <2>1, <3>4, <3>7
  <2>6. ASSUME NEW r \in Rolls, NEW t \in Spoken, NEW m \in Lengths, ProcessStage(r, t, m)
        PROVE  rows' = rows
    BY <2>6 DEF ProcessStage
  <2>7. ASSUME NEW r \in Rolls, NEW m \in Lengths, NEW p \in Sheet[r], FinishRoll(r, p, m)
        PROVE  rows' = rows
    BY <2>7 DEF FinishRoll
  <2>8. rows' = rows => Oldest
    BY <2>1
  <2> HIDE DEF Oldest
  <2>. QED
    BY <1>1, <2>3, <2>4, <2>5, <2>6, <2>7, <2>8 DEF Next
<1>2. Spec => []CoatInv
  BY CoatInvariance
<1>3. CoatInv /\ [Next]_vars => [Oldest]_vars
  BY <1>1
<1>. QED
  BY <1>2, <1>3, PTL DEF Spec, OldestFirst
=============================================================================
