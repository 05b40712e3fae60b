-------------------------- MODULE ExtruderQueueProofs --------------------------
(***************************************************************************)
(* Proofs about ExtruderQueue, for every number of preparations,           *)
(* containers, clerks, sessions, rows, entries and logs.                   *)
(*                                                                         *)
(* The first part shows that the kilograms balance.  A handler leaves the  *)
(* rows of the queue with the containers they had (Grown), and a charge    *)
(* takes from a container what it takes and leaves a preparation with what *)
(* its containers hold, up to their rounding (ChargeKeeps).  So what is    *)
(* left in a container, together with what was produced from it and its    *)
(* scrap, stays what it was; the closure of a shift is shown so log by log *)
(* (ClosureIsSound).                                                       *)
(*                                                                         *)
(* The second part is about the order of steps of any number of requests:  *)
(* a row that a switch has locked stays live until the switch starts it,   *)
(* because the others wait; a container that a request found out of the    *)
(* queue stays out of it until it is added, unless two requests are adding *)
(* it, which raced remembers (OnceInv).                                    *)
(***************************************************************************)
EXTENDS ExtruderQueue, TotalTheorems, TLAPS

(* What holds at 0, and at the next number, holds up to n.                 *)
LEMMA RangeInduction ==
    ASSUME NEW n \in Nat, NEW Good, 0 \in Good,
           \A k \in 0..n : k < n /\ k \in Good => k + 1 \in Good
    PROVE  \A k \in 0..n : k \in Good
<1> DEFINE Bad == {k \in 0..n : k \notin Good}
<1> SUFFICES ASSUME Bad # {} PROVE FALSE
  OBVIOUS
<1>1. IsFiniteSet(0..n)
  BY FS_Interval
<1>2. IsFiniteSet(Bad) /\ Bad \subseteq Int
  BY <1>1, FS_Subset
<1>3. PICK k \in Bad : \A j \in Bad : k <= j
  <2> HIDE DEF Bad
  <2>. QED
    BY <1>2, FiniteMinimum
<1>4. k # 0 /\ k - 1 \in 0..n /\ k - 1 < n /\ k - 1 + 1 = k
  BY <1>3
<1>5. k - 1 \notin Bad
  BY <1>3, <1>4
<1>. QED
  BY <1>3, <1>4, <1>5

(* A function defined from each number to the next exists.                 *)
Walk(f, n, base, step) == f[0] = base /\ \A k \in 1..n : f[k] = step[<<k, f[k - 1]>>]

(* Such a function exists: f[n] is what n steps lead to from the base.     *)
LEMMA WalkExists ==
    ASSUME NEW n \in Nat, NEW B, NEW base \in B, NEW step \in [(1..n) \X B -> B]
    PROVE  \E f \in [0..n -> B] : Walk(f, n, base, step)
<1> DEFINE Good == {k \in 0..n : \E f \in [0..k -> B] : Walk(f, k, base, step)}
<1>1. 0 \in Good
  <2> DEFINE f == [k \in 0..0 |-> base]
  <2>1. f \in [0..0 -> B] /\ Walk(f, 0, base, step)
    BY DEF Walk
  <2>. QED
    BY <2>1
<1>2. ASSUME NEW k \in 0..n, k < n, k \in Good
      PROVE  k + 1 \in Good
  <2>1. PICK f \in [0..k -> B] : Walk(f, k, base, step)
    BY <1>2
  <2>2. k \in Nat /\ k + 1 \in 1..n /\ f[k] \in B
    BY <1>2
  <2> DEFINE v == step[<<k + 1, f[k]>>]
             g == [j \in 0..(k + 1) |-> IF j = k + 1 THEN v ELSE f[j]]
  <2>3. v \in B
    BY <2>2
  <2>4. g \in [0..(k + 1) -> B]
    <3> HIDE DEF v
    <3>. QED
      BY <2>2, <2>3
  <2>5. g[0] = base
    BY <2>1, <2>2 DEF Walk
  <2>6. ASSUME NEW j \in 1..(k + 1) PROVE g[j] = step[<<j, g[j - 1]>>]
    <3>1. CASE j = k + 1
      <4>1. g[j] = v /\ j - 1 = k /\ g[j - 1] = f[k]
        BY <2>2, <3>1
      <4>. QED
        BY <3>1, <4>1
    <3>2. CASE j # k + 1
      <4>1. j \in 1..k /\ j - 1 \in 0..k /\ g[j] = f[j] /\ g[j - 1] = f[j - 1]
        BY <2>2, <2>6, <3>2
      <4>. QED
        BY <2>1, <4>1 DEF Walk
    <3>. QED
      BY <3>1, <3>2
  <2>7. Walk(g, k + 1, base, step)
    <3> HIDE DEF g
    <3>. QED
      BY <2>5, <2>6 DEF Walk
  <2> HIDE DEF g
  <2>. QED
    BY <2>2, <2>4, <2>7
<1>3. n \in Good
  <2> HIDE DEF Good
  <2>. QED
    BY <1>1, <1>2, RangeInduction
<1>. QED
  BY <1>3
-----------------------------------------------------------------------------
(* The balances of containers and preparations.                            *)
BalanceType == [content : [Containers -> Nat], prep : [Batches -> Nat],
                overrun : [Containers -> Nat]]

(* One step of Corrected.                                                  *)
Correct(weights, n, bal) ==
    IF n \in DOMAIN weights THEN Charge(bal, logs[n].mix, Recorded(logs[n]), weights[n]) ELSE bal

(* A charge leaves balances.                                               *)
LEMMA ChargeTyped ==
    ASSUME NEW bal \in BalanceType, NEW m \in Containers, NEW back \in Nat, NEW kg \in Nat
    PROVE  Charge(bal, m, back, kg) \in BalanceType
BY MixAssumption DEF Charge, BalanceType, Less

(* What the closure leaves is reached by one correction after the other.   *)
LEMMA CorrectedWalks ==
    ASSUME TypeOK, NEW weights, DOMAIN weights \subseteq DOMAIN logs,
           \A n \in DOMAIN weights : weights[n] \in Nat
    PROVE  \E f \in [0..Len(logs) -> BalanceType] :
              /\ f[0] = balance /\ f[Len(logs)] = Corrected(weights)
              /\ \A n \in 1..Len(logs) : f[n] = Correct(weights, n, f[n - 1])
<1> DEFINE N == Len(logs)
           step == [x \in (1..N) \X BalanceType |-> Correct(weights, x[1], x[2])]
           IsAfter(g) ==
              g = [n \in 0..N |->
                      IF n = 0 THEN balance
                      ELSE IF n \in DOMAIN weights
                      THEN Charge(g[n - 1], logs[n].mix, Recorded(logs[n]), weights[n])
                      ELSE g[n - 1]]
<1>1. N \in Nat /\ balance \in BalanceType /\ DOMAIN logs = 1..N
  BY DEF TypeOK, BalanceType
<1>2. \A n \in 1..N : logs[n] \in LogType
  BY <1>1 DEF TypeOK
<1>3. \A n \in 1..N, bal \in BalanceType : Correct(weights, n, bal) \in BalanceType
  <2> SUFFICES ASSUME NEW n \in 1..N, NEW bal \in BalanceType, n \in DOMAIN weights
               PROVE  Charge(bal, logs[n].mix, Recorded(logs[n]), weights[n]) \in BalanceType
    BY DEF Correct
  <2>1. logs[n].mix \in Containers /\ Recorded(logs[n]) \in Nat /\ weights[n] \in Nat
    BY <1>2 DEF LogType, Recorded
  <2>. QED
    BY <2>1, ChargeTyped
<1>4. step \in [(1..N) \X BalanceType -> BalanceType]
  BY <1>3
<1>5. PICK f \in [0..N -> BalanceType] : Walk(f, N, balance, step)
  <2> HIDE DEF step, N
  <2>. QED
    BY <1>1, <1>4, WalkExists
<1>6. \A n \in 1..N : f[n] = Correct(weights, n, f[n - 1])
  <2> SUFFICES ASSUME NEW n \in 1..N PROVE f[n] = Correct(weights, n, f[n - 1])
    OBVIOUS
  <2>1. n - 1 \in 0..N /\ f[n - 1] \in BalanceType
    BY <1>1
  <2>2. f[n] = step[<<n, f[n - 1]>>]
    BY <1>5 DEF Walk
  <2>. QED
    BY <2>1, <2>2
<1>7. IsAfter(f)
  BY <1>1, <1>5, <1>6 DEF Walk, Correct
<1> DEFINE after == CHOOSE g : IsAfter(g)
<1>8. IsAfter(after)
  <2> HIDE DEF IsAfter
  <2>. QED
    BY <1>7
<1>9. Corrected(weights) = after[N]
  BY DEF Corrected
<1>10. after[0] = balance /\ \A n \in 1..N : after[n] = Correct(weights, n, after[n - 1])
  <2> HIDE DEF after
  <2>. QED
    BY <1>1, <1>8 DEF Correct
<1>11. \A n \in 0..N : after[n] \in BalanceType
  <2> DEFINE Good == {n \in 0..N : after[n] \in BalanceType}
  <2> HIDE DEF after
  <2>1. 0 \in Good
    BY <1>1, <1>10
  <2>2. ASSUME NEW n \in 0..N, n < N, n \in Good PROVE n + 1 \in Good
    <3>1. n + 1 \in 1..N /\ n + 1 - 1 = n /\ after[n] \in BalanceType
      BY <1>1, <2>2
    <3>. QED
      BY <1>3, <1>10, <3>1
  <2> HIDE DEF Good
  <2>3. \A n \in 0..N : n \in Good
    BY <1>1, <2>1, <2>2, RangeInduction
  <2>. QED
    BY <2>3 DEF Good
<1>12. after \in [0..N -> BalanceType]
  <2>1. after = [n \in 0..N |-> after[n]]
    <3> HIDE DEF after
    <3>. QED
      BY <1>8
  <2> HIDE DEF after
  <2>. QED
    BY <1>11, <2>1
<1> HIDE DEF after
<1>. QED
  BY <1>9, <1>10, <1>12

(* The tables a row-finishing handler may leave: the same containers, and  *)
(* no row comes back to the queue.                                         *)
Settled(rs) ==
    {t \in [DOMAIN rs -> RowType] : \A i \in DOMAIN rs :
        t[i].mix = rs[i].mix /\ (t[i].status \in Live => rs[i].status \in Live)}

(* A row that a handler may finish is finished or stays.                   *)
LEMMA FinishedSettles ==
    ASSUME NEW D, NEW rs \in [D -> RowType], NEW i \in D, NEW bal, NEW ls
    PROVE  Finished(rs, i, bal, ls) \subseteq Settled(rs)
<1> DEFINE done == [rs EXCEPT ![i].status = "COMPLETADA"]
           next == {j \in InStatus(done, {"EN_ESPERA"}) : BatchOf[rs[j].mix] = BatchOf[rs[i].mix]}
<1>1. rs \in Settled(rs)
  BY DEF Settled
<1>2. /\ done \in [D -> RowType]
      /\ \A j \in D : done[j].mix = rs[j].mix
      /\ \A j \in D : done[j].status = IF j = i THEN "COMPLETADA" ELSE rs[j].status
  BY DEF RowType
<1>3. done \in Settled(rs)
  <2> HIDE DEF done
  <2>. QED
    BY <1>2 DEF Settled, Live
<1>4. ASSUME NEW j \in next PROVE Follow(done, j) \in Settled(rs)
  <2>1. j \in D /\ done[j].status = "EN_ESPERA"
    BY <1>2, <1>4 DEF InStatus
  <2>2. j # i /\ rs[j].status \in Live
    BY <1>2, <2>1 DEF Live
  <2>3. /\ Follow(done, j) \in [D -> RowType]
        /\ \A k \in D : Follow(done, j)[k].mix = done[k].mix
        /\ \A k \in D : k # j => Follow(done, j)[k].status = done[k].status
    <3> HIDE DEF done
    <3>. QED
      BY <1>2, <2>1 DEF Follow, RowType, Live
  <2> HIDE DEF done
  <2>. QED
    BY <1>2, <2>2, <2>3 DEF Settled, Live
<1>5. \/ Finished(rs, i, bal, ls) = {rs}
      \/ Finished(rs, i, bal, ls) = {done}
      \/ Finished(rs, i, bal, ls) = {Follow(done, j) : j \in next}
  BY Zenon DEF Finished
<1> HIDE DEF done, next
<1>. QED
  BY <1>1, <1>3, <1>4, <1>5

(* Settling twice settles.                                                 *)
LEMMA SettledTwice ==
    ASSUME NEW rs, NEW t \in Settled(rs), NEW u \in Settled(t)
    PROVE  u \in Settled(rs)
BY DEF Settled

(* One step of FinishedInTurn.                                             *)
Turn(order, bal, ls, k, T) ==
    UNION {Finished(t, i, bal, ls) : t \in T, i \in RowsOf(rows, order[k])}

(* The mixtures that a closure names, one after the other.                 *)
LEMMA TurnsSettle ==
    ASSUME rows \in Seq(RowType), NEW order, Len(order) \in Nat, NEW bal, NEW ls
    PROVE  FinishedInTurn(order, bal, ls) \subseteq Settled(rows)
<1> DEFINE N == Len(order)
           B == SUBSET Settled(rows)
           turn(k, T) == Turn(order, bal, ls, k, T)
           step == [x \in (1..N) \X B |-> turn(x[1], x[2])]
           IsTables(g) ==
              g = [k \in 0..N |-> IF k = 0 THEN {rows} ELSE turn(k, g[k - 1])]
<1>1. N \in Nat /\ {rows} \in B
  <2>1. rows \in [DOMAIN rows -> RowType]
    OBVIOUS
  <2>. QED
    BY <2>1 DEF Settled
<1>2. \A k \in 1..N, T \in B : turn(k, T) \in B
  <2> SUFFICES ASSUME NEW k \in 1..N, NEW T \in B, NEW t \in T, NEW i \in RowsOf(rows, order[k]),
                      NEW u \in Finished(t, i, bal, ls)
               PROVE  u \in Settled(rows)
    BY DEF Turn
  <2>1. t \in Settled(rows)
    OBVIOUS
  <2>2. t \in [DOMAIN rows -> RowType] /\ i \in DOMAIN rows
    BY <2>1 DEF Settled, RowsOf
  <2>3. u \in Settled(t)
    BY <2>2, FinishedSettles
  <2>. QED
    BY <2>1, <2>3, SettledTwice
<1> HIDE DEF B
<1>3. step \in [(1..N) \X B -> B]
  <2> HIDE DEF turn
  <2>. QED
    BY <1>2
<1>4. PICK f \in [0..N -> B] : Walk(f, N, {rows}, step)
  <2> HIDE DEF step, N
  <2>. QED
    BY <1>1, <1>3, WalkExists
<1>5. \A k \in 1..N : f[k] = turn(k, f[k - 1])
  <2> SUFFICES ASSUME NEW k \in 1..N PROVE f[k] = turn(k, f[k - 1])
    OBVIOUS
  <2>1. k - 1 \in 0..N /\ f[k - 1] \in B
    BY <1>1
  <2>2. f[k] = step[<<k, f[k - 1]>>]
    BY <1>4 DEF Walk
  <2> HIDE DEF turn
  <2>. QED
    BY <2>1, <2>2
<1>6. IsTables(f)
  <2>1. f[0] = {rows}
    BY <1>4 DEF Walk
  <2>2. f = [k \in 0..N |-> f[k]]
    OBVIOUS
  <2>3. \A k \in 0..N : f[k] = IF k = 0 THEN {rows} ELSE turn(k, f[k - 1])
    <3> HIDE DEF turn
    <3> SUFFICES ASSUME NEW k \in 0..N PROVE f[k] = IF k = 0 THEN {rows} ELSE turn(k, f[k - 1])
      OBVIOUS
    <3>1. k # 0 => k \in 1..N
      BY <1>1
    <3>. QED
      BY <1>5, <2>1, <3>1
  <2> HIDE DEF turn
  <2>. QED
    BY <2>2, <2>3, Zenon
<1> DEFINE tables == CHOOSE g : IsTables(g)
<1>7. IsTables(tables)
  <2> HIDE DEF IsTables
  <2>. QED
    BY <1>6
<1>8. FinishedInTurn(order, bal, ls) = tables[N]
  BY DEF FinishedInTurn, Turn
<1>9. tables[0] = {rows} /\ \A k \in 1..N : tables[k] = turn(k, tables[k - 1])
  <2> HIDE DEF tables, turn
  <2>1. 0 \in 0..N /\ \A k \in 1..N : k \in 0..N /\ k # 0
    BY <1>1
  <2>2. \A k \in 0..N : tables[k] = IF k = 0 THEN {rows} ELSE turn(k, tables[k - 1])
    BY <1>7, Zenon
  <2> HIDE DEF IsTables
  <2>. QED
    BY <2>1, <2>2
<1>10. \A k \in 0..N : tables[k] \in B
  <2> DEFINE Good == {k \in 0..N : tables[k] \in B}
  <2> HIDE DEF tables
  <2>1. 0 \in Good
    <3>1. 0 \in 0..N
      BY <1>1
    <3> HIDE DEF turn, N
    <3>. QED
      BY <1>1, <1>9, <3>1
  <2>2. ASSUME NEW k \in 0..N, k < N, k \in Good PROVE k + 1 \in Good
    <3>1. k + 1 \in 1..N /\ k + 1 - 1 = k /\ tables[k] \in B
      BY <1>1, <2>2
    <3>2. tables[k + 1] = turn(k + 1, tables[k])
      BY <1>9, <3>1
    <3>3. turn(k + 1, tables[k]) \in B
      BY <1>2, <3>1
    <3>. QED
      BY <3>1, <3>2, <3>3
  <2> HIDE DEF Good
  <2>3. \A k \in 0..N : k \in Good
    BY <1>1, <2>1, <2>2, RangeInduction
  <2>. QED
    BY <2>3 DEF Good
<1> HIDE DEF tables
<1>. QED
  BY <1>1, <1>8, <1>10 DEF B

(* What a preparation holds against what its containers hold together.     *)
BatchKept(bal, b) ==
    /\ bal.prep[b] <= Total(bal.content, ContainersOf(b)) + Rounding
    /\ (\A m \in ContainersOf(b) : bal.overrun[m] = 0) =>
          Within(Rounding, bal.prep[b], Total(bal.content, ContainersOf(b)))

BalanceOK(bal, done) ==
    /\ bal \in BalanceType
    /\ \A m \in Containers : BatchOf[m] \notin done => bal.content[m] = 0 /\ bal.overrun[m] = 0
    /\ \A b \in Batches : BatchKept(bal, b)

(* What a container holds, less what it was charged beyond that.           *)
Left(bal, m) == bal.content[m] - bal.overrun[m]

(* The containers of a preparation are finitely many, and are those that   *)
(* name it.                                                                *)
LEMMA ContainersAreFinite ==
    ASSUME NEW b
    PROVE  /\ IsFiniteSet(ContainersOf(b)) /\ ContainersOf(b) \subseteq Containers
           /\ \A m \in Containers : m \in ContainersOf(b) <=> BatchOf[m] = b
BY FS_Subset, MixAssumption DEF ContainersOf

(* A subtraction that stops at zero, against the one that does not.        *)
LEMMA LessIs ==
    ASSUME NEW a \in Nat, NEW k \in Nat
    PROVE  /\ Less(a, k) \in Nat /\ Less(k, a) \in Nat
           /\ Less(a, k) - Less(k, a) = a - k
           /\ Less(a, k) >= a - k
           /\ Less(k, a) = 0 => Less(a, k) = a - k
           /\ Less(a, k) = 0 \/ Less(a, k) = a - k
BY DEF Less

(* What a charge leaves in each field, of its own container and of the     *)
(* others.                                                                 *)
LEMMA ChargeFields ==
    ASSUME NEW bal \in BalanceType, NEW m \in Containers, NEW back \in Nat, NEW kg \in Nat,
           NEW new, new = Charge(bal, m, back, kg)
    PROVE  /\ new \in BalanceType
           /\ \A x \in Containers : x # m => /\ new.content[x] = bal.content[x]
                                             /\ new.overrun[x] = bal.overrun[x]
           /\ new.content[m] = Less(bal.content[m] + back, kg)
           /\ new.overrun[m] = bal.overrun[m] + Less(kg, bal.content[m] + back)
           /\ \A b \in Batches : b # BatchOf[m] => new.prep[b] = bal.prep[b]
           /\ new.prep[BatchOf[m]] = Less(bal.prep[BatchOf[m]] + back, kg)
<1>1. new \in BalanceType
  BY ChargeTyped
<1>2. /\ new.content = [bal.content EXCEPT ![m] = Less(@ + back, kg)]
      /\ new.prep = [bal.prep EXCEPT ![BatchOf[m]] = Less(@ + back, kg)]
      /\ new.overrun = [bal.overrun EXCEPT ![m] = @ + Less(kg, bal.content[m] + back)]
  BY DEF Charge
<1>3. /\ bal.content \in [Containers -> Nat] /\ bal.prep \in [Batches -> Nat]
      /\ bal.overrun \in [Containers -> Nat] /\ BatchOf[m] \in Batches
  BY MixAssumption DEF BalanceType
<1>. QED
  BY <1>1, <1>2, <1>3

(* What a container was charged is given back and charged anew.            *)
Charged(bal, done, m, back, kg, new) ==
    /\ BalanceOK(bal, done) /\ m \in Containers /\ BatchOf[m] \in done
    /\ back \in Nat /\ kg \in Nat /\ new = Charge(bal, m, back, kg)

(* A charge or a correction keeps a preparation within its containers, and *)
(* takes from a container what it takes.                                   *)
LEMMA ChargeKeeps ==
    ASSUME NEW done, NEW bal, NEW m, NEW back, NEW kg, NEW new, Charged(bal, done, m, back, kg, new)
    PROVE  /\ BalanceOK(new, done)
           /\ \A x \in Containers : x # m => Left(new, x) = Left(bal, x)
           /\ Left(new, m) = Left(bal, m) + back - kg
<1>. USE DEF Charged
<1> DEFINE b == BatchOf[m]
           S == ContainersOf(b)
           have == bal.content[m] + back
<1>1. bal \in BalanceType /\ b \in Batches /\ m \in S
  BY MixAssumption DEF BalanceOK, ContainersOf
<1>0. new = Charge(bal, m, back, kg) /\ b = BatchOf[m]
  OBVIOUS
<1>2. /\ new \in BalanceType
      /\ \A x \in Containers : x # m => /\ new.content[x] = bal.content[x]
                                        /\ new.overrun[x] = bal.overrun[x]
      /\ new.content[m] = Less(bal.content[m] + back, kg)
      /\ new.overrun[m] = bal.overrun[m] + Less(kg, bal.content[m] + back)
      /\ \A c \in Batches : c # b => new.prep[c] = bal.prep[c]
      /\ new.prep[b] = Less(bal.prep[b] + back, kg)
  BY <1>0, <1>1, ChargeFields
<1>3. /\ \A x \in Containers : /\ bal.content[x] \in Nat /\ new.content[x] \in Nat
                               /\ bal.overrun[x] \in Nat /\ new.overrun[x] \in Nat
      /\ \A c \in Batches : bal.prep[c] \in Nat /\ new.prep[c] \in Nat
  BY <1>1, <1>2 DEF BalanceType
<1>31. /\ have \in Nat /\ have = bal.content[m] + back
       /\ new.content[m] = Less(have, kg)
       /\ new.overrun[m] = bal.overrun[m] + Less(kg, have)
  BY <1>2, <1>3
<1> HIDE DEF have
<1>32. /\ Less(have, kg) \in Nat /\ Less(kg, have) \in Nat
       /\ Less(have, kg) - Less(kg, have) = have - kg
       /\ Less(have, kg) >= have - kg
       /\ Less(kg, have) = 0 => Less(have, kg) = have - kg
  BY <1>31, LessIs
<1>4. \A x \in Containers :
         BatchOf[x] \notin done => new.content[x] = 0 /\ new.overrun[x] = 0
  BY <1>2 DEF BalanceOK
<1>5. ASSUME NEW c \in Batches, c # b PROVE BatchKept(new, c)
  <2>1. \A x \in ContainersOf(c) : x \in Containers /\ x # m
    BY <1>5 DEF ContainersOf
  <2>2. Total(new.content, ContainersOf(c)) = Total(bal.content, ContainersOf(c))
    BY <1>2, <2>1, ContainersAreFinite, TotalEqual
  <2>3. BatchKept(bal, c)
    BY DEF BalanceOK
  <2>. QED
    BY <1>2, <1>5, <2>1, <2>2, <2>3 DEF BatchKept
<1>6. BatchKept(new, b)
  <2>1. IsFiniteSet(S) /\ S \subseteq Containers
    BY ContainersAreFinite
  <2>2. BatchKept(bal, b)
    BY <1>1 DEF BalanceOK
  <2> DEFINE old == Total(bal.content, S)
             now == Total(new.content, S)
             rest == Total(bal.content, S \ {m})
  <2>3. /\ bal.prep[b] <= old + Rounding
        /\ (\A x \in S : bal.overrun[x] = 0) => Within(Rounding, bal.prep[b], old)
    BY <2>2 DEF BatchKept
  <2>4. IsFiniteSet(S \ {m}) /\ S \ {m} \subseteq Containers
    BY <2>1, FS_Subset
  <2>5. rest \in Nat /\ old = bal.content[m] + rest
    BY <1>1, <1>3, <2>1, <2>4, TotalNat, TotalRemove
  <2>6. now = new.content[m] + rest
    <3>1. now = new.content[m] + Total(new.content, S \ {m})
      BY <1>1, <1>3, <2>1, TotalRemove
    <3>2. Total(new.content, S \ {m}) = rest
      BY <1>2, <2>4, TotalEqual
    <3>. QED
      BY <3>1, <3>2
  <2> HIDE DEF S, old, now, rest
  <2>7. bal.prep[b] + back \in Nat /\ Rounding \in Nat
    BY <1>1, <1>3, MixAssumption
  <2>8. new.prep[b] <= now + Rounding
    BY <1>1, <1>2, <1>3, <2>3, <2>5, <2>6, <2>7 DEF Less
  <2>9. ASSUME \A x \in S : new.overrun[x] = 0 PROVE Within(Rounding, new.prep[b], now)
    <3>1. new.overrun[m] = 0
      BY <1>1, <2>9
    <3>2. bal.overrun[m] = 0 /\ Less(kg, have) = 0
      BY <1>3, <1>31, <1>32, <3>1
    <3>3. \A x \in S : bal.overrun[x] = 0
      BY <1>2, <2>1, <2>9, <3>2
    <3>4. new.content[m] = bal.content[m] + back - kg
      BY <1>3, <1>31, <1>32, <3>2
    <3>5. now = old + back - kg
      BY <1>1, <1>3, <2>5, <2>6, <3>4
    <3>6. now \in Nat /\ old \in Nat
      BY <1>1, <1>3, <2>5, <2>6
    <3>7. old <= bal.prep[b] + Rounding
      BY <2>3, <3>3 DEF Within
    <3>8. now <= new.prep[b] + Rounding
      BY <1>1, <1>2, <1>3, <2>7, <3>5, <3>6, <3>7 DEF Less
    <3>. QED
      BY <2>8, <3>8 DEF Within
  <2>. QED
    BY <2>8, <2>9 DEF BatchKept, now, S
<1>7. /\ \A x \in Containers : x # m => Left(new, x) = Left(bal, x)
      /\ Left(new, m) = Left(bal, m) + back - kg
  <2>1. ASSUME NEW x \in Containers, x # m PROVE Left(new, x) = Left(bal, x)
    BY <1>2, <2>1 DEF Left
  <2>2. Left(new, m) = Left(bal, m) + back - kg
    <3>1. bal.content[m] \in Nat /\ bal.overrun[m] \in Nat
      BY <1>3
    <3>. QED
      BY <1>31, <1>32, <3>1 DEF Left
  <2>. QED
    BY <2>1, <2>2
<1>. QED
  BY <1>2, <1>4, <1>5, <1>6, <1>7 DEF BalanceOK

(* The kilograms of container m in a column of kilograms, by the column of *)
(* containers.                                                             *)
KgOf(mix, kg, m) == Total(kg, {n \in DOMAIN kg : mix[n] = m})

NetKg(es) == [n \in DOMAIN es |-> es[n].net]
WeightKg(ls) == [n \in DOMAIN ls |-> ls[n].weight]
Mixes(t) == [n \in DOMAIN t |-> t[n].mix]
ProducedIn(es, m) == KgOf(Mixes(es), NetKg(es), m)
WastedIn(ls, m) == KgOf(Mixes(ls), WeightKg(ls), m)

(* The kilograms of the model are those of the columns.                    *)
LEMMA SameSums ==
    ASSUME NEW m
    PROVE  Produced(m) = ProducedIn(entries, m) /\ Wasted(m) = WastedIn(logs, m)
<1>1. {n \in DOMAIN entries : entries[n].mix = m}
         = {n \in DOMAIN NetKg(entries) : Mixes(entries)[n] = m}
  BY DEF NetKg, Mixes
<1>2. {n \in DOMAIN logs : logs[n].mix = m}
         = {n \in DOMAIN WeightKg(logs) : Mixes(logs)[n] = m}
  BY DEF WeightKg, Mixes
<1>. QED
  BY <1>1, <1>2, Zenon DEF Produced, Wasted, ProducedIn, WastedIn, KgOf, NetKg, WeightKg

(* The numbers of the rows of a table are finitely many.                   *)
LEMMA RangeIsFinite == \A n \in Nat : IsFiniteSet(1..n)
<1> SUFFICES ASSUME NEW n \in Nat PROVE IsFiniteSet(1..n)
  OBVIOUS
<1>. QED
  BY FS_Interval

(* The kilograms of a container are a natural number.                      *)
LEMMA KgIsNat ==
    ASSUME NEW N \in Nat, NEW kg \in [1..N -> Nat], NEW mix, NEW m
    PROVE  KgOf(mix, kg, m) \in Nat /\ IsFiniteSet({n \in 1..N : mix[n] = m})
<1>1. IsFiniteSet(1..N)
  BY FS_Interval
<1>2. IsFiniteSet({n \in 1..N : mix[n] = m})
  BY <1>1, FS_Subset
<1>3. \A n \in {n \in 1..N : mix[n] = m} : kg[n] \in Nat
  OBVIOUS
<1>4. Total(kg, {n \in 1..N : mix[n] = m}) \in Nat
  BY <1>2, <1>3, TotalNat
<1>. QED
  BY <1>2, <1>4 DEF KgOf

(* The kilograms of numbered rows, taken over the numbers.                 *)
Numbered(f, R, g, h, T) ==
    /\ IsFiniteSet(T)
    /\ \A i \in T : f[g[i]] \in Int
    /\ \A i \in T : f[g[i]] = h[i]
    /\ \A i, j \in T : g[i] = g[j] => i = j
    /\ \A i \in T : g[i] \in R
    /\ \A r \in R : \E i \in T : r = g[i]

(* A sum over numbered rows is the sum over their numbers.                 *)
LEMMA TotalNumbered ==
    ASSUME NEW f, NEW g, NEW T, NEW h, NEW R, Numbered(f, R, g, h, T)
    PROVE  IsFiniteSet(R) /\ Total(f, R) = Total(h, T)
<1>. USE DEF Numbered
<1>1. Total(f, {g[i] : i \in T}) = Total([i \in T |-> f[g[i]]], T)
  BY TotalImage
<1>2. IsFiniteSet({g[i] : i \in T})
  BY FiniteImage
<1> DEFINE e == [i \in T |-> f[g[i]]]
<1>3. \A i \in T : e[i] = h[i]
  OBVIOUS
<1>4. Total(f, {g[i] : i \in T}) = Total(e, T)
  BY <1>1
<1> HIDE DEF e
<1>5. Total(e, T) = Total(h, T)
  BY <1>3, TotalEqual
<1>6. {g[i] : i \in T} = R
  OBVIOUS
<1>. QED
  BY <1>2, <1>4, <1>5, <1>6

(* Rows that were added after the first N.                                 *)
Shifted(all, R, N, more, T) ==
    /\ IsFiniteSet(T) /\ T \subseteq Nat
    /\ \A k \in T : all[N + k] = more[k] /\ more[k] \in Int /\ N + k \in R
    /\ \A r \in R : \E k \in T : r = N + k

(* A sum over the rows that were added is the sum over what was added.     *)
LEMMA TotalShifted ==
    ASSUME NEW N \in Nat, NEW T, NEW all, NEW more, NEW R, Shifted(all, R, N, more, T)
    PROVE  IsFiniteSet(R) /\ Total(all, R) = Total(more, T)
<1>. USE DEF Shifted
<1> DEFINE g == [k \in T |-> N + k]
<1>1. \A k \in T : g[k] = N + k
  OBVIOUS
<1> HIDE DEF g
<1>2. \A k \in T : all[g[k]] \in Int
  BY <1>1
<1>3. \A k \in T : all[g[k]] = more[k]
  BY <1>1
<1>4. \A i, j \in T : g[i] = g[j] => i = j
  BY <1>1
<1>5. \A i \in T : g[i] \in R
  BY <1>1
<1>6. \A r \in R : \E i \in T : r = g[i]
  BY <1>1
<1>7. Numbered(all, R, g, more, T)
  BY <1>2, <1>3, <1>4, <1>5, <1>6 DEF Numbered
<1>. QED
  BY <1>7, TotalNumbered

(* The kilograms of a column with more rows.                               *)
Joined(all, kg, more, N, M) ==
    /\ \A n \in 1..N : all[n] = kg[n]
    /\ \A k \in 1..M : all[N + k] = more[k]

JoinedKg(all, kg, more, N, M) ==
    /\ N \in Nat /\ M \in Nat
    /\ kg \in [1..N -> Nat] /\ more \in [1..M -> Nat] /\ all \in [1..(N + M) -> Nat]
    /\ Joined(all, kg, more, N, M)

(* A column with more rows has the kilograms of both parts.                *)
LEMMA KgJoined ==
    ASSUME NEW N, NEW M, NEW kg, NEW more, NEW all, NEW mix, NEW mixMore, NEW mixAll, NEW m,
           JoinedKg(all, kg, more, N, M), Joined(mixAll, mix, mixMore, N, M)
    PROVE  KgOf(mixAll, all, m) = KgOf(mix, kg, m) + KgOf(mixMore, more, m)
<1>. USE DEF Joined, JoinedKg
<1> DEFINE S == {n \in 1..N : mix[n] = m}
           T == {k \in 1..M : mixMore[k] = m}
           R == {N + k : k \in T}
           A == {n \in 1..(N + M) : mixAll[n] = m}
<1>1. IsFiniteSet(S) /\ IsFiniteSet(T)
  <2>1. IsFiniteSet(1..N) /\ IsFiniteSet(1..M)
    BY RangeIsFinite
  <2>2. S \subseteq 1..N /\ T \subseteq 1..M
    OBVIOUS
  <2> HIDE DEF S, T
  <2>. QED
    BY <2>1, <2>2, FS_Subset
<1>0. \A n \in R : \E k \in T : k \in 1..M /\ mixMore[k] = m /\ n = N + k
  OBVIOUS
<1>2. \A n \in 1..(N + M) : n \in 1..N \/ (n - N \in 1..M /\ n = N + (n - N))
  OBVIOUS
<1>3. A = S \cup R
  <2>1. A \subseteq S \cup R
    <3> SUFFICES ASSUME NEW n \in A, n \notin S PROVE n \in R
      OBVIOUS
    <3>1. n \in 1..(N + M) /\ mixAll[n] = m
      OBVIOUS
    <3>2. n \notin 1..N
      BY <3>1
    <3>3. n - N \in 1..M /\ n = N + (n - N)
      BY <1>2, <3>1, <3>2
    <3>4. n - N \in T
      BY <3>1, <3>3
    <3>. QED
      BY <3>3, <3>4
  <2>2. \A n \in S : n \in 1..N /\ n \in 1..(N + M) /\ mixAll[n] = m
    OBVIOUS
  <2>3. \A n \in R : n \in 1..(N + M) /\ mixAll[n] = m
    <3> SUFFICES ASSUME NEW n \in R PROVE n \in 1..(N + M) /\ mixAll[n] = m
      OBVIOUS
    <3> HIDE DEF R, T
    <3>1. PICK k \in T : k \in 1..M /\ mixMore[k] = m /\ n = N + k
      BY <1>0
    <3>2. n \in 1..(N + M) /\ mixAll[N + k] = m
      BY <3>1
    <3>. QED
      BY <3>1, <3>2
  <2> HIDE DEF S, R
  <2>4. S \subseteq A /\ R \subseteq A
    BY <2>2, <2>3
  <2> HIDE DEF A
  <2>. QED
    BY <2>1, <2>4
<1>4. S \cap R = {}
  <2> HIDE DEF R
  <2>. QED
    BY <1>0
<1>5. \A n \in S \cup R : all[n] \in Int
  <2>1. \A n \in A : all[n] \in Int
    OBVIOUS
  <2> HIDE DEF A, S, R
  <2>. QED
    BY <1>3, <2>1
<1>8. /\ \A k \in T : all[N + k] = more[k] /\ more[k] \in Int
      /\ \A n \in S : all[n] = kg[n]
      /\ T \subseteq Nat
  OBVIOUS
<1>10. IsFiniteSet(R) /\ Total(all, R) = Total(more, T)
  <2>1. \A k \in T : all[N + k] = more[k] /\ more[k] \in Int /\ N + k \in R
    BY <1>8
  <2>2. \A r \in R : \E k \in T : r = N + k
    OBVIOUS
  <2> HIDE DEF R, T
  <2>3. Shifted(all, R, N, more, T)
    BY <1>1, <1>8, <2>1, <2>2 DEF Shifted
  <2>. QED
    BY <2>3, TotalShifted
<1> HIDE DEF S, T, A, R
<1>12. Total(all, S \cup R) = Total(all, S) + Total(all, R)
  BY <1>1, <1>4, <1>5, <1>10, TotalUnion
<1>13. Total(all, S) = Total(kg, S)
  BY <1>1, <1>8, TotalEqual
<1>14. /\ KgOf(mixAll, all, m) = Total(all, A)
       /\ KgOf(mix, kg, m) = Total(kg, S)
       /\ KgOf(mixMore, more, m) = Total(more, T)
  BY DEF KgOf, A, S, T
<1>. QED
  BY <1>3, <1>10, <1>12, <1>13, <1>14

(* The kilograms of a column after one row changed.                        *)
ChangedKg(new, kg, x, N) ==
    /\ N \in Nat /\ x \in 1..N
    /\ kg \in [1..N -> Nat] /\ new \in [1..N -> Nat]
    /\ \A n \in 1..N : n # x => new[n] = kg[n]

(* A change of one row changes the kilograms of its container by as much.  *)
LEMMA KgChanged ==
    ASSUME NEW N, NEW kg, NEW new, NEW x, NEW mix, NEW m, ChangedKg(new, kg, x, N)
    PROVE  /\ mix[x] = m => KgOf(mix, new, m) = KgOf(mix, kg, m) + new[x] - kg[x]
           /\ mix[x] # m => KgOf(mix, new, m) = KgOf(mix, kg, m)
<1>. USE DEF ChangedKg
<1> DEFINE S == {n \in 1..N : mix[n] = m}
<1>1. IsFiniteSet(S)
  <2>1. IsFiniteSet(1..N) /\ S \subseteq 1..N
    BY RangeIsFinite
  <2> HIDE DEF S
  <2>. QED
    BY <2>1, FS_Subset
<1>2. /\ x \in S <=> mix[x] = m
      /\ \A n \in S : new[n] \in Int /\ kg[n] \in Int
      /\ \A n \in S : n # x => new[n] = kg[n]
  OBVIOUS
<1>3. KgOf(mix, new, m) = Total(new, S) /\ KgOf(mix, kg, m) = Total(kg, S)
  BY DEF KgOf
<1> HIDE DEF S
<1>4. CASE mix[x] = m
  <2>1. Total(new, S) = Total(kg, S) + new[x] - kg[x]
    BY <1>1, <1>2, <1>4, TotalUpdate
  <2>. QED
    BY <1>3, <1>4, <2>1
<1>5. CASE mix[x] # m
  <2>1. \A n \in S : new[n] = kg[n]
    BY <1>2, <1>5
  <2>2. Total(new, S) = Total(kg, S)
    BY <1>1, <2>1, TotalEqual
  <2>. QED
    BY <1>3, <1>5, <2>2
<1>. QED
  BY <1>4, <1>5

(* A column of one row, or of none.                                        *)
LEMMA KgOfOne ==
    ASSUME NEW kg \in [1..1 -> Nat], NEW mix, NEW m
    PROVE  /\ mix[1] = m => KgOf(mix, kg, m) = kg[1]
           /\ mix[1] # m => KgOf(mix, kg, m) = 0
<1> DEFINE S == {n \in 1..1 : mix[n] = m}
<1>1. KgOf(mix, kg, m) = Total(kg, S)
  BY DEF KgOf
<1>2. /\ mix[1] = m => S = {1}
      /\ mix[1] # m => S = {}
  OBVIOUS
<1>3. Total(kg, {}) = 0
  BY TotalEmpty
<1>4. Total(kg, {1}) = kg[1]
  <2>1. IsFiniteSet({}) /\ 1 \notin {} /\ {} \cup {1} = {1} /\ \A y \in {} \cup {1} : kg[y] \in Int
    BY FS_EmptySet
  <2>2. Total(kg, {} \cup {1}) = kg[1] + Total(kg, {})
    BY <2>1, TotalAdd
  <2>3. kg[1] \in Nat
    OBVIOUS
  <2>. QED
    BY <1>3, <2>1, <2>2, <2>3
<1>. QED
  BY <1>1, <1>2, <1>3, <1>4

(* A container that no row names has no kilograms.                         *)
LEMMA KgOfNone ==
    ASSUME NEW kg, NEW mix, NEW m, \A n \in DOMAIN kg : mix[n] # m
    PROVE  KgOf(mix, kg, m) = 0
<1>1. {n \in DOMAIN kg : mix[n] = m} = {}
  OBVIOUS
<1>. QED
  BY <1>1, TotalEmpty DEF KgOf

(* The parts of the invariant.                                             *)
RowsOK(rs, done) ==
    rs \in Seq(RowType) /\ \A i \in DOMAIN rs : BatchOf[rs[i].mix] \in done

EntriesOK(es, rs) ==
    /\ es \in Seq(EntryType)
    /\ \A n \in DOMAIN es : es[n].row \in DOMAIN rs /\ rs[es[n].row].mix = es[n].mix

LogsOK(ls, done, closures) ==
    /\ ls \in Seq(LogType)
    /\ \A n \in DOMAIN ls :
          /\ BatchOf[ls[n].mix] \in done
          /\ ls[n].closed => ls[n].shift \in closures
          /\ ls[n].estimate > 0 /\ ~ls[n].corrected /\ ~ls[n].closed =>
                ls[n].weight = ls[n].estimate

DeskOK(dk, rs, done) ==
    /\ dk \in [Clerks -> DeskType]
    /\ \A c \in Clerks :
          /\ dk[c].op = "enqueue" => BatchOf[dk[c].mix] \in done
          /\ dk[c].op = "switch" => dk[c].target \in DOMAIN rs

(* Recharged, of any table of logs.                                        *)
Recharge(ls, m) == \E n \in DOMAIN ls : ls[n].mix = m /\ ls[n].corrected
                                          /\ ls[n].closed /\ ls[n].estimate > 0

(* What is left of a container, what was produced from it and its scrap.   *)
Accounted(bal, es, ls, m) == Left(bal, m) + ProducedIn(es, m) + WastedIn(ls, m)

MassOK(bal, es, ls, done) ==
    \A m \in Containers : BatchOf[m] \in done /\ ~Recharge(ls, m) =>
        Accounted(bal, es, ls, m) = Filled[m]

ShiftsOK(s, n, closures, done) ==
    s \in Nat /\ n \in Nat /\ closures \subseteq Nat /\ done \subseteq Batches

QueueInv ==
    /\ ShiftsOK(session, opened, reconciled, prepared)
    /\ RowsOK(rows, prepared)
    /\ BalanceOK(balance, prepared)
    /\ EntriesOK(entries, rows)
    /\ LogsOK(logs, prepared, reconciled)
    /\ DeskOK(desk, rows, prepared)
    /\ MassOK(balance, entries, logs, prepared)
    /\ raced \subseteq Containers

(* The columns of a table of entries or logs are kilograms and containers. *)
LEMMA Columns ==
    /\ \A es \in Seq(EntryType) :
          NetKg(es) \in [1..Len(es) -> Nat] /\ Mixes(es) \in [1..Len(es) -> Containers]
    /\ \A ls \in Seq(LogType) :
          WeightKg(ls) \in [1..Len(ls) -> Nat] /\ Mixes(ls) \in [1..Len(ls) -> Containers]
<1>1. ASSUME NEW es \in Seq(EntryType)
      PROVE  NetKg(es) \in [1..Len(es) -> Nat] /\ Mixes(es) \in [1..Len(es) -> Containers]
  <2>1. \A n \in 1..Len(es) : es[n] \in EntryType
    OBVIOUS
  <2>2. /\ DOMAIN es = 1..Len(es)
        /\ \A n \in 1..Len(es) : es[n].net \in Nat /\ es[n].mix \in Containers
    BY <2>1 DEF EntryType
  <2>. QED
    BY <2>2 DEF NetKg, Mixes
<1>2. ASSUME NEW ls \in Seq(LogType)
      PROVE  WeightKg(ls) \in [1..Len(ls) -> Nat] /\ Mixes(ls) \in [1..Len(ls) -> Containers]
  <2>1. \A n \in 1..Len(ls) : ls[n] \in LogType
    OBVIOUS
  <2>2. /\ DOMAIN ls = 1..Len(ls)
        /\ \A n \in 1..Len(ls) : ls[n].weight \in Nat /\ ls[n].mix \in Containers
    BY <2>1 DEF LogType
  <2>. QED
    BY <2>2 DEF WeightKg, Mixes
<1>. QED
  BY <1>1, <1>2

(* What was produced and what was wasted are natural numbers.              *)
LEMMA SumsAreNat ==
    ASSUME NEW m
    PROVE  /\ \A es \in Seq(EntryType) : ProducedIn(es, m) \in Nat
           /\ \A ls \in Seq(LogType) : WastedIn(ls, m) \in Nat
<1>1. ASSUME NEW es \in Seq(EntryType) PROVE ProducedIn(es, m) \in Nat
  <2>1. NetKg(es) \in [1..Len(es) -> Nat] /\ Len(es) \in Nat
    BY Columns
  <2>. QED
    BY <2>1, KgIsNat DEF ProducedIn
<1>2. ASSUME NEW ls \in Seq(LogType) PROVE WastedIn(ls, m) \in Nat
  <2>1. WeightKg(ls) \in [1..Len(ls) -> Nat] /\ Len(ls) \in Nat
    BY Columns
  <2>. QED
    BY <2>1, KgIsNat DEF WastedIn
<1>. QED
  BY <1>1, <1>2

(* The invariant gives the type invariant and the two balances.            *)
LEMMA QueueInvMeans ==
    ASSUME QueueInv PROVE TypeOK /\ MassBalance /\ BatchIsItsContainers
<1>1. TypeOK
  BY DEF QueueInv, ShiftsOK, RowsOK, BalanceOK, EntriesOK, LogsOK, DeskOK, TypeOK, BalanceType
<1>2. BatchIsItsContainers
  <2>1. \A b \in Batches : BatchKept(balance, b)
    BY DEF QueueInv, BalanceOK
  <2>. QED
    BY <1>1, <2>1 DEF BatchIsItsContainers, BatchKept
<1>3. MassBalance
  <2> SUFFICES ASSUME NEW m \in Containers, BatchOf[m] \in prepared, ~Recharged(m)
               PROVE  Filled[m] + balance.overrun[m]
                        = balance.content[m] + Produced(m) + Wasted(m)
    BY DEF MassBalance
  <2>1. Accounted(balance, entries, logs, m) = Filled[m]
    BY DEF QueueInv, MassOK, Recharged, Recharge
  <2>2. Filled[m] = Left(balance, m) + Produced(m) + Wasted(m)
    BY <2>1, SameSums DEF Accounted
  <2>3. balance.content[m] \in Nat /\ balance.overrun[m] \in Nat /\ Filled[m] \in Nat
    BY <1>1, MixAssumption DEF TypeOK
  <2>4. Produced(m) \in Nat /\ Wasted(m) \in Nat
    <3>1. ProducedIn(entries, m) \in Nat /\ WastedIn(logs, m) \in Nat
      BY <1>1, SumsAreNat DEF TypeOK
    <3>. QED
      BY <3>1, SameSums
  <2>. QED
    BY <2>2, <2>3, <2>4 DEF Left
<1>. QED
  BY <1>1, <1>2, <1>3

(* Scrap of logs that were added to a table.                               *)
LEMMA WastedJoined ==
    ASSUME NEW ls \in Seq(LogType), NEW more \in Seq(LogType), NEW m
    PROVE  WastedIn(ls \o more, m) = WastedIn(ls, m) + WastedIn(more, m)
<1> DEFINE all == ls \o more
           N == Len(ls)
           M == Len(more)
<1>1. N \in Nat /\ M \in Nat /\ DOMAIN ls = 1..N /\ DOMAIN more = 1..M
  OBVIOUS
<1>2. /\ all \in Seq(LogType) /\ DOMAIN all = 1..(N + M) /\ Len(all) = N + M
      /\ \A n \in 1..N : all[n] = ls[n]
      /\ \A k \in 1..M : all[N + k] = more[k]
  OBVIOUS
<1> HIDE DEF all, N, M
<1>3. WeightKg(all) \in [1..(N + M) -> Nat]
  <2>1. WeightKg(all) \in [1..Len(all) -> Nat]
    BY <1>2, Columns
  <2>. QED
    BY <1>2, <2>1
<1>31. WeightKg(ls) \in [1..N -> Nat]
  BY Columns DEF N
<1>32. WeightKg(more) \in [1..M -> Nat]
  BY Columns DEF M
<1>4. /\ \A n \in 1..N : n \in 1..(N + M)
      /\ \A k \in 1..M : N + k \in 1..(N + M)
  BY <1>1
<1>5. Joined(WeightKg(all), WeightKg(ls), WeightKg(more), N, M)
  BY <1>1, <1>2, <1>4 DEF WeightKg, Joined
<1>6. Joined(Mixes(all), Mixes(ls), Mixes(more), N, M)
  BY <1>1, <1>2, <1>4 DEF Mixes, Joined
<1>8. JoinedKg(WeightKg(all), WeightKg(ls), WeightKg(more), N, M)
  BY <1>1, <1>3, <1>31, <1>32, <1>5 DEF JoinedKg
<1>7. KgOf(Mixes(all), WeightKg(all), m)
         = KgOf(Mixes(ls), WeightKg(ls), m) + KgOf(Mixes(more), WeightKg(more), m)
  BY <1>6, <1>8, KgJoined
<1>. QED
  BY <1>7 DEF WastedIn, all

(* What was produced, with one more entry.                                 *)
LEMMA ProducedAppended ==
    ASSUME NEW es \in Seq(EntryType), NEW e \in EntryType, NEW m
    PROVE  /\ e.mix = m => ProducedIn(Append(es, e), m) = ProducedIn(es, m) + e.net
           /\ e.mix # m => ProducedIn(Append(es, e), m) = ProducedIn(es, m)
<1> DEFINE all == Append(es, e)
           one == <<e>>
           N == Len(es)
<1>1. N \in Nat /\ DOMAIN es = 1..N /\ 1 \in Nat
  OBVIOUS
<1>2. /\ all \in Seq(EntryType) /\ DOMAIN all = 1..(N + 1) /\ Len(all) = N + 1
      /\ \A n \in 1..N : all[n] = es[n]
      /\ all[N + 1] = e
  OBVIOUS
<1>3. one \in Seq(EntryType) /\ Len(one) = 1 /\ DOMAIN one = 1..1 /\ one[1] = e
  OBVIOUS
<1> HIDE DEF all, one, N
<1>4. NetKg(all) \in [1..(N + 1) -> Nat]
  <2>1. NetKg(all) \in [1..Len(all) -> Nat]
    BY <1>2, Columns
  <2>. QED
    BY <1>2, <2>1
<1>5. NetKg(es) \in [1..N -> Nat]
  BY Columns DEF N
<1>6. NetKg(one) \in [1..1 -> Nat]
  <2>1. NetKg(one) \in [1..Len(one) -> Nat]
    BY <1>3, Columns
  <2>. QED
    BY <1>3, <2>1
<1>7. /\ \A n \in 1..N : n \in 1..(N + 1)
      /\ \A k \in 1..1 : k = 1 /\ N + k \in 1..(N + 1) /\ N + k = N + 1
  BY <1>1
<1>8. JoinedKg(NetKg(all), NetKg(es), NetKg(one), N, 1)
  <2>1. Joined(NetKg(all), NetKg(es), NetKg(one), N, 1)
    BY <1>1, <1>2, <1>3, <1>7 DEF NetKg, Joined
  <2>. QED
    BY <1>1, <1>4, <1>5, <1>6, <2>1 DEF JoinedKg
<1>9. Joined(Mixes(all), Mixes(es), Mixes(one), N, 1)
  BY <1>1, <1>2, <1>3, <1>7 DEF Mixes, Joined
<1>10. KgOf(Mixes(all), NetKg(all), m)
          = KgOf(Mixes(es), NetKg(es), m) + KgOf(Mixes(one), NetKg(one), m)
  BY <1>8, <1>9, KgJoined
<1>11. NetKg(one)[1] = e.net /\ Mixes(one)[1] = e.mix
  BY <1>3 DEF NetKg, Mixes
<1>12. /\ e.mix = m => KgOf(Mixes(one), NetKg(one), m) = e.net
       /\ e.mix # m => KgOf(Mixes(one), NetKg(one), m) = 0
  BY <1>6, <1>11, KgOfOne
<1>13. ProducedIn(es, m) \in Nat
  BY SumsAreNat
<1>14. ProducedIn(all, m) = ProducedIn(es, m) + KgOf(Mixes(one), NetKg(one), m)
  BY <1>10 DEF ProducedIn
<1>. QED
  BY <1>12, <1>13, <1>14 DEF all

(* Scrap of a single log.                                                  *)
LEMMA WastedOfOne ==
    ASSUME NEW l \in LogType, NEW m
    PROVE  /\ l.mix = m => WastedIn(<<l>>, m) = l.weight
           /\ l.mix # m => WastedIn(<<l>>, m) = 0
<1> DEFINE one == <<l>>
<1>1. one \in Seq(LogType) /\ Len(one) = 1 /\ DOMAIN one = 1..1 /\ one[1] = l
  OBVIOUS
<1> HIDE DEF one
<1>2. WeightKg(one) \in [1..1 -> Nat]
  <2>1. WeightKg(one) \in [1..Len(one) -> Nat]
    BY <1>1, Columns
  <2>. QED
    BY <1>1, <2>1
<1>3. WeightKg(one)[1] = l.weight /\ Mixes(one)[1] = l.mix
  BY <1>1 DEF WeightKg, Mixes
<1>4. /\ l.mix = m => KgOf(Mixes(one), WeightKg(one), m) = l.weight
      /\ l.mix # m => KgOf(Mixes(one), WeightKg(one), m) = 0
  BY <1>2, <1>3, KgOfOne
<1>. QED
  BY <1>4 DEF WastedIn, one

(* Scrap with one more log.                                                *)
LEMMA WastedAppended ==
    ASSUME NEW ls \in Seq(LogType), NEW l \in LogType, NEW m
    PROVE  /\ l.mix = m => WastedIn(Append(ls, l), m) = WastedIn(ls, m) + l.weight
           /\ l.mix # m => WastedIn(Append(ls, l), m) = WastedIn(ls, m)
<1>1. <<l>> \in Seq(LogType) /\ Append(ls, l) = ls \o <<l>>
  OBVIOUS
<1>2. WastedIn(ls \o <<l>>, m) = WastedIn(ls, m) + WastedIn(<<l>>, m)
  BY <1>1, WastedJoined
<1>3. WastedIn(ls, m) \in Nat
  BY SumsAreNat
<1>. QED
  BY <1>1, <1>2, <1>3, WastedOfOne

(* The same rows of a table but one, of the same containers.               *)
AmendedEntries(es, new, x) ==
    /\ es \in Seq(EntryType) /\ new \in Seq(EntryType) /\ x \in DOMAIN es /\ DOMAIN new = DOMAIN es
    /\ \A n \in DOMAIN es : new[n].mix = es[n].mix
    /\ \A n \in DOMAIN es : n # x => new[n].net = es[n].net

(* What was produced, after the correction of one entry.                   *)
LEMMA ProducedChanged ==
    ASSUME NEW es, NEW new, NEW x, NEW m, AmendedEntries(es, new, x)
    PROVE  /\ es[x].mix = m =>
                 ProducedIn(new, m) = ProducedIn(es, m) + new[x].net - es[x].net
           /\ es[x].mix # m => ProducedIn(new, m) = ProducedIn(es, m)
<1>. USE DEF AmendedEntries
<1> DEFINE N == Len(es)
<1>1. N \in Nat /\ DOMAIN es = 1..N /\ x \in 1..N /\ DOMAIN new = 1..N /\ Len(new) = N
  OBVIOUS
<1>2. NetKg(es) \in [1..N -> Nat]
  BY Columns
<1>3. NetKg(new) \in [1..N -> Nat]
  <2>1. NetKg(new) \in [1..Len(new) -> Nat]
    BY Columns
  <2>. QED
    BY <1>1, <2>1
<1>4. Mixes(new) = Mixes(es)
  <2>1. \A n \in DOMAIN es : Mixes(new)[n] = Mixes(es)[n]
    BY DEF Mixes
  <2>2. DOMAIN Mixes(new) = DOMAIN Mixes(es)
    BY DEF Mixes
  <2>. QED
    BY Zenon DEF Mixes
<1>5. \A n \in 1..N : n # x => NetKg(new)[n] = NetKg(es)[n]
  BY <1>1 DEF NetKg
<1>6. NetKg(new)[x] = new[x].net /\ NetKg(es)[x] = es[x].net /\ Mixes(es)[x] = es[x].mix
  BY DEF NetKg, Mixes
<1> HIDE DEF N
<1>8. ChangedKg(NetKg(new), NetKg(es), x, N)
  BY <1>1, <1>2, <1>3, <1>5 DEF ChangedKg
<1>7. /\ Mixes(es)[x] = m => KgOf(Mixes(es), NetKg(new), m)
                              = KgOf(Mixes(es), NetKg(es), m) + NetKg(new)[x] - NetKg(es)[x]
      /\ Mixes(es)[x] # m => KgOf(Mixes(es), NetKg(new), m) = KgOf(Mixes(es), NetKg(es), m)
  BY <1>8, KgChanged
<1>. QED
  BY <1>4, <1>6, <1>7 DEF ProducedIn

(* The same of the logs.                                                   *)
AmendedLogs(ls, new, x) ==
    /\ ls \in Seq(LogType) /\ new \in Seq(LogType) /\ x \in DOMAIN ls /\ DOMAIN new = DOMAIN ls
    /\ \A n \in DOMAIN ls : new[n].mix = ls[n].mix
    /\ \A n \in DOMAIN ls : n # x => new[n].weight = ls[n].weight

(* Scrap after the correction of one log.                                  *)
LEMMA WastedChanged ==
    ASSUME NEW ls, NEW new, NEW x, NEW m, AmendedLogs(ls, new, x)
    PROVE  /\ ls[x].mix = m =>
                 WastedIn(new, m) = WastedIn(ls, m) + new[x].weight - ls[x].weight
           /\ ls[x].mix # m => WastedIn(new, m) = WastedIn(ls, m)
<1>. USE DEF AmendedLogs
<1> DEFINE N == Len(ls)
<1>1. N \in Nat /\ DOMAIN ls = 1..N /\ x \in 1..N /\ DOMAIN new = 1..N /\ Len(new) = N
  OBVIOUS
<1>2. WeightKg(ls) \in [1..N -> Nat]
  BY Columns
<1>3. WeightKg(new) \in [1..N -> Nat]
  <2>1. WeightKg(new) \in [1..Len(new) -> Nat]
    BY Columns
  <2>. QED
    BY <1>1, <2>1
<1>4. Mixes(new) = Mixes(ls)
  BY Zenon DEF Mixes
<1>5. \A n \in 1..N : n # x => WeightKg(new)[n] = WeightKg(ls)[n]
  BY <1>1 DEF WeightKg
<1>6. WeightKg(new)[x] = new[x].weight /\ WeightKg(ls)[x] = ls[x].weight /\ Mixes(ls)[x] = ls[x].mix
  BY DEF WeightKg, Mixes
<1> HIDE DEF N
<1>8. ChangedKg(WeightKg(new), WeightKg(ls), x, N)
  BY <1>1, <1>2, <1>3, <1>5 DEF ChangedKg
<1>7. /\ Mixes(ls)[x] = m => KgOf(Mixes(ls), WeightKg(new), m)
                              = KgOf(Mixes(ls), WeightKg(ls), m)
                                  + WeightKg(new)[x] - WeightKg(ls)[x]
      /\ Mixes(ls)[x] # m => KgOf(Mixes(ls), WeightKg(new), m) = KgOf(Mixes(ls), WeightKg(ls), m)
  BY <1>8, KgChanged
<1>. QED
  BY <1>4, <1>6, <1>7 DEF WastedIn

(* A table with the same containers in its rows, and perhaps more rows.    *)
Grown(rs, t) ==
    t \in Seq(RowType) /\ \A i \in DOMAIN rs : i \in DOMAIN t /\ t[i].mix = rs[i].mix

(* A settled table has the containers it had.                              *)
LEMMA SettledGrows ==
    ASSUME NEW done, NEW rs, RowsOK(rs, done), NEW t \in Settled(rs)
    PROVE  Grown(rs, t) /\ RowsOK(t, done) /\ DOMAIN t = DOMAIN rs
<1>1. rs \in Seq(RowType) /\ DOMAIN rs = 1..Len(rs) /\ Len(rs) \in Nat
  BY DEF RowsOK
<1>2. t \in [DOMAIN rs -> RowType] /\ \A i \in DOMAIN rs : t[i].mix = rs[i].mix
  BY DEF Settled
<1>3. t \in Seq(RowType)
  BY <1>1, <1>2
<1>. QED
  BY <1>2, <1>3 DEF Grown, RowsOK

(* Entries and requests keep the rows they name.                           *)
LEMMA GrownKeeps ==
    ASSUME NEW rs, NEW t, Grown(rs, t)
    PROVE  /\ \A es : EntriesOK(es, rs) => EntriesOK(es, t)
           /\ \A dk, done, more : DeskOK(dk, rs, done) /\ done \subseteq more => DeskOK(dk, t, more)
<1>1. ASSUME NEW es, EntriesOK(es, rs) PROVE EntriesOK(es, t)
  BY <1>1 DEF EntriesOK, Grown
<1>2. ASSUME NEW dk, NEW done, NEW more, DeskOK(dk, rs, done), done \subseteq more
      PROVE  DeskOK(dk, t, more)
  BY <1>2 DEF DeskOK, Grown
<1>. QED
  BY <1>1, <1>2

(* A table that did not change has the containers it had.                  *)
LEMMA SameRowsGrow ==
    ASSUME NEW rs \in Seq(RowType)
    PROVE  Grown(rs, rs)
BY DEF Grown

(* A request that answers leaves the others as they are.                   *)
LEMMA DeskAnswered ==
    ASSUME NEW dk, NEW rs, NEW done, DeskOK(dk, rs, done), NEW c \in Clerks
    PROVE  DeskOK([dk EXCEPT ![c] = Idle], rs, done)
<1> DEFINE new == [dk EXCEPT ![c] = Idle]
<1>1. /\ dk \in [Clerks -> DeskType]
      /\ \A x \in Clerks : /\ dk[x].op = "enqueue" => BatchOf[dk[x].mix] \in done
                           /\ dk[x].op = "switch" => dk[x].target \in DOMAIN rs
  BY DEF DeskOK
<1>2. \A x \in Clerks : x # c => new[x] = dk[x]
  BY <1>1
<1>3. new[c] = Idle /\ Idle \in DeskType /\ Idle.op = "idle"
  BY <1>1 DEF Idle, DeskType
<1>4. new \in [Clerks -> DeskType]
  <2>1. \A x \in Clerks : new[x] \in DeskType
    <3> HIDE DEF new
    <3>. QED
      BY <1>1, <1>2, <1>3
  <2>2. new = [x \in Clerks |-> new[x]]
    BY <1>1
  <2> HIDE DEF new
  <2>. QED
    BY <2>1, <2>2
<1> HIDE DEF new
<1>5. \A x \in Clerks : /\ new[x].op = "enqueue" => BatchOf[new[x].mix] \in done
                        /\ new[x].op = "switch" => new[x].target \in DOMAIN rs
  BY <1>1, <1>2, <1>3
<1>6. DeskOK(new, rs, done)
  BY <1>4, <1>5 DEF DeskOK
<1>. QED
  BY <1>6 DEF new

(* A request that takes a next step leaves the others as they are.         *)
LEMMA DeskTakes ==
    ASSUME NEW dk, NEW rs, NEW done, DeskOK(dk, rs, done), NEW c \in Clerks, NEW d \in DeskType,
           d.op = "enqueue" => BatchOf[d.mix] \in done,
           d.op = "switch" => d.target \in DOMAIN rs
    PROVE  DeskOK([dk EXCEPT ![c] = d], rs, done)
<1> DEFINE new == [dk EXCEPT ![c] = d]
<1>1. /\ dk \in [Clerks -> DeskType]
      /\ \A x \in Clerks : /\ dk[x].op = "enqueue" => BatchOf[dk[x].mix] \in done
                           /\ dk[x].op = "switch" => dk[x].target \in DOMAIN rs
  BY DEF DeskOK
<1>2. \A x \in Clerks : x # c => new[x] = dk[x]
  BY <1>1
<1>3. new[c] = d
  BY <1>1
<1>4. new \in [Clerks -> DeskType]
  BY <1>1
<1> HIDE DEF new
<1>5. \A x \in Clerks : /\ new[x].op = "enqueue" => BatchOf[new[x].mix] \in done
                        /\ new[x].op = "switch" => new[x].target \in DOMAIN rs
  BY <1>1, <1>2, <1>3
<1>6. DeskOK(new, rs, done)
  BY <1>4, <1>5 DEF DeskOK
<1>. QED
  BY <1>6 DEF new

(* What a request has read.                                                *)
LEMMA DeskFields ==
    ASSUME NEW dk, NEW rs, NEW done, DeskOK(dk, rs, done), NEW c \in Clerks
    PROVE  /\ dk[c].op \in {"ready", "enqueue", "switch"} => dk[c].session \in Nat
           /\ dk[c].op = "enqueue" => dk[c].mix \in Containers /\ BatchOf[dk[c].mix] \in done
           /\ dk[c].op = "switch" => dk[c].target \in DOMAIN rs /\ dk[c].seen \subseteq Nat
<1>1. dk[c] \in DeskType
  BY DEF DeskOK
<1>2. CASE dk[c] = Idle
  <2>1. dk[c].op = "idle"
    BY <1>2 DEF Idle
  <2>. QED
    BY <2>1
<1>3. CASE dk[c] \in [op : {"ready"}, session : Nat]
  BY <1>3
<1>4. CASE dk[c] \in [op : {"enqueue"}, session : Nat, mix : Containers]
  BY <1>4 DEF DeskOK
<1>5. CASE dk[c] \in [op : {"switch"}, session : Nat, target : Nat, seen : SUBSET Nat]
  BY <1>5 DEF DeskOK
<1>. QED
  BY <1>1, <1>2, <1>3, <1>4, <1>5 DEF DeskType

(* A request that reads the open session keeps the invariant.              *)
LEMMA BeginKeeps ==
    ASSUME QueueInv, NEW c \in Clerks, Begin(c) PROVE QueueInv'
<1> DEFINE d == [op |-> "ready", session |-> session]
<1>1. d \in DeskType /\ d.op = "ready"
  BY DEF QueueInv, ShiftsOK, DeskType
<1>2. DeskOK(desk, rows, prepared) /\ desk' = [desk EXCEPT ![c] = d]
  BY DEF QueueInv, Begin
<1> HIDE DEF d
<1>3. DeskOK(desk', rows, prepared)
  BY <1>1, <1>2, DeskTakes
<1>. QED
  BY <1>3 DEF QueueInv, Begin, shift

(* A request that gives up keeps the invariant.                            *)
LEMMA RollbackKeeps ==
    ASSUME QueueInv, NEW c \in Clerks, Rollback(c) PROVE QueueInv'
<1>1. DeskOK(desk', rows, prepared)
  BY DeskAnswered DEF QueueInv, Rollback, Answer
<1>. QED
  BY <1>1 DEF QueueInv, Rollback, Answer, shift

(* enqueueMix, having looked for a row, keeps the invariant.               *)
LEMMA CheckQueueKeeps ==
    ASSUME QueueInv, NEW c \in Clerks, NEW m \in Containers, CheckQueue(c, m) PROVE QueueInv'
<1> DEFINE d == [op |-> "enqueue", session |-> desk[c].session, mix |-> m]
<1>1. d \in DeskType /\ d.op = "enqueue" /\ d.mix = m /\ BatchOf[m] \in prepared
  <2>1. desk[c].op = "ready" /\ BatchOf[m] \in prepared
    BY DEF CheckQueue, Ready
  <2>2. desk[c].session \in Nat
    BY <2>1, DeskFields DEF QueueInv
  <2>. QED
    BY <2>1, <2>2 DEF DeskType
<1>2. DeskOK(desk, rows, prepared) /\ desk' = [desk EXCEPT ![c] = d]
  BY DEF QueueInv, CheckQueue
<1> HIDE DEF d
<1>3. DeskOK(desk', rows, prepared)
  BY <1>1, <1>2, DeskTakes
<1>. QED
  BY <1>3 DEF QueueInv, CheckQueue, shift

(* A switch that has locked its target keeps the invariant.                *)
LEMMA LockTargetKeeps ==
    ASSUME QueueInv, NEW c \in Clerks, NEW i \in DOMAIN rows, LockTarget(c, i) PROVE QueueInv'
<1> DEFINE d == [op |-> "switch", session |-> desk[c].session, target |-> i,
                 seen |-> ActiveOf(desk[c].session)]
<1>1. d \in DeskType /\ d.op = "switch" /\ d.target = i
  <2>1. desk[c].op = "ready"
    BY DEF LockTarget, Ready
  <2>2. desk[c].session \in Nat
    BY <2>1, DeskFields DEF QueueInv
  <2>3. rows \in Seq(RowType)
    BY DEF QueueInv, RowsOK
  <2>4. DOMAIN rows \subseteq Nat
    BY <2>3
  <2>5. ActiveOf(desk[c].session) \subseteq DOMAIN rows
    BY DEF ActiveOf, InStatus
  <2>6. ActiveOf(desk[c].session) \in SUBSET Nat /\ i \in Nat
    BY <2>4, <2>5
  <2>. QED
    BY <2>2, <2>6 DEF DeskType
<1>2. DeskOK(desk, rows, prepared) /\ desk' = [desk EXCEPT ![c] = d]
  <2>1. desk \in [Clerks -> DeskType]
    BY DEF QueueInv, DeskOK
  <2>. QED
    BY <2>1 DEF QueueInv, LockTarget
<1> HIDE DEF d
<1>3. DeskOK(desk', rows, prepared)
  BY <1>1, <1>2, DeskTakes
<1>. QED
  BY <1>3 DEF QueueInv, LockTarget, shift

(* A log as a handler of the shift writes it.                              *)
FreshLog(l, done) ==
    /\ l \in LogType /\ BatchOf[l.mix] \in done
    /\ ~l.closed /\ ~l.corrected /\ (l.estimate > 0 => l.weight = l.estimate)

(* The handlers write such logs.                                           *)
LEMMA LogIsFresh ==
    ASSUME NEW done, NEW m \in Containers, NEW from \in Containers, BatchOf[m] \in done,
           NEW kg \in Nat, NEW estimated \in BOOLEAN, NEW own \in Nat, NEW s \in Nat
    PROVE  /\ FreshLog(Log(m, from, kg, estimated, own, s), done)
           /\ Log(m, from, kg, estimated, own, s).mix = m
           /\ Log(m, from, kg, estimated, own, s).weight = kg
BY DEF FreshLog, Log, LogType

(* A table of logs with such logs added to it.                             *)
LEMMA LogsJoined ==
    ASSUME NEW ls, NEW done, NEW closures, LogsOK(ls, done, closures),
           NEW more \in Seq(LogType), \A k \in DOMAIN more : FreshLog(more[k], done)
    PROVE  /\ LogsOK(ls \o more, done, closures)
           /\ \A m : Recharge(ls, m) => Recharge(ls \o more, m)
<1> DEFINE all == ls \o more
           N == Len(ls)
           M == Len(more)
<1>0. ls \in Seq(LogType)
  BY DEF LogsOK
<1>1. N \in Nat /\ M \in Nat /\ DOMAIN ls = 1..N /\ DOMAIN more = 1..M
  BY <1>0
<1>2. /\ all \in Seq(LogType) /\ DOMAIN all = 1..(N + M)
      /\ \A n \in 1..N : all[n] = ls[n]
      /\ \A k \in 1..M : all[N + k] = more[k]
  BY <1>0
<1> HIDE DEF all, N, M
<1>3. ASSUME NEW n \in DOMAIN all
      PROVE  /\ BatchOf[all[n].mix] \in done
             /\ all[n].closed => all[n].shift \in closures
             /\ all[n].estimate > 0 /\ ~all[n].corrected /\ ~all[n].closed =>
                   all[n].weight = all[n].estimate
  <2>1. CASE n \in 1..N
    BY <1>1, <1>2, <2>1 DEF LogsOK
  <2>2. CASE n \notin 1..N
    <3>1. n - N \in 1..M /\ n = N + (n - N)
      BY <1>1, <1>2, <2>2
    <3>2. all[n] = more[n - N] /\ FreshLog(more[n - N], done)
      BY <1>1, <1>2, <3>1
    <3>. QED
      BY <3>2 DEF FreshLog
  <2>. QED
    BY <2>1, <2>2
<1>4. LogsOK(all, done, closures)
  BY <1>2, <1>3 DEF LogsOK
<1>5. ASSUME NEW m, Recharge(ls, m) PROVE Recharge(all, m)
  <2>1. PICK n \in 1..N : ls[n].mix = m /\ ls[n].corrected /\ ls[n].closed /\ ls[n].estimate > 0
    BY <1>1, <1>5 DEF Recharge
  <2>2. n \in DOMAIN all /\ all[n] = ls[n]
    BY <1>1, <1>2
  <2>. QED
    BY <2>1, <2>2 DEF Recharge
<1>. QED
  BY <1>4, <1>5 DEF all

(* A table of logs with one such log added to it.                          *)
LEMMA LogAppended ==
    ASSUME NEW ls, NEW done, NEW closures, LogsOK(ls, done, closures), NEW l, FreshLog(l, done)
    PROVE  /\ LogsOK(Append(ls, l), done, closures)
           /\ \A m : Recharge(ls, m) => Recharge(Append(ls, l), m)
           /\ \A m : l.mix = m => WastedIn(Append(ls, l), m) = WastedIn(ls, m) + l.weight
           /\ \A m : l.mix # m => WastedIn(Append(ls, l), m) = WastedIn(ls, m)
<1>1. ls \in Seq(LogType) /\ l \in LogType
  BY DEF LogsOK, FreshLog
<1>2. <<l>> \in Seq(LogType) /\ Append(ls, l) = ls \o <<l>>
      /\ \A k \in DOMAIN <<l>> : <<l>>[k] = l
  BY <1>1
<1>3. \A k \in DOMAIN <<l>> : FreshLog(<<l>>[k], done)
  BY <1>2
<1>4. /\ LogsOK(ls \o <<l>>, done, closures)
      /\ \A m : Recharge(ls, m) => Recharge(ls \o <<l>>, m)
  BY <1>2, <1>3, LogsJoined
<1>. QED
  BY <1>1, <1>2, <1>4, WastedAppended

(* The balance of mass goes on if what each container accounts for does.   *)
LEMMA MassMoves ==
    ASSUME NEW bal, NEW es, NEW ls, NEW done, MassOK(bal, es, ls, done), NEW bal2, NEW es2, NEW ls2,
           \A m \in Containers : Recharge(ls, m) => Recharge(ls2, m),
           \A m \in Containers : BatchOf[m] \in done /\ ~Recharge(ls2, m) =>
              Accounted(bal2, es2, ls2, m) = Accounted(bal, es, ls, m)
    PROVE  MassOK(bal2, es2, ls2, done)
BY DEF MassOK

(* What is left of a container is an integer.                              *)
LEMMA LeftIsInt ==
    ASSUME NEW bal \in BalanceType, NEW m \in Containers PROVE Left(bal, m) \in Int
BY DEF BalanceType, Left

(* A handler that answers, having left every table right.                  *)
LEMMA Answered ==
    ASSUME QueueInv, NEW c \in Clerks, Answer(c), UNCHANGED <<shift, prepared>>,
           Grown(rows, rows'), RowsOK(rows', prepared), BalanceOK(balance', prepared),
           EntriesOK(entries', rows'), LogsOK(logs', prepared, reconciled),
           MassOK(balance', entries', logs', prepared)
    PROVE  QueueInv'
<1>1. DeskOK(desk', rows, prepared)
  BY DeskAnswered DEF QueueInv, Answer
<1>2. DeskOK(desk', rows', prepared)
  BY <1>1, GrownKeeps
<1>3. raced' \subseteq Containers
  BY DEF QueueInv, Answer
<1>. QED
  BY <1>2, <1>3 DEF QueueInv, shift

(* enqueueMix adds a row and keeps the invariant.                          *)
LEMMA EnqueueMixKeeps ==
    ASSUME QueueInv, NEW c \in Clerks, EnqueueMix(c) PROVE QueueInv'
<1> DEFINE m == desk[c].mix
           r == NewRow(m, desk[c].session)
<1>1. m \in Containers /\ BatchOf[m] \in prepared /\ desk[c].session \in Nat
  <2>1. DeskOK(desk, rows, prepared) /\ desk[c].op = "enqueue"
    BY DEF QueueInv, EnqueueMix
  <2>. QED
    BY <2>1, DeskFields
<1>2. r \in RowType /\ r.mix = m
  BY <1>1 DEF NewRow, RowType, Live
<1>3. rows \in Seq(RowType) /\ \A i \in DOMAIN rows : BatchOf[rows[i].mix] \in prepared
  BY DEF QueueInv, RowsOK
<1>4. rows' = Append(rows, r)
  BY DEF EnqueueMix
<1> HIDE DEF r, m
<1>5. /\ rows' \in Seq(RowType) /\ DOMAIN rows' = 1..(Len(rows) + 1) /\ DOMAIN rows = 1..Len(rows)
      /\ Len(rows) \in Nat
      /\ \A i \in 1..Len(rows) : rows'[i] = rows[i]
      /\ rows'[Len(rows) + 1] = r
  BY <1>2, <1>3, <1>4
<1>6. Grown(rows, rows')
  BY <1>5 DEF Grown
<1>7. RowsOK(rows', prepared)
  <2>1. \A i \in 1..(Len(rows) + 1) : i \in 1..Len(rows) \/ i = Len(rows) + 1
    BY <1>5
  <2>. QED
    BY <1>1, <1>2, <1>3, <1>5, <2>1 DEF RowsOK
<1>8. EntriesOK(entries, rows')
  BY <1>6, GrownKeeps DEF QueueInv
<1>. QED
  BY <1>6, <1>7, <1>8, Answered DEF QueueInv, EnqueueMix, shift

(* A handler that settles the rows leaves them right.                      *)
LEMMA TurnsOK ==
    ASSUME QueueInv, rows' \in Settled(rows)
    PROVE  Grown(rows, rows') /\ RowsOK(rows', prepared)
<1>1. RowsOK(rows, prepared)
  BY DEF QueueInv
<1>. QED
  BY <1>1, SettledGrows

(* The scan of a rack charges its entry and its scrap, and keeps the       *)
(* invariant.                                                              *)
LEMMA ScanRackKeeps ==
    ASSUME QueueInv, NEW c \in Clerks, NEW i \in DOMAIN rows, NEW kg \in Weights,
           NEW scrap \in Weights \cup {0}, NEW estimated \in BOOLEAN,
           NEW m, m = rows[i].mix, ScanRack(c, m, i, kg, scrap, estimated)
    PROVE  QueueInv'
<1> DEFINE s == desk[c].session
           e == [mix |-> m, row |-> i, session |-> s, net |-> kg, corrected |-> FALSE]
           l == Log(m, m, scrap, estimated, s, s)
<1>1. kg \in Nat /\ scrap \in Nat /\ kg + scrap \in Nat /\ 0 \in Nat
  BY MixAssumption
<1>2. s \in Nat
  BY DeskFields DEF QueueInv, ScanRack, Ready
<1>3. /\ rows \in Seq(RowType) /\ rows \in [DOMAIN rows -> RowType] /\ i \in Nat
      /\ m \in Containers /\ BatchOf[m] \in prepared
  <2>1. rows \in Seq(RowType) /\ BatchOf[m] \in prepared
    BY DEF QueueInv, RowsOK
  <2>2. rows[i] \in RowType /\ i \in Nat /\ rows \in [DOMAIN rows -> RowType]
    BY <2>1
  <2>. QED
    BY <2>1, <2>2 DEF RowType
<1>4. e \in EntryType /\ e.mix = m /\ e.row = i /\ e.net = kg
  BY <1>1, <1>2, <1>3 DEF EntryType
<1>5. FreshLog(l, prepared) /\ l.mix = m /\ l.weight = scrap
  BY <1>1, <1>2, <1>3, LogIsFresh
<1>6. /\ entries' = Append(entries, e)
      /\ scrap = 0 => logs' = logs
      /\ scrap # 0 => logs' = Append(logs, l)
      /\ balance' = Charge(balance, m, 0, kg + scrap)
      /\ rows' \in Finished(rows, i, balance', logs')
      /\ Answer(c) /\ UNCHANGED <<shift, prepared>>
  BY DEF ScanRack
<1> HIDE DEF e, l, s
<1>7. Grown(rows, rows') /\ RowsOK(rows', prepared)
  <2>1. Finished(rows, i, balance', logs') \subseteq Settled(rows)
    BY <1>3, FinishedSettles
  <2>. QED
    BY <1>6, <2>1, TurnsOK
<1>8. BalanceOK(balance, prepared)
  BY DEF QueueInv
<1>9. /\ BalanceOK(balance', prepared)
      /\ \A x \in Containers : x # m => Left(balance', x) = Left(balance, x)
      /\ Left(balance', m) = Left(balance, m) + 0 - (kg + scrap)
  <2> DEFINE taken == kg + scrap
  <2>1. taken \in Nat /\ 0 \in Nat
    BY <1>1
  <2>2. balance' = Charge(balance, m, 0, taken)
    BY <1>6
  <2>3. m \in Containers /\ BatchOf[m] \in prepared
    BY <1>3
  <2> HIDE DEF taken
  <2>4. /\ BalanceOK(balance', prepared)
        /\ \A x \in Containers : x # m => Left(balance', x) = Left(balance, x)
        /\ Left(balance', m) = Left(balance, m) + 0 - taken
    <3>1. Charged(balance, prepared, m, 0, taken, balance')
      BY <1>8, <2>1, <2>2, <2>3 DEF Charged
    <3>. QED
      BY <3>1, ChargeKeeps
  <2>. QED
    BY <2>4 DEF taken
<1>10. EntriesOK(entries', rows')
  <2>1. EntriesOK(entries, rows')
    BY <1>7, GrownKeeps DEF QueueInv
  <2>2. i \in DOMAIN rows' /\ rows'[i].mix = m
    BY <1>7 DEF Grown
  <2>3. entries \in Seq(EntryType)
    BY <2>1 DEF EntriesOK
  <2>4. /\ entries' \in Seq(EntryType) /\ DOMAIN entries' = DOMAIN entries \cup {Len(entries) + 1}
        /\ \A n \in DOMAIN entries : entries'[n] = entries[n]
        /\ entries'[Len(entries) + 1] = e
    BY <1>4, <1>6, <2>3
  <2>. QED
    BY <1>4, <2>1, <2>2, <2>4 DEF EntriesOK
<1>11. LogsOK(logs', prepared, reconciled) /\ \A x : Recharge(logs, x) => Recharge(logs', x)
  <2>1. LogsOK(logs, prepared, reconciled)
    BY DEF QueueInv
  <2>. QED
    BY <1>5, <1>6, <2>1, LogAppended
<1>12. MassOK(balance', entries', logs', prepared)
  <2>1. ASSUME NEW x \in Containers
        PROVE  Accounted(balance', entries', logs', x) = Accounted(balance, entries, logs, x)
    <3>0. entries \in Seq(EntryType) /\ logs \in Seq(LogType)
      BY DEF QueueInv, EntriesOK, LogsOK
    <3>1. /\ Left(balance, x) \in Int
          /\ ProducedIn(entries, x) \in Nat /\ WastedIn(logs, x) \in Nat
      BY <1>8, <3>0, LeftIsInt, SumsAreNat DEF BalanceOK
    <3>2. /\ x = m => ProducedIn(entries', x) = ProducedIn(entries, x) + kg
          /\ x # m => ProducedIn(entries', x) = ProducedIn(entries, x)
      BY <1>4, <1>6, <3>0, ProducedAppended
    <3>3. /\ x = m => WastedIn(logs', x) = WastedIn(logs, x) + scrap
          /\ x # m => WastedIn(logs', x) = WastedIn(logs, x)
      <4>1. LogsOK(logs, prepared, reconciled)
        BY DEF QueueInv
      <4>2. CASE scrap = 0
        BY <1>6, <3>1, <4>2
      <4>3. CASE scrap # 0
        <5>1. logs' = Append(logs, l) /\ FreshLog(l, prepared)
          BY <1>5, <1>6, <4>3
        <5>2. /\ l.mix = x => WastedIn(logs', x) = WastedIn(logs, x) + l.weight
              /\ l.mix # x => WastedIn(logs', x) = WastedIn(logs, x)
          BY <4>1, <5>1, LogAppended
        <5>. QED
          BY <1>5, <5>2
      <4>. QED
        BY <4>2, <4>3
    <3>4. /\ x = m => Left(balance', x) = Left(balance, x) - (kg + scrap)
          /\ x # m => Left(balance', x) = Left(balance, x)
      BY <1>1, <1>9, <3>1
    <3>. QED
      BY <1>1, <3>1, <3>2, <3>3, <3>4 DEF Accounted
  <2>2. MassOK(balance, entries, logs, prepared)
    BY DEF QueueInv
  <2>. QED
    BY <1>11, <2>1, <2>2, MassMoves
<1>. QED
  BY <1>6, <1>7, <1>9, <1>10, <1>11, <1>12, Answered

(* A table of which only statuses and sessions changed is right.           *)
LEMMA RemadeGrows ==
    ASSUME NEW rs, NEW done, RowsOK(rs, done), NEW t \in [DOMAIN rs -> RowType],
           \A i \in DOMAIN rs : t[i].mix = rs[i].mix
    PROVE  Grown(rs, t) /\ RowsOK(t, done)
<1>1. rs \in Seq(RowType) /\ DOMAIN rs = 1..Len(rs) /\ Len(rs) \in Nat
  BY DEF RowsOK
<1>2. t \in Seq(RowType)
  BY <1>1
<1>. QED
  BY <1>2 DEF Grown, RowsOK

(* The fields of a row.                                                    *)
LEMMA RowFields ==
    ASSUME NEW rs, NEW done, RowsOK(rs, done), NEW i \in DOMAIN rs
    PROVE  /\ rs[i] \in RowType /\ i \in Nat /\ rs[i].mix \in Containers
           /\ rs[i].session \in Nat /\ BatchOf[rs[i].mix] \in done
           /\ rs[i] = [mix |-> rs[i].mix, status |-> rs[i].status, session |-> rs[i].session]
<1>1. rs \in Seq(RowType) /\ BatchOf[rs[i].mix] \in done
  BY DEF RowsOK
<1>2. rs[i] \in RowType /\ i \in Nat
  BY <1>1
<1>. QED
  BY <1>1, <1>2 DEF RowType

(* A row that was started leaves the table right.                          *)
LEMMA StartedGrows ==
    ASSUME NEW rs, NEW done, RowsOK(rs, done), NEW i, NEW s \in Nat
    PROVE  Grown(rs, Started(rs, i, s)) /\ RowsOK(Started(rs, i, s), done)
<1> DEFINE t == Started(rs, i, s)
<1>1. \A j \in DOMAIN rs : rs[j] \in RowType
  BY RowFields
<1>2. t \in [DOMAIN rs -> RowType] /\ \A j \in DOMAIN rs : t[j].mix = rs[j].mix
  BY <1>1 DEF Started, RowType, Live
<1> HIDE DEF t
<1>3. Grown(rs, t) /\ RowsOK(t, done)
  BY <1>2, RemadeGrows
<1>. QED
  BY <1>3 DEF t

(* A switch with nothing active starts its target and keeps the invariant. *)
LEMMA ActivateKeeps ==
    ASSUME QueueInv, NEW c \in Clerks, Activate(c) PROVE QueueInv'
<1>1. RowsOK(rows, prepared)
  BY DEF QueueInv
<1>2. desk[c].session \in Nat
  BY DeskFields DEF QueueInv, Activate
<1>3. rows' = Started(rows, desk[c].target, desk[c].session)
  BY DEF Activate
<1>4. Grown(rows, rows') /\ RowsOK(rows', prepared)
  BY <1>1, <1>2, <1>3, StartedGrows
<1>5. EntriesOK(entries, rows')
  BY <1>4, GrownKeeps DEF QueueInv
<1>. QED
  BY <1>4, <1>5, Answered DEF QueueInv, Activate, shift

(* Tables between two steps of one handler.                                *)
Sound(bal, es, ls, done, closures) ==
    /\ BalanceOK(bal, done) /\ LogsOK(ls, done, closures)
    /\ MassOK(bal, es, ls, done) /\ es \in Seq(EntryType)

Waste(bal, ls, l, new, more) ==
    new = Charge(bal, l.mix, 0, l.weight) /\ more = Append(ls, l)

(* Scrap is logged and taken from its container.                           *)
LEMMA WasteIsSound ==
    ASSUME NEW bal, NEW es, NEW ls, NEW done, NEW closures, Sound(bal, es, ls, done, closures),
           NEW l, FreshLog(l, done), NEW new, NEW more, Waste(bal, ls, l, new, more)
    PROVE  Sound(new, es, more, done, closures)
<1>. USE DEF Sound, Waste
<1>1. l.mix \in Containers /\ BatchOf[l.mix] \in done /\ l.weight \in Nat /\ 0 \in Nat
  BY DEF FreshLog, LogType
<1>2. /\ BalanceOK(new, done)
      /\ \A x \in Containers : x # l.mix => Left(new, x) = Left(bal, x)
      /\ Left(new, l.mix) = Left(bal, l.mix) + 0 - l.weight
  <2> DEFINE m == l.mix
             kg == l.weight
  <2>1. m \in Containers /\ BatchOf[m] \in done /\ kg \in Nat /\ new = Charge(bal, m, 0, kg)
    BY <1>1
  <2> HIDE DEF m, kg
  <2>2. /\ BalanceOK(new, done)
        /\ \A x \in Containers : x # m => Left(new, x) = Left(bal, x)
        /\ Left(new, m) = Left(bal, m) + 0 - kg
    <3>1. Charged(bal, done, m, 0, kg, new)
      BY <1>1, <2>1 DEF Charged
    <3>. QED
      BY <3>1, ChargeKeeps
  <2>. QED
    BY <2>2 DEF m, kg
<1>3. /\ LogsOK(more, done, closures)
      /\ \A m : Recharge(ls, m) => Recharge(more, m)
      /\ \A m : l.mix = m => WastedIn(more, m) = WastedIn(ls, m) + l.weight
      /\ \A m : l.mix # m => WastedIn(more, m) = WastedIn(ls, m)
  BY LogAppended
<1>4. ASSUME NEW x \in Containers PROVE Accounted(new, es, more, x) = Accounted(bal, es, ls, x)
  <2>1. ls \in Seq(LogType) /\ bal \in BalanceType
    BY DEF LogsOK, BalanceOK
  <2>2. Left(bal, x) \in Int /\ ProducedIn(es, x) \in Nat /\ WastedIn(ls, x) \in Nat
    BY <2>1, LeftIsInt, SumsAreNat
  <2>3. CASE x = l.mix
    <3>1. WastedIn(more, x) = WastedIn(ls, x) + l.weight /\ Left(new, x) = Left(bal, x) - l.weight
      BY <1>1, <1>2, <1>3, <2>2, <2>3
    <3>. QED
      BY <1>1, <2>2, <3>1 DEF Accounted
  <2>4. CASE x # l.mix
    <3>1. WastedIn(more, x) = WastedIn(ls, x) /\ Left(new, x) = Left(bal, x)
      BY <1>2, <1>3, <2>4
    <3>. QED
      BY <3>1 DEF Accounted
  <2>. QED
    BY <2>3, <2>4
<1>5. MassOK(new, es, more, done)
  BY <1>3, <1>4, MassMoves
<1>. QED
  BY <1>2, <1>3, <1>5

(* The handler of scrap keeps the invariant.                               *)
LEMMA ScrapKeeps ==
    ASSUME QueueInv, NEW c \in Clerks, NEW i \in DOMAIN rows, NEW kg \in Weights,
           NEW estimated \in BOOLEAN, NEW m, m = rows[i].mix, Scrap(c, m, i, kg, estimated)
    PROVE  QueueInv'
<1> DEFINE s == desk[c].session
           own == 0
           l == Log(m, m, kg, estimated, own, s)
<1>1. kg \in Nat /\ own \in Nat
  BY MixAssumption
<1>2. s \in Nat
  BY DeskFields DEF QueueInv, Scrap, Ready
<1>3. rows \in [DOMAIN rows -> RowType] /\ m \in Containers /\ BatchOf[m] \in prepared
  <2>1. rows \in Seq(RowType) /\ RowsOK(rows, prepared)
    BY DEF QueueInv, RowsOK
  <2>2. rows[i].mix \in Containers /\ BatchOf[rows[i].mix] \in prepared
    BY <2>1, RowFields
  <2>. QED
    BY <2>1, <2>2
<1>4. FreshLog(l, prepared) /\ l.mix = m /\ l.weight = kg
  <2> HIDE DEF own, s
  <2>. QED
    BY <1>1, <1>2, <1>3, LogIsFresh
<1>5. /\ logs' = Append(logs, l)
      /\ balance' = Charge(balance, m, 0, kg)
      /\ rows' \in Finished(rows, i, balance', logs')
      /\ Answer(c) /\ UNCHANGED <<shift, prepared, entries>>
  BY DEF Scrap
<1> HIDE DEF l, s, own
<1>6. Grown(rows, rows') /\ RowsOK(rows', prepared)
  <2>1. Finished(rows, i, balance', logs') \subseteq Settled(rows)
    BY <1>3, FinishedSettles
  <2>. QED
    BY <1>5, <2>1, TurnsOK
<1>7. EntriesOK(entries', rows') /\ entries \in Seq(EntryType)
  BY <1>5, <1>6, GrownKeeps DEF QueueInv, EntriesOK
<1>8. Sound(balance', entries, logs', prepared, reconciled)
  <2>1. Sound(balance, entries, logs, prepared, reconciled)
    BY <1>7 DEF QueueInv, Sound
  <2>2. Waste(balance, logs, l, balance', logs')
    BY <1>4, <1>5 DEF Waste
  <2>. QED
    BY <1>4, <2>1, <2>2, WasteIsSound
<1>. QED
  BY <1>5, <1>6, <1>7, <1>8, Answered DEF Sound

(* A run that was displaced leaves the table right.                        *)
LEMMA DisplacedGrows ==
    ASSUME NEW done, RowsOK(rows, done), NEW a, NEW left, NEW disposition
    PROVE  /\ Grown(rows, Displaced(a, left, disposition))
           /\ RowsOK(Displaced(a, left, disposition), done)
<1> DEFINE t == Displaced(a, left, disposition)
<1>1. \A j \in DOMAIN rows : rows[j] \in RowType
  BY RowFields
<1>2. t \in [DOMAIN rows -> RowType] /\ \A j \in DOMAIN rows : t[j].mix = rows[j].mix
  BY <1>1 DEF Displaced, RowType, Live
<1> HIDE DEF t
<1>3. Grown(rows, t) /\ RowsOK(t, done)
  BY <1>2, RemadeGrows
<1>. QED
  BY <1>3 DEF t

(* Two steps of a handler that leave the containers of the rows do so      *)
(* together.                                                               *)
LEMMA GrownTwice ==
    ASSUME NEW r, NEW s, NEW t, Grown(r, s), Grown(s, t) PROVE Grown(r, t)
BY DEF Grown

(* A switch that displaces the active run keeps the invariant, its purge   *)
(* included.                                                               *)
LEMMA DisplaceKeeps ==
    ASSUME QueueInv, NEW c \in Clerks, NEW a \in DOMAIN rows,
           NEW disposition \in {"WIP", "SCRAP_ESPECIAL"}, NEW purge \in Weights \cup {0},
           Displace(c, a, disposition, purge)
    PROVE  QueueInv'
<1> DEFINE s == desk[c].session
           t == desk[c].target
           from == rows[a].mix
           to == rows[t].mix
           left == balance.content[from]
           scraps == left > 0 /\ disposition = "SCRAP_ESPECIAL"
           estimated == TRUE
           first == Log(from, from, left, estimated, s, s)
           second == Log(to, from, purge, estimated, s, s)
           emptied == IF scraps THEN Charge(balance, from, 0, left) ELSE balance
           mid == IF scraps THEN Append(logs, first) ELSE logs
<1>1. purge \in Nat
  BY MixAssumption
<1>2. RowsOK(rows, prepared) /\ BalanceOK(balance, prepared)
      /\ LogsOK(logs, prepared, reconciled) /\ MassOK(balance, entries, logs, prepared)
      /\ entries \in Seq(EntryType) /\ logs \in Seq(LogType)
  BY DEF QueueInv, EntriesOK, LogsOK
<1>3. s \in Nat /\ t \in DOMAIN rows
  BY DeskFields DEF QueueInv, Displace
<1>4. /\ from \in Containers /\ to \in Containers
      /\ BatchOf[from] \in prepared /\ BatchOf[to] \in prepared
  BY <1>2, <1>3, RowFields
<1>5. left \in Nat
  BY <1>2, <1>4 DEF BalanceOK, BalanceType
<1>6. FreshLog(first, prepared) /\ first.mix = from /\ first.weight = left
  <2>1. estimated \in BOOLEAN
    OBVIOUS
  <2> HIDE DEF from, left, s, estimated
  <2>. QED
    BY <1>3, <1>4, <1>5, <2>1, LogIsFresh
<1>7. FreshLog(second, prepared) /\ second.mix = to /\ second.weight = purge
  <2>1. estimated \in BOOLEAN
    OBVIOUS
  <2> HIDE DEF from, to, s, estimated
  <2>. QED
    BY <1>1, <1>3, <1>4, <2>1, LogIsFresh
<1>8. /\ scraps \in BOOLEAN
      /\ scraps => emptied = Charge(balance, from, 0, left) /\ mid = Append(logs, first)
      /\ ~scraps => emptied = balance /\ mid = logs
  OBVIOUS
<1>9. /\ purge > 0 => balance' = Charge(emptied, to, 0, purge) /\ logs' = Append(mid, second)
      /\ ~(purge > 0) => balance' = emptied /\ logs' = mid
      /\ rows' = Started(Displaced(a, left, disposition), t, s)
      /\ Answer(c) /\ UNCHANGED <<shift, prepared, entries>>
  <2>1. /\ balance' = IF purge > 0 THEN Charge(emptied, to, 0, purge) ELSE emptied
        /\ rows' = Started(Displaced(a, left, disposition), t, s)
        /\ Answer(c) /\ UNCHANGED <<shift, prepared, entries>>
    BY DEF Displace
  <2> DEFINE special == IF scraps THEN <<first>> ELSE <<>>
             wasted == IF purge > 0 THEN <<second>> ELSE <<>>
  <2>2. logs' = logs \o special \o wasted
    BY DEF Displace
  <2>3. first \in LogType /\ second \in LogType
    BY <1>6, <1>7 DEF FreshLog
  <2> HIDE DEF first, second, scraps
  <2>4. logs \o special = mid /\ mid \in Seq(LogType)
    BY <1>2, <2>3
  <2>5. logs' = mid \o wasted
    BY <2>2, <2>4
  <2> HIDE DEF mid, special
  <2>6. logs' = IF purge > 0 THEN Append(mid, second) ELSE mid
    BY <2>3, <2>4, <2>5
  <2> HIDE DEF emptied, to, from, t, s, left
  <2>. QED
    BY <2>1, <2>6
<1>10. Sound(emptied, entries, mid, prepared, reconciled)
  <2>1. Sound(balance, entries, logs, prepared, reconciled)
    BY <1>2 DEF Sound
  <2> HIDE DEF emptied, mid, scraps, first, from, left
  <2>2. CASE scraps
    <3>1. Waste(balance, logs, first, emptied, mid)
      BY <1>6, <1>8, <2>2 DEF Waste
    <3>. QED
      BY <1>6, <2>1, <3>1, WasteIsSound
  <2>3. CASE ~scraps
    BY <1>8, <2>1, <2>3
  <2>. QED
    BY <1>8, <2>2, <2>3
<1> HIDE DEF emptied, mid, scraps, first, second, to, from, left, t, s
<1>11. Sound(balance', entries, logs', prepared, reconciled)
  <2>1. CASE purge > 0
    <3>1. Waste(emptied, mid, second, balance', logs')
      BY <1>7, <1>9, <2>1 DEF Waste
    <3>. QED
      BY <1>7, <1>10, <3>1, WasteIsSound
  <2>2. CASE ~(purge > 0)
    BY <1>9, <1>10, <2>2
  <2>. QED
    BY <2>1, <2>2
<1>12. Grown(rows, rows') /\ RowsOK(rows', prepared)
  <2> DEFINE d == Displaced(a, left, disposition)
  <2>1. Grown(rows, d) /\ RowsOK(d, prepared)
    BY <1>2, DisplacedGrows
  <2>2. rows' = Started(d, t, s)
    BY <1>9
  <2> HIDE DEF d
  <2>3. Grown(d, rows') /\ RowsOK(rows', prepared)
    BY <1>3, <2>1, <2>2, StartedGrows
  <2>. QED
    BY <2>1, <2>3, GrownTwice
<1>13. EntriesOK(entries', rows')
  BY <1>9, <1>12, GrownKeeps DEF QueueInv
<1>. QED
  BY <1>9, <1>11, <1>12, <1>13, Answered DEF Sound

(* A shift that opens keeps the invariant.                                 *)
LEMMA OpenSessionKeeps ==
    ASSUME QueueInv, OpenSession PROVE QueueInv'
<1>1. RowsOK(rows, prepared) /\ opened \in Nat /\ opened + 1 \in Nat
  BY DEF QueueInv, ShiftsOK
<1>2. \A j \in DOMAIN rows : rows[j] \in RowType
  BY <1>1, RowFields
<1>3. rows' = [i \in DOMAIN rows |-> IF rows[i].status = "ACTIVA"
                                     THEN [rows[i] EXCEPT !.session = opened + 1]
                                     ELSE rows[i]]
  BY DEF OpenSession
<1>4. rows' \in [DOMAIN rows -> RowType] /\ \A j \in DOMAIN rows : rows'[j].mix = rows[j].mix
  BY <1>1, <1>2, <1>3 DEF RowType
<1>5. Grown(rows, rows') /\ RowsOK(rows', prepared)
  BY <1>1, <1>4, RemadeGrows
<1>6. EntriesOK(entries, rows') /\ DeskOK(desk, rows', prepared)
  BY <1>5, GrownKeeps DEF QueueInv
<1>. QED
  BY <1>1, <1>5, <1>6 DEF QueueInv, OpenSession, ShiftsOK

(* A shift that closes keeps the invariant.                                *)
LEMMA CloseSessionKeeps ==
    ASSUME QueueInv, CloseSession PROVE QueueInv'
<1>1. RowsOK(rows, prepared)
  BY DEF QueueInv
<1>2. \A j \in DOMAIN rows : rows[j] \in RowType
  BY <1>1, RowFields
<1>3. rows' = [i \in DOMAIN rows |->
                  IF rows[i].session = session /\ rows[i].status = "ACTIVA"
                  THEN [rows[i] EXCEPT !.status = "PAUSADA"] ELSE rows[i]]
  BY DEF CloseSession
<1>4. rows' \in [DOMAIN rows -> RowType] /\ \A j \in DOMAIN rows : rows'[j].mix = rows[j].mix
  BY <1>2, <1>3 DEF RowType, Live
<1>5. Grown(rows, rows') /\ RowsOK(rows', prepared)
  BY <1>1, <1>4, RemadeGrows
<1>6. EntriesOK(entries, rows') /\ DeskOK(desk, rows', prepared)
  BY <1>5, GrownKeeps DEF QueueInv
<1>. QED
  BY <1>5, <1>6 DEF QueueInv, CloseSession, ShiftsOK

(* As many numbers as rows.                                                *)
LEMMA RangeCardinality == \A n \in Nat : IsFiniteSet(1..n) /\ Cardinality(1..n) = n
<1> SUFFICES ASSUME NEW n \in Nat PROVE IsFiniteSet(1..n) /\ Cardinality(1..n) = n
  OBVIOUS
<1>1. Cardinality(1..n) = IF 1 > n THEN 0 ELSE n - 1 + 1
  BY FS_Interval
<1>. QED
  BY <1>1, FS_Interval

(* An order of a finite set names each of its elements once.               *)
LEMMA OrderIs ==
    ASSUME NEW S, IsFiniteSet(S), NEW order \in SetToSeqs(S)
    PROVE  /\ order \in Seq(S) /\ Len(order) \in Nat /\ DOMAIN order = 1..Len(order)
           /\ \A k \in DOMAIN order : order[k] \in S
           /\ \A j, k \in DOMAIN order : order[j] = order[k] => j = k
           /\ \A x \in S : \E k \in DOMAIN order : order[k] = x
<1> DEFINE n == Cardinality(S)
           D == 1..n
<1>1. n \in Nat
  BY FS_CardinalityType
<1>2. order \in [D -> S] /\ \A i, j \in D : i # j => order[i] # order[j]
  BY DEF SetToSeqs
<1>3. IsFiniteSet(D) /\ Cardinality(D) = n
  BY <1>1, RangeCardinality
<1>4. order \in Injection(D, S)
  BY <1>2 DEF Injection, IsInjective
<1>5. order \in Surjection(D, S)
  <2>1. Cardinality(D) = Cardinality(S)
    BY <1>3
  <2> HIDE DEF D, n
  <2>. QED
    BY <1>4, <2>1, FS_Injection
<1>6. \A x \in S : \E k \in D : order[k] = x
  BY <1>5 DEF Surjection
<1>7. order \in Seq(S) /\ Len(order) = n
  BY <1>1, <1>2
<1> HIDE DEF n
<1>. QED
  BY <1>1, <1>2, <1>6, <1>7

(* A correction of scrap moves the charge by what it moves the log, and    *)
(* keeps the invariant.                                                    *)
LEMMA AdjustScrapKeeps ==
    ASSUME QueueInv, NEW c \in Clerks, NEW n \in DOMAIN logs, NEW kg \in Scales,
           AdjustScrap(c, n, kg)
    PROVE  QueueInv'
<1> DEFINE m == logs[n].mix
           back == logs[n].weight
<1>1. kg \in Nat
  BY MixAssumption
<1>2. /\ logs \in Seq(LogType) /\ LogsOK(logs, prepared, reconciled)
      /\ entries \in Seq(EntryType) /\ BalanceOK(balance, prepared)
      /\ MassOK(balance, entries, logs, prepared) /\ rows \in Seq(RowType)
      /\ RowsOK(rows, prepared) /\ EntriesOK(entries, rows)
  BY DEF QueueInv, LogsOK, EntriesOK, RowsOK
<1>3. \A j \in DOMAIN logs : logs[j] \in LogType
  BY <1>2
<1>4. m \in Containers /\ BatchOf[m] \in prepared /\ back \in Nat
  BY <1>2, <1>3 DEF LogsOK, LogType
<1>5. logs' = [logs EXCEPT ![n] = [@ EXCEPT !.weight = kg, !.weighed = TRUE, !.corrected = TRUE]]
  BY DEF AdjustScrap
<1>6. /\ DOMAIN logs' = DOMAIN logs
      /\ \A j \in DOMAIN logs : j # n => logs'[j] = logs[j]
      /\ logs'[n] = [logs[n] EXCEPT !.weight = kg, !.weighed = TRUE, !.corrected = TRUE]
  BY <1>2, <1>5
<1>7. /\ logs'[n] \in LogType /\ logs'[n].weight = kg /\ logs'[n].mix = m
      /\ logs'[n].corrected = TRUE /\ logs'[n].closed = logs[n].closed
      /\ logs'[n].shift = logs[n].shift /\ logs'[n].estimate = logs[n].estimate
  BY <1>1, <1>3, <1>6 DEF LogType
<1>8. logs' \in Seq(LogType)
  BY <1>2, <1>3, <1>5, <1>7
<1>9. balance' = Charge(balance, m, back, kg)
  BY DEF AdjustScrap
<1> HIDE DEF m, back
<1>10. /\ BalanceOK(balance', prepared)
       /\ \A x \in Containers : x # m => Left(balance', x) = Left(balance, x)
       /\ Left(balance', m) = Left(balance, m) + back - kg
  <2>1. Charged(balance, prepared, m, back, kg, balance')
    BY <1>1, <1>2, <1>4, <1>9 DEF Charged
  <2>. QED
    BY <2>1, ChargeKeeps
<1>11. LogsOK(logs', prepared, reconciled)
  <2>1. \A j \in DOMAIN logs' : /\ BatchOf[logs'[j].mix] \in prepared
                                /\ logs'[j].closed => logs'[j].shift \in reconciled
    BY <1>2, <1>4, <1>6, <1>7 DEF LogsOK
  <2>2. \A j \in DOMAIN logs' :
           logs'[j].estimate > 0 /\ ~logs'[j].corrected /\ ~logs'[j].closed =>
              logs'[j].weight = logs'[j].estimate
    BY <1>2, <1>6, <1>7 DEF LogsOK
  <2>. QED
    BY <1>8, <2>1, <2>2 DEF LogsOK
<1>12. \A x : Recharge(logs, x) => Recharge(logs', x)
  <2> SUFFICES ASSUME NEW x, Recharge(logs, x) PROVE Recharge(logs', x)
    OBVIOUS
  <2>1. PICK j \in DOMAIN logs : logs[j].mix = x /\ logs[j].corrected
                                  /\ logs[j].closed /\ logs[j].estimate > 0
    BY DEF Recharge
  <2>2. j \in DOMAIN logs' /\ logs'[j].mix = x /\ logs'[j].corrected
          /\ logs'[j].closed /\ logs'[j].estimate > 0
    BY <1>6, <1>7, <2>1 DEF m
  <2>. QED
    BY <2>2 DEF Recharge
<1>13. MassOK(balance', entries, logs', prepared)
  <2>1. ASSUME NEW x \in Containers
        PROVE  Accounted(balance', entries, logs', x) = Accounted(balance, entries, logs, x)
    <3>1. Left(balance, x) \in Int /\ ProducedIn(entries, x) \in Nat /\ WastedIn(logs, x) \in Nat
      BY <1>2, LeftIsInt, SumsAreNat DEF BalanceOK
    <3>2. \A j \in DOMAIN logs : logs'[j].mix = logs[j].mix
      BY <1>6, <1>7 DEF m
    <3>3. \A j \in DOMAIN logs : j # n => logs'[j].weight = logs[j].weight
      BY <1>6
    <3>4. /\ logs[n].mix = x =>
                WastedIn(logs', x) = WastedIn(logs, x) + logs'[n].weight - logs[n].weight
          /\ logs[n].mix # x => WastedIn(logs', x) = WastedIn(logs, x)
      <4>1. AmendedLogs(logs, logs', n)
        BY <1>2, <1>6, <1>8, <3>2, <3>3 DEF AmendedLogs
      <4>. QED
        BY <4>1, WastedChanged
    <3>5. /\ x = m => WastedIn(logs', x) = WastedIn(logs, x) + kg - back
          /\ x # m => WastedIn(logs', x) = WastedIn(logs, x)
      BY <1>7, <3>4 DEF m, back
    <3>6. CASE x = m
      <4>1. Left(balance', x) = Left(balance, x) + back - kg
        BY <1>10, <3>6
      <4>. QED
        BY <1>1, <1>4, <3>1, <3>5, <3>6, <4>1 DEF Accounted
    <3>7. CASE x # m
      BY <1>10, <3>5, <3>7 DEF Accounted
    <3>. QED
      BY <3>6, <3>7
  <2>. QED
    BY <1>2, <1>12, <2>1, MassMoves
<1>14. Grown(rows, rows)
  BY <1>2, SameRowsGrow
<1>. QED
  BY <1>2, <1>10, <1>11, <1>13, <1>14, Answered DEF AdjustScrap

(* A row that may come back to the queue leaves the table right.           *)
LEMMA ReopenedGrows ==
    ASSUME NEW rs, NEW done, RowsOK(rs, done), NEW i \in DOMAIN rs, NEW bal
    PROVE  Grown(rs, Reopened(rs, i, bal)) /\ RowsOK(Reopened(rs, i, bal), done)
           /\ DOMAIN Reopened(rs, i, bal) = DOMAIN rs
<1> DEFINE t == [rs EXCEPT ![i].status = "PAUSADA"]
<1>1. rs \in [DOMAIN rs -> RowType] /\ \A j \in DOMAIN rs : rs[j] \in RowType
  BY DEF RowsOK
<1>2. t \in [DOMAIN rs -> RowType] /\ \A j \in DOMAIN rs : t[j].mix = rs[j].mix
  BY <1>1 DEF RowType, Live
<1>3. Reopened(rs, i, bal) = rs \/ Reopened(rs, i, bal) = t
  BY DEF Reopened
<1> HIDE DEF t
<1>4. Grown(rs, t) /\ RowsOK(t, done) /\ Grown(rs, rs) /\ DOMAIN t = DOMAIN rs
  BY <1>1, <1>2, RemadeGrows
<1>. QED
  BY <1>3, <1>4

(* A correction of production moves the charge by what it moves the entry, *)
(* and keeps the invariant.                                                *)
LEMMA AdjustEntryKeeps ==
    ASSUME QueueInv, NEW c \in Clerks, NEW n \in DOMAIN entries, NEW kg \in Scales,
           AdjustEntry(c, n, kg)
    PROVE  QueueInv'
<1> DEFINE m == entries[n].mix
           back == entries[n].net
           i == entries[n].row
<1>1. kg \in Nat
  BY MixAssumption
<1>2. /\ logs \in Seq(LogType) /\ LogsOK(logs, prepared, reconciled)
      /\ entries \in Seq(EntryType) /\ BalanceOK(balance, prepared)
      /\ MassOK(balance, entries, logs, prepared) /\ rows \in Seq(RowType)
      /\ RowsOK(rows, prepared) /\ EntriesOK(entries, rows)
  BY DEF QueueInv, LogsOK, EntriesOK, RowsOK
<1>3. \A j \in DOMAIN entries : entries[j] \in EntryType
  BY <1>2
<1>4. m \in Containers /\ BatchOf[m] \in prepared /\ back \in Nat /\ i \in DOMAIN rows
  BY <1>2, <1>3 DEF EntriesOK, RowsOK, EntryType
<1>5. entries' = [entries EXCEPT ![n] = [@ EXCEPT !.net = kg, !.corrected = TRUE]]
  BY DEF AdjustEntry
<1>6. /\ DOMAIN entries' = DOMAIN entries
      /\ \A j \in DOMAIN entries : j # n => entries'[j] = entries[j]
      /\ entries'[n] = [entries[n] EXCEPT !.net = kg, !.corrected = TRUE]
  BY <1>2, <1>5
<1>7. /\ entries'[n] \in EntryType /\ entries'[n].net = kg /\ entries'[n].mix = m
      /\ entries'[n].row = i
  BY <1>1, <1>3, <1>6 DEF EntryType
<1>8. entries' \in Seq(EntryType)
  BY <1>2, <1>3, <1>5, <1>7
<1>9. /\ balance' = Charge(balance, m, back, kg)
      /\ rows' \in Finished(Reopened(rows, i, balance'), i, balance', logs)
      /\ Answer(c) /\ UNCHANGED <<shift, prepared, logs>>
  BY DEF AdjustEntry
<1>10. \A j \in DOMAIN entries :
          entries'[j].mix = entries[j].mix /\ entries'[j].row = entries[j].row
  BY <1>6, <1>7
<1> HIDE DEF m, back, i
<1>11. /\ BalanceOK(balance', prepared)
       /\ \A x \in Containers : x # m => Left(balance', x) = Left(balance, x)
       /\ Left(balance', m) = Left(balance, m) + back - kg
  <2>1. Charged(balance, prepared, m, back, kg, balance')
    BY <1>1, <1>2, <1>4, <1>9 DEF Charged
  <2>. QED
    BY <2>1, ChargeKeeps
<1>12. Grown(rows, rows') /\ RowsOK(rows', prepared)
  <2> DEFINE t == Reopened(rows, i, balance')
  <2>1. Grown(rows, t) /\ RowsOK(t, prepared) /\ DOMAIN t = DOMAIN rows
    BY <1>2, <1>4, ReopenedGrows
  <2>2. rows' \in Finished(t, i, balance', logs)
    BY <1>9
  <2> HIDE DEF t
  <2>3. t \in [DOMAIN t -> RowType] /\ i \in DOMAIN t
    BY <1>4, <2>1 DEF RowsOK
  <2>4. rows' \in Settled(t)
    BY <2>2, <2>3, FinishedSettles
  <2>5. Grown(t, rows') /\ RowsOK(rows', prepared)
    BY <2>1, <2>4, SettledGrows
  <2>. QED
    BY <2>1, <2>5, GrownTwice
<1>13. EntriesOK(entries', rows')
  <2>1. EntriesOK(entries, rows')
    BY <1>2, <1>12, GrownKeeps
  <2>. QED
    BY <1>6, <1>8, <1>10, <2>1 DEF EntriesOK
<1>14. MassOK(balance', entries', logs, prepared)
  <2>1. ASSUME NEW x \in Containers
        PROVE  Accounted(balance', entries', logs, x) = Accounted(balance, entries, logs, x)
    <3>1. Left(balance, x) \in Int /\ ProducedIn(entries, x) \in Nat /\ WastedIn(logs, x) \in Nat
      BY <1>2, LeftIsInt, SumsAreNat DEF BalanceOK
    <3>2. \A j \in DOMAIN entries : entries'[j].mix = entries[j].mix
      BY <1>10
    <3>3. \A j \in DOMAIN entries : j # n => entries'[j].net = entries[j].net
      BY <1>6
    <3>4. /\ entries[n].mix = x =>
                ProducedIn(entries', x) = ProducedIn(entries, x) + entries'[n].net - entries[n].net
          /\ entries[n].mix # x => ProducedIn(entries', x) = ProducedIn(entries, x)
      <4>1. AmendedEntries(entries, entries', n)
        BY <1>2, <1>6, <1>8, <3>2, <3>3 DEF AmendedEntries
      <4>. QED
        BY <4>1, ProducedChanged
    <3>5. /\ x = m => ProducedIn(entries', x) = ProducedIn(entries, x) + kg - back
          /\ x # m => ProducedIn(entries', x) = ProducedIn(entries, x)
      BY <1>7, <3>4 DEF m, back
    <3>6. CASE x = m
      <4>1. Left(balance', x) = Left(balance, x) + back - kg
        BY <1>11, <3>6
      <4>. QED
        BY <1>1, <1>4, <3>1, <3>5, <3>6, <4>1 DEF Accounted
    <3>7. CASE x # m
      BY <1>11, <3>5, <3>7 DEF Accounted
    <3>. QED
      BY <3>6, <3>7
  <2>. QED
    BY <1>2, <2>1, MassMoves
<1>. QED
  BY <1>2, <1>9, <1>11, <1>12, <1>13, <1>14, Answered

(* One log of a shift is weighed, and its charge corrected.                *)
Closing(bal, ls, n, kg, new, more) ==
    /\ n \in DOMAIN ls /\ ~ls[n].closed /\ kg \in Nat
    /\ new = Charge(bal, ls[n].mix, Recorded(ls[n]), kg)
    /\ more \in Seq(LogType) /\ DOMAIN more = DOMAIN ls
    /\ \A j \in DOMAIN ls : j # n => more[j] = ls[j]
    /\ more[n] = [ls[n] EXCEPT !.weight = kg, !.weighed = TRUE, !.closed = TRUE]

(* The weighing of one log leaves the tables sound: either the charge it   *)
(* gives back is the weight of the log, or the log was corrected and its   *)
(* container is no longer held to the balance.                             *)
LEMMA ClosingIsSound ==
    ASSUME NEW bal, NEW es, NEW ls, NEW done, NEW closures, Sound(bal, es, ls, done, closures),
           NEW n, NEW kg, NEW new, NEW more, Closing(bal, ls, n, kg, new, more),
           ls[n].shift \in closures
    PROVE  Sound(new, es, more, done, closures)
<1> DEFINE m == ls[n].mix
           back == Recorded(ls[n])
           was == ls[n].weight
<1>1. /\ n \in DOMAIN ls /\ ~ls[n].closed /\ kg \in Nat /\ more \in Seq(LogType)
      /\ DOMAIN more = DOMAIN ls
      /\ \A j \in DOMAIN ls : j # n => more[j] = ls[j]
      /\ more[n] = [ls[n] EXCEPT !.weight = kg, !.weighed = TRUE, !.closed = TRUE]
      /\ new = Charge(bal, m, back, kg)
  BY DEF Closing
<1>2. /\ ls \in Seq(LogType) /\ LogsOK(ls, done, closures) /\ es \in Seq(EntryType)
      /\ BalanceOK(bal, done) /\ MassOK(bal, es, ls, done)
  BY DEF Sound, LogsOK
<1>3. ls[n] \in LogType /\ BatchOf[m] \in done
  BY <1>1, <1>2 DEF LogsOK
<1>4. m \in Containers /\ was \in Nat /\ back \in Nat
  BY <1>3 DEF LogType, Recorded
<1>5. /\ more[n].weight = kg /\ more[n].mix = m /\ more[n].shift = ls[n].shift /\ more[n].closed
      /\ more[n].estimate = ls[n].estimate /\ more[n].corrected = ls[n].corrected
  BY <1>1, <1>3 DEF LogType
<1>6. ls[n].estimate > 0 /\ ~ls[n].corrected => was = back
  BY <1>1, <1>2 DEF LogsOK, Recorded
<1>7. ~(ls[n].estimate > 0) => was = back
  BY DEF Recorded
<1>8. \A j \in DOMAIN ls : more[j].mix = ls[j].mix
  BY <1>1, <1>5
<1>9. /\ BalanceOK(new, done)
      /\ \A x \in Containers : x # m => Left(new, x) = Left(bal, x)
      /\ Left(new, m) = Left(bal, m) + back - kg
  <2> HIDE DEF m, back
  <2>1. Charged(bal, done, m, back, kg, new)
    BY <1>1, <1>2, <1>3, <1>4 DEF Charged
  <2>. QED
    BY <2>1, ChargeKeeps
<1>10. LogsOK(more, done, closures)
  <2> SUFFICES ASSUME NEW j \in DOMAIN more
               PROVE  /\ BatchOf[more[j].mix] \in done
                      /\ more[j].closed => more[j].shift \in closures
                      /\ more[j].estimate > 0 /\ ~more[j].corrected /\ ~more[j].closed =>
                            more[j].weight = more[j].estimate
    BY <1>1 DEF LogsOK
  <2>1. CASE j = n
    BY <1>3, <1>5, <2>1
  <2>2. CASE j # n
    BY <1>1, <1>2, <2>2 DEF LogsOK
  <2>. QED
    BY <2>1, <2>2
<1>11. \A x : Recharge(ls, x) => Recharge(more, x)
  <2> SUFFICES ASSUME NEW x, Recharge(ls, x) PROVE Recharge(more, x)
    OBVIOUS
  <2>1. PICK j \in DOMAIN ls : ls[j].mix = x /\ ls[j].corrected
                                /\ ls[j].closed /\ ls[j].estimate > 0
    BY DEF Recharge
  <2>2. j # n /\ j \in DOMAIN more /\ more[j] = ls[j]
    BY <1>1, <2>1
  <2>. QED
    BY <2>1, <2>2 DEF Recharge
<1>12. MassOK(new, es, more, done)
  <2>1. ASSUME NEW x \in Containers, ~Recharge(more, x)
        PROVE  Accounted(new, es, more, x) = Accounted(bal, es, ls, x)
    <3>1. Left(bal, x) \in Int /\ ProducedIn(es, x) \in Nat /\ WastedIn(ls, x) \in Nat
      BY <1>2, LeftIsInt, SumsAreNat DEF BalanceOK
    <3>2. /\ ls[n].mix = x => WastedIn(more, x) = WastedIn(ls, x) + more[n].weight - ls[n].weight
          /\ ls[n].mix # x => WastedIn(more, x) = WastedIn(ls, x)
      <4>1. \A j \in DOMAIN ls : j # n => more[j].weight = ls[j].weight
        BY <1>1
      <4>2. AmendedLogs(ls, more, n)
        BY <1>1, <1>2, <1>8, <4>1 DEF AmendedLogs
      <4>. QED
        BY <4>2, WastedChanged
    <3>3. /\ x = m => WastedIn(more, x) = WastedIn(ls, x) + kg - was
          /\ x # m => WastedIn(more, x) = WastedIn(ls, x)
      BY <1>5, <3>2
    <3>4. CASE x = m
      <4>1. ~(more[n].mix = x /\ more[n].corrected /\ more[n].closed /\ more[n].estimate > 0)
        BY <1>1, <2>1 DEF Recharge
      <4>2. was = back
        BY <1>5, <1>6, <1>7, <3>4, <4>1
      <4> HIDE DEF was, back
      <4>3. Left(new, x) = Left(bal, x) + was - kg
        BY <1>9, <3>4, <4>2
      <4>. QED
        BY <1>1, <1>4, <3>1, <3>3, <3>4, <4>3 DEF Accounted
    <3>5. CASE x # m
      BY <1>9, <3>3, <3>5 DEF Accounted
    <3>. QED
      BY <3>4, <3>5
  <2>. QED
    BY <1>2, <1>11, <2>1, MassMoves
<1>. QED
  BY <1>2, <1>9, <1>10, <1>12 DEF Sound

(* The table of logs with the first n of a closure weighed.                *)
WeighedUpTo(weights, n) ==
    [j \in DOMAIN logs |->
        IF j \in DOMAIN weights /\ j <= n
        THEN [logs[j] EXCEPT !.weight = weights[j], !.weighed = TRUE, !.closed = TRUE]
        ELSE logs[j]]

(* The closure of a shift leaves the tables sound, after each of its logs  *)
(* and so after all.                                                       *)
LEMMA ClosureIsSound ==
    ASSUME QueueInv, NEW s \in Nat, s \notin reconciled, NEW weights,
           DOMAIN weights = {n \in DOMAIN logs : logs[n].shift = s},
           \A n \in DOMAIN weights : weights[n] \in Nat
    PROVE  Sound(Corrected(weights), entries, Weighed(weights), prepared, reconciled \cup {s})
<1> DEFINE N == Len(logs)
           closures == reconciled \cup {s}
           W(n) == WeighedUpTo(weights, n)
<1>1. TypeOK
  BY QueueInvMeans
<1>2. /\ logs \in Seq(LogType) /\ N \in Nat /\ DOMAIN logs = 1..N
      /\ \A j \in DOMAIN logs : logs[j] \in LogType
  BY <1>1 DEF TypeOK
<1>3. PICK f \in [0..N -> BalanceType] :
         /\ f[0] = balance /\ f[N] = Corrected(weights)
         /\ \A n \in 1..N : f[n] = Correct(weights, n, f[n - 1])
  BY <1>1, CorrectedWalks
<1>4. \A j \in DOMAIN weights : j \in DOMAIN logs /\ logs[j].shift = s /\ ~logs[j].closed
  BY DEF QueueInv, LogsOK
<1>5. \A n \in 0..N : W(n) \in Seq(LogType) /\ DOMAIN W(n) = 1..N
  <2> SUFFICES ASSUME NEW n \in 0..N PROVE W(n) \in Seq(LogType) /\ DOMAIN W(n) = 1..N
    OBVIOUS
  <2>1. \A j \in 1..N : W(n)[j] \in LogType
    BY <1>2, <1>4 DEF WeighedUpTo, LogType
  <2>2. W(n) = [j \in 1..N |-> W(n)[j]]
    BY <1>2 DEF WeighedUpTo
  <2> HIDE DEF W
  <2>. QED
    BY <1>2, <2>1, <2>2
<1>6. W(0) = logs
  <2>1. \A j \in DOMAIN logs : ~(j <= 0)
    BY <1>2
  <2>2. \A j \in DOMAIN logs : W(0)[j] = logs[j]
    BY <2>1 DEF WeighedUpTo
  <2>3. DOMAIN W(0) = DOMAIN logs
    BY DEF WeighedUpTo
  <2>4. W(0) \in Seq(LogType)
    BY <1>2, <1>5
  <2> HIDE DEF W
  <2>. QED
    BY <1>2, <2>2, <2>3, <2>4
<1>7. W(N) = Weighed(weights)
  <2>1. \A j \in DOMAIN logs : j <= N
    BY <1>2
  <2>. QED
    BY <2>1, Zenon DEF WeighedUpTo, Weighed
<1>8. ASSUME NEW n \in 0..N, n < N, Sound(f[n], entries, W(n), prepared, closures)
      PROVE  Sound(f[n + 1], entries, W(n + 1), prepared, closures)
  <2> DEFINE k == n + 1
  <2>1. k \in 1..N /\ k \in 0..N /\ k - 1 = n /\ k \in DOMAIN logs /\ n \in Nat /\ k \in Nat
    BY <1>2, <1>8
  <2>2. f[k] = Correct(weights, k, f[n])
    BY <1>3, <2>1
  <2>3. \A j \in 1..N : j # k => (j <= n <=> j <= k)
    BY <2>1
  <2>4. ~(k <= n) /\ k <= k
    BY <2>1
  <2>5. W(n)[k] = logs[k] /\ \A j \in 1..N : j # k => W(k)[j] = W(n)[j]
    <3> HIDE DEF k
    <3>. QED
      BY <1>2, <2>1, <2>3, <2>4 DEF WeighedUpTo
  <2>6. CASE k \in DOMAIN weights
    <3>1. W(k)[k] = [logs[k] EXCEPT !.weight = weights[k], !.weighed = TRUE, !.closed = TRUE]
      <4> HIDE DEF k
      <4>. QED
        BY <2>1, <2>4, <2>6 DEF WeighedUpTo
    <3>2. f[k] = Charge(f[n], logs[k].mix, Recorded(logs[k]), weights[k])
      BY <2>2, <2>6 DEF Correct
    <3> HIDE DEF W, k
    <3>3. Closing(f[n], W(n), k, weights[k], f[k], W(k))
      BY <1>2, <1>4, <1>5, <2>1, <2>5, <2>6, <3>1, <3>2 DEF Closing
    <3>4. W(n)[k].shift \in closures
      BY <1>4, <2>5, <2>6
    <3>5. Sound(f[k], entries, W(k), prepared, closures)
      BY <1>8, <3>3, <3>4, ClosingIsSound
    <3>. QED
      BY <3>5 DEF k
  <2>7. CASE k \notin DOMAIN weights
    <3>1. W(k)[k] = logs[k]
      <4> HIDE DEF k
      <4>. QED
        BY <2>1, <2>7 DEF WeighedUpTo
    <3>2. f[k] = f[n]
      BY <2>2, <2>7 DEF Correct
    <3>3. W(k) = W(n)
      <4> HIDE DEF W, k
      <4>1. \A j \in 1..N : W(k)[j] = W(n)[j]
        BY <2>5, <3>1
      <4>. QED
        BY <1>5, <2>1, <4>1
    <3> HIDE DEF W, k
    <3>4. Sound(f[k], entries, W(k), prepared, closures)
      BY <1>8, <3>2, <3>3
    <3>. QED
      BY <3>4 DEF k
  <2>. QED
    BY <2>6, <2>7
<1>9. Sound(balance, entries, logs, prepared, closures)
  BY DEF QueueInv, Sound, LogsOK, EntriesOK
<1> DEFINE Good == {n \in 0..N : Sound(f[n], entries, W(n), prepared, closures)}
<1>10. 0 \in Good
  BY <1>2, <1>3, <1>6, <1>9
<1>11. \A n \in 0..N : n < N /\ n \in Good => n + 1 \in Good
  <2> SUFFICES ASSUME NEW n \in 0..N, n < N, n \in Good PROVE n + 1 \in Good
    OBVIOUS
  <2>1. n + 1 \in 0..N
    BY <1>2
  <2> HIDE DEF W, closures
  <2>. QED
    BY <1>8, <2>1
<1>12. N \in Good
  <2> HIDE DEF Good
  <2>1. \A n \in 0..N : n \in Good
    BY <1>2, <1>10, <1>11, RangeInduction
  <2>. QED
    BY <1>2, <2>1
<1>13. Sound(f[N], entries, W(N), prepared, closures)
  <2> HIDE DEF W, closures
  <2>. QED
    BY <1>12
<1>. QED
  BY <1>3, <1>7, <1>13

(* closeExtrusionShift keeps the invariant.                                *)
LEMMA CloseShiftKeeps ==
    ASSUME QueueInv, NEW c \in Clerks,
           NEW weights \in [{n \in DOMAIN logs : logs[n].shift = session} -> Scales],
           CloseShift(c, weights)
    PROVE  QueueInv'
<1> DEFINE s == desk[c].session
           named == {logs[n].mix : n \in DOMAIN weights} \cup {logs[n].from : n \in DOMAIN weights}
<1>1. /\ s = session /\ s \notin reconciled /\ reconciled' = reconciled \cup {s}
      /\ DOMAIN weights = {n \in DOMAIN logs : logs[n].shift = s}
      /\ logs' = Weighed(weights) /\ balance' = Corrected(weights)
      /\ \E order \in SetToSeqs(named) :
              rows' \in FinishedInTurn(order, Corrected(weights), Weighed(weights))
      /\ Answer(c) /\ UNCHANGED <<session, opened, prepared, entries>>
  BY DEF CloseShift
<1>2. s \in Nat /\ \A n \in DOMAIN weights : weights[n] \in Nat
  <2>1. session \in Nat
    BY DEF QueueInv, ShiftsOK
  <2>2. \A n \in DOMAIN weights : weights[n] \in Scales
    OBVIOUS
  <2>. QED
    BY <1>1, <2>1, <2>2, MixAssumption
<1>3. Sound(balance', entries, logs', prepared, reconciled')
  <2> HIDE DEF s
  <2>1. Sound(Corrected(weights), entries, Weighed(weights), prepared, reconciled \cup {s})
    BY <1>1, <1>2, ClosureIsSound
  <2>. QED
    BY <1>1, <2>1
<1>4. IsFiniteSet(named)
  <2>1. logs \in Seq(LogType)
    BY DEF QueueInv, LogsOK
  <2>2. \A n \in DOMAIN weights : logs[n] \in LogType
    BY <1>1, <2>1
  <2>3. named \subseteq Containers
    BY <2>2 DEF LogType
  <2> HIDE DEF named
  <2>. QED
    BY <2>3, FS_Subset, MixAssumption
<1>5. PICK order \in SetToSeqs(named) :
         rows' \in FinishedInTurn(order, Corrected(weights), Weighed(weights))
  BY <1>1
<1>6. Len(order) \in Nat
  <2> HIDE DEF named
  <2>. QED
    BY <1>4, OrderIs
<1>7. rows' \in Settled(rows)
  <2>1. rows \in Seq(RowType)
    BY DEF QueueInv, RowsOK
  <2>. QED
    BY <1>5, <1>6, <2>1, TurnsSettle
<1>8. Grown(rows, rows') /\ RowsOK(rows', prepared)
  BY <1>7, TurnsOK
<1>9. EntriesOK(entries', rows') /\ DeskOK(desk, rows', prepared)
  BY <1>1, <1>8, GrownKeeps DEF QueueInv
<1>10. DeskOK(desk', rows', prepared)
  BY <1>1, <1>9, DeskAnswered DEF Answer
<1>11. ShiftsOK(session', opened', reconciled', prepared')
  BY <1>1, <1>2 DEF QueueInv, ShiftsOK
<1>12. raced' \subseteq Containers
  BY <1>1 DEF QueueInv, Answer
<1>. QED
  BY <1>1, <1>3, <1>8, <1>9, <1>10, <1>11, <1>12 DEF QueueInv, Sound

(* A preparation that is queued gets a row for each of its containers.     *)
LEMMA MixFormulaRows ==
    ASSUME QueueInv, NEW c \in Clerks, NEW b \in Batches, NEW queued \in BOOLEAN,
           MixFormula(c, b, queued)
    PROVE  Grown(rows, rows') /\ RowsOK(rows', prepared')
<1> DEFINE S == ContainersOf(b)
           s == desk[c].session
<1>1. PICK new \in SetToSeqs(S) :
         rows' = IF queued THEN rows \o [k \in DOMAIN new |-> NewRow(new[k], s)] ELSE rows
  BY DEF MixFormula
<1>2. new \in Seq(S) /\ Len(new) \in Nat /\ DOMAIN new = 1..Len(new)
      /\ \A k \in DOMAIN new : new[k] \in S
  <2>1. IsFiniteSet(S)
    BY ContainersAreFinite
  <2> HIDE DEF S
  <2>. QED
    BY <2>1, OrderIs
<1>3. s \in Nat
  BY DeskFields DEF QueueInv, MixFormula, Ready
<1>4. prepared' = prepared \cup {b}
  BY DEF MixFormula
<1>5. rows \in Seq(RowType) /\ RowsOK(rows, prepared)
  BY DEF QueueInv, RowsOK
<1> DEFINE more == [k \in DOMAIN new |-> NewRow(new[k], s)]
           N == Len(rows)
           M == Len(new)
<1>6. /\ more \in Seq(RowType) /\ Len(more) = M /\ DOMAIN more = 1..M
      /\ \A k \in 1..M : BatchOf[more[k].mix] \in prepared'
  <2>1. \A k \in 1..M : more[k] = NewRow(new[k], s)
    BY <1>2
  <2>2. \A k \in 1..M : new[k] \in Containers /\ BatchOf[new[k]] = b
    BY <1>2 DEF ContainersOf
  <2>3. \A k \in 1..M : more[k] \in RowType /\ more[k].mix = new[k]
    BY <1>3, <2>1, <2>2 DEF NewRow, RowType, Live
  <2>4. more = [k \in 1..M |-> more[k]] /\ M \in Nat
    BY <1>2
  <2> HIDE DEF more, M
  <2>5. more \in Seq(RowType) /\ Len(more) = M /\ DOMAIN more = 1..M
    BY <2>3, <2>4
  <2>. QED
    BY <1>4, <2>2, <2>3, <2>5
<1>7. CASE queued
  <2>1. rows' = rows \o more
    BY <1>1, <1>7
  <2>2. N \in Nat /\ M \in Nat /\ DOMAIN rows = 1..N
    BY <1>2, <1>5
  <2> HIDE DEF more, M
  <2>3. /\ rows' \in Seq(RowType) /\ DOMAIN rows' = 1..(N + M)
        /\ \A i \in 1..N : rows'[i] = rows[i]
        /\ \A k \in 1..M : rows'[N + k] = more[k]
    BY <1>5, <1>6, <2>1
  <2> HIDE DEF N
  <2>4. Grown(rows, rows')
    BY <2>2, <2>3 DEF Grown
  <2>5. ASSUME NEW i \in DOMAIN rows' PROVE BatchOf[rows'[i].mix] \in prepared'
    <3>1. CASE i \in 1..N
      BY <1>4, <1>5, <2>2, <2>3, <3>1 DEF RowsOK
    <3>2. CASE i \notin 1..N
      <4>1. i - N \in 1..M /\ i = N + (i - N)
        BY <2>2, <2>3, <3>2
      <4>2. rows'[i] = more[i - N]
        BY <2>3, <4>1
      <4>. QED
        BY <1>6, <4>1, <4>2
    <3>. QED
      BY <3>1, <3>2
  <2>. QED
    BY <2>3, <2>4, <2>5 DEF RowsOK
<1>8. CASE ~queued
  <2>1. rows' = rows
    BY <1>1, <1>8
  <2>. QED
    BY <1>4, <1>5, <2>1, SameRowsGrow DEF RowsOK
<1>. QED
  BY <1>7, <1>8

(* mixFormula fills the containers and keeps the invariant.                *)
LEMMA MixFormulaKeeps ==
    ASSUME QueueInv, NEW c \in Clerks, NEW b \in Batches, NEW queued \in BOOLEAN,
           MixFormula(c, b, queued)
    PROVE  QueueInv'
<1> DEFINE S == ContainersOf(b)
<1>1. /\ b \notin prepared /\ prepared' = prepared \cup {b}
      /\ Answer(c) /\ UNCHANGED <<session, opened, reconciled, entries, logs>>
  BY DEF MixFormula, shift
<1>2. /\ logs \in Seq(LogType) /\ LogsOK(logs, prepared, reconciled)
      /\ entries \in Seq(EntryType) /\ BalanceOK(balance, prepared)
      /\ MassOK(balance, entries, logs, prepared) /\ rows \in Seq(RowType)
      /\ RowsOK(rows, prepared) /\ EntriesOK(entries, rows) /\ DeskOK(desk, rows, prepared)
  BY DEF QueueInv, LogsOK, EntriesOK, RowsOK
<1>3. /\ balance.content \in [Containers -> Nat] /\ balance.prep \in [Batches -> Nat]
      /\ balance.overrun \in [Containers -> Nat]
      /\ balance = [content |-> balance.content, prep |-> balance.prep, overrun |-> balance.overrun]
  BY <1>2 DEF BalanceOK, BalanceType
<1>4. IsFiniteSet(S) /\ S \subseteq Containers /\ \A m \in Containers : m \in S <=> BatchOf[m] = b
  BY ContainersAreFinite
<1>5. Total(Filled, S) \in Nat /\ Mixed[b] \in Nat /\ Rounding \in Nat
      /\ Within(Rounding, Mixed[b], Total(Filled, S))
  <2>1. \A m \in S : Filled[m] \in Nat
    BY <1>4, MixAssumption
  <2>2. Mixed[b] \in Nat /\ Rounding \in Nat /\ Within(Rounding, Mixed[b], Total(Filled, S))
    BY MixAssumption DEF DividedInto
  <2> HIDE DEF S
  <2>. QED
    BY <1>4, <2>1, <2>2, TotalNat
<1>6. balance' = [content |-> [m \in Containers |-> IF BatchOf[m] = b THEN Filled[m]
                                                    ELSE balance.content[m]],
                  prep |-> [balance.prep EXCEPT ![b] = Mixed[b]],
                  overrun |-> balance.overrun]
  BY <1>3 DEF MixFormula
<1> HIDE DEF S
<1>7. /\ balance' \in BalanceType
      /\ \A m \in S : balance'.content[m] = Filled[m]
      /\ \A m \in Containers : m \notin S => balance'.content[m] = balance.content[m]
      /\ \A x \in Batches : x # b => balance'.prep[x] = balance.prep[x]
      /\ balance'.prep[b] = Mixed[b]
      /\ balance'.overrun = balance.overrun
  <2>1. \A m \in Containers : Filled[m] \in Nat
    BY MixAssumption
  <2>2. /\ balance'.content = [m \in Containers |-> IF BatchOf[m] = b THEN Filled[m]
                                                    ELSE balance.content[m]]
        /\ balance'.prep = [balance.prep EXCEPT ![b] = Mixed[b]]
        /\ balance'.overrun = balance.overrun
    BY <1>6
  <2>3. balance' \in BalanceType
    BY <1>3, <1>5, <1>6, <2>1 DEF BalanceType
  <2>. QED
    BY <1>3, <1>4, <2>2, <2>3
<1>8. \A m \in S : balance.overrun[m] = 0
  BY <1>1, <1>2, <1>4 DEF BalanceOK
<1>9. ASSUME NEW x \in Batches PROVE BatchKept(balance', x)
  <2>1. CASE x = b
    <3>1. Total(balance'.content, S) = Total(Filled, S)
      BY <1>4, <1>7, TotalEqual
    <3>. QED
      BY <1>5, <1>7, <2>1, <3>1 DEF BatchKept, Within, S
  <2>2. CASE x # b
    <3>1. /\ IsFiniteSet(ContainersOf(x))
          /\ \A m \in ContainersOf(x) : balance'.content[m] = balance.content[m]
      BY <1>4, <1>7, <2>2, ContainersAreFinite
    <3>2. Total(balance'.content, ContainersOf(x)) = Total(balance.content, ContainersOf(x))
      BY <3>1, TotalEqual
    <3>3. BatchKept(balance, x)
      BY <1>2 DEF BalanceOK
    <3>. QED
      BY <1>7, <2>2, <3>2, <3>3 DEF BatchKept
  <2>. QED
    BY <2>1, <2>2
<1>10. BalanceOK(balance', prepared')
  <2>1. \A m \in Containers : BatchOf[m] \notin prepared' =>
           balance'.content[m] = 0 /\ balance'.overrun[m] = 0
    BY <1>1, <1>2, <1>4, <1>7 DEF BalanceOK
  <2>. QED
    BY <1>7, <1>9, <2>1 DEF BalanceOK
<1>11. LogsOK(logs', prepared', reconciled')
  BY <1>1, <1>2 DEF LogsOK
<1>12. MassOK(balance', entries', logs', prepared')
  <2> SUFFICES ASSUME NEW m \in Containers, BatchOf[m] \in prepared', ~Recharge(logs, m)
               PROVE  Accounted(balance', entries, logs, m) = Filled[m]
    BY <1>1 DEF MassOK
  <2>1. CASE m \in S
    <3>1. \A n \in DOMAIN entries : entries[n].mix # m
      BY <1>1, <1>2, <1>4, <2>1 DEF EntriesOK, RowsOK
    <3>2. \A n \in DOMAIN logs : logs[n].mix # m
      BY <1>1, <1>2, <1>4, <2>1 DEF LogsOK
    <3>3. \A n \in DOMAIN NetKg(entries) : Mixes(entries)[n] # m
      BY <3>1 DEF NetKg, Mixes
    <3>4. \A n \in DOMAIN WeightKg(logs) : Mixes(logs)[n] # m
      BY <3>2 DEF WeightKg, Mixes
    <3>5. ProducedIn(entries, m) = 0
      BY <3>3, KgOfNone DEF ProducedIn
    <3>6. WastedIn(logs, m) = 0
      BY <3>4, KgOfNone DEF WastedIn
    <3>7. balance'.content[m] = Filled[m] /\ balance'.overrun[m] = 0 /\ Filled[m] \in Nat
      BY <1>7, <1>8, <2>1, MixAssumption
    <3>8. Left(balance', m) = Filled[m]
      BY <3>7 DEF Left
    <3>. QED
      BY <3>5, <3>6, <3>7, <3>8 DEF Accounted
  <2>2. CASE m \notin S
    <3>1. BatchOf[m] \in prepared /\ Left(balance', m) = Left(balance, m)
      BY <1>1, <1>4, <1>7, <2>2 DEF Left
    <3>. QED
      BY <1>2, <3>1 DEF MassOK, Accounted
  <2>. QED
    BY <2>1, <2>2
<1>13. Grown(rows, rows') /\ RowsOK(rows', prepared')
  BY MixFormulaRows
<1>14. EntriesOK(entries', rows')
  BY <1>1, <1>2, <1>13, GrownKeeps
<1>15. DeskOK(desk', rows', prepared')
  <2>1. DeskOK(desk', rows, prepared)
    BY <1>1, <1>2, DeskAnswered DEF Answer
  <2>2. prepared \subseteq prepared'
    BY <1>1
  <2>. QED
    BY <1>13, <2>1, <2>2, GrownKeeps
<1>16. ShiftsOK(session', opened', reconciled', prepared')
  BY <1>1 DEF QueueInv, ShiftsOK
<1>17. raced' \subseteq Containers
  BY <1>1 DEF QueueInv, Answer
<1>. QED
  BY <1>10, <1>11, <1>12, <1>13, <1>14, <1>15, <1>16, <1>17 DEF QueueInv

(* A row for each of the containers in order.                              *)
LEMMA WastedOnce ==
    ASSUME NEW ls \in Seq(LogType), \A j, k \in DOMAIN ls : ls[j].mix = ls[k].mix => j = k, NEW x
    PROVE  /\ \A k \in DOMAIN ls : ls[k].mix = x => WastedIn(ls, x) = ls[k].weight
           /\ (\A k \in DOMAIN ls : ls[k].mix # x) => WastedIn(ls, x) = 0
<1> DEFINE kg == WeightKg(ls)
           S == {n \in DOMAIN kg : Mixes(ls)[n] = x}
<1>1. DOMAIN kg = DOMAIN ls /\ \A n \in DOMAIN ls : kg[n] = ls[n].weight /\ Mixes(ls)[n] = ls[n].mix
  BY DEF WeightKg, Mixes
<1>2. \A n \in DOMAIN ls : kg[n] \in Nat
  <2>1. kg \in [1..Len(ls) -> Nat]
    BY Columns
  <2>. QED
    BY <1>1, <2>1
<1>3. WastedIn(ls, x) = Total(kg, S)
  BY DEF WastedIn, KgOf
<1>4. ASSUME NEW k \in DOMAIN ls, ls[k].mix = x PROVE WastedIn(ls, x) = ls[k].weight
  <2>1. S = {k}
    BY <1>1, <1>4
  <2>2. IsFiniteSet({}) /\ k \notin {} /\ {} \cup {k} = {k} /\ \A y \in {} \cup {k} : kg[y] \in Int
    BY <1>2, FS_EmptySet
  <2> HIDE DEF kg, S
  <2>3. Total(kg, {} \cup {k}) = kg[k] + Total(kg, {})
    BY <2>2, TotalAdd
  <2>4. Total(kg, {}) = 0 /\ kg[k] \in Nat
    BY <1>2, TotalEmpty
  <2>. QED
    BY <1>1, <1>3, <2>1, <2>2, <2>3, <2>4
<1>5. ASSUME \A k \in DOMAIN ls : ls[k].mix # x PROVE WastedIn(ls, x) = 0
  <2>1. S = {}
    BY <1>1, <1>5
  <2>. QED
    BY <1>3, <2>1, TotalEmpty
<1>. QED
  BY <1>4, <1>5

(* scrapWipMixture logs what each container still holds, and keeps the     *)
(* invariant.                                                              *)
LEMMA ScrapWipKeeps ==
    ASSUME QueueInv, NEW c \in Clerks, NEW b \in Batches, ScrapWip(c, b) PROVE QueueInv'
<1> DEFINE S == ContainersOf(b)
           left == {m \in ContainersOf(b) : balance.content[m] > 0}
           s == desk[c].session
           MadeOf(m) == [Log(m, m, balance.content[m], TRUE, s, 0) EXCEPT !.shift = 0]
<1>1. /\ b \in prepared /\ Answer(c) /\ UNCHANGED <<shift, prepared, rows, entries>>
      /\ \E order \in SetToSeqs(left) : logs' = logs \o [k \in DOMAIN order |-> MadeOf(order[k])]
  BY DEF ScrapWip
<1>2. /\ logs \in Seq(LogType) /\ LogsOK(logs, prepared, reconciled)
      /\ entries \in Seq(EntryType) /\ BalanceOK(balance, prepared)
      /\ MassOK(balance, entries, logs, prepared) /\ rows \in Seq(RowType)
      /\ RowsOK(rows, prepared) /\ EntriesOK(entries, rows)
  BY DEF QueueInv, LogsOK, EntriesOK, RowsOK
<1>3. /\ balance.content \in [Containers -> Nat] /\ balance.prep \in [Batches -> Nat]
      /\ balance.overrun \in [Containers -> Nat]
      /\ balance = [content |-> balance.content, prep |-> balance.prep, overrun |-> balance.overrun]
  BY <1>2 DEF BalanceOK, BalanceType
<1>4. IsFiniteSet(S) /\ S \subseteq Containers /\ \A m \in Containers : m \in S <=> BatchOf[m] = b
  BY ContainersAreFinite
<1>5. /\ left \subseteq S /\ IsFiniteSet(left)
      /\ \A m \in Containers : m \in left <=> m \in S /\ balance.content[m] > 0
  <2>1. left \subseteq S /\ \A m \in Containers : m \in left <=> m \in S /\ balance.content[m] > 0
    BY <1>4
  <2> HIDE DEF left, S
  <2>. QED
    BY <1>4, <2>1, FS_Subset
<1>6. s \in Nat
  BY DeskFields DEF QueueInv, ScrapWip, Ready
<1>7. \A m \in left : /\ MadeOf(m) \in LogType /\ FreshLog(MadeOf(m), prepared)
                      /\ MadeOf(m).mix = m /\ MadeOf(m).weight = balance.content[m]
  <2> SUFFICES ASSUME NEW m \in left
               PROVE  /\ MadeOf(m) \in LogType /\ FreshLog(MadeOf(m), prepared)
                      /\ MadeOf(m).mix = m /\ MadeOf(m).weight = balance.content[m]
    OBVIOUS
  <2>1. m \in Containers /\ BatchOf[m] \in prepared /\ balance.content[m] \in Nat
    BY <1>1, <1>3, <1>4, <1>5
  <2> HIDE DEF s, left
  <2>. QED
    BY <1>6, <2>1 DEF FreshLog, Log, LogType
<1>8. PICK order \in SetToSeqs(left) : logs' = logs \o [k \in DOMAIN order |-> MadeOf(order[k])]
  BY <1>1
<1>9. balance' = [content |-> [m \in Containers |-> IF m \in left THEN 0 ELSE balance.content[m]],
                  prep |-> [balance.prep EXCEPT ![b] = 0],
                  overrun |-> balance.overrun]
  BY <1>3 DEF ScrapWip
<1> HIDE DEF left, MadeOf
<1>10. /\ Len(order) \in Nat /\ DOMAIN order = 1..Len(order)
       /\ \A k \in DOMAIN order : order[k] \in left
       /\ \A j, k \in DOMAIN order : order[j] = order[k] => j = k
       /\ \A x \in left : \E k \in DOMAIN order : order[k] = x
  BY <1>5, OrderIs
<1> DEFINE more == [k \in DOMAIN order |-> MadeOf(order[k])]
<1>11. /\ DOMAIN more = DOMAIN order
       /\ \A k \in DOMAIN order : /\ more[k] \in LogType /\ FreshLog(more[k], prepared)
                                  /\ more[k].mix = order[k]
                                  /\ more[k].weight = balance.content[order[k]]
  BY <1>7, <1>10
<1>12. more \in Seq(LogType)
  <2>1. more = [k \in 1..Len(order) |-> more[k]]
    BY <1>10
  <2> HIDE DEF more
  <2>. QED
    BY <1>10, <1>11, <2>1
<1>13. logs' = logs \o more
  BY <1>8
<1> HIDE DEF more
<1>14. LogsOK(logs', prepared, reconciled) /\ \A x : Recharge(logs, x) => Recharge(logs', x)
  <2>1. \A k \in DOMAIN more : FreshLog(more[k], prepared)
    BY <1>11
  <2>. QED
    BY <1>2, <1>12, <1>13, <2>1, LogsJoined
<1>15. /\ \A x \in left : WastedIn(more, x) = balance.content[x]
       /\ \A x \in Containers : x \notin left => WastedIn(more, x) = 0
  <2>1. \A j, k \in DOMAIN more : more[j].mix = more[k].mix => j = k
    BY <1>10, <1>11
  <2>2. ASSUME NEW x \in left PROVE WastedIn(more, x) = balance.content[x]
    <3>1. PICK k \in DOMAIN order : order[k] = x
      BY <1>10
    <3>2. k \in DOMAIN more /\ more[k].mix = x /\ more[k].weight = balance.content[x]
      BY <1>11, <3>1
    <3>3. WastedIn(more, x) = more[k].weight
      BY <1>12, <2>1, <3>2, WastedOnce
    <3>. QED
      BY <3>2, <3>3
  <2>3. ASSUME NEW x \in Containers, x \notin left PROVE WastedIn(more, x) = 0
    <3>1. \A k \in DOMAIN more : more[k].mix # x
      BY <1>10, <1>11, <2>3
    <3>. QED
      BY <1>12, <2>1, <3>1, WastedOnce
  <2>. QED
    BY <2>2, <2>3
<1>16. /\ balance' \in BalanceType /\ balance'.overrun = balance.overrun
       /\ \A m \in left : balance'.content[m] = 0
       /\ \A m \in Containers : m \notin left => balance'.content[m] = balance.content[m]
       /\ \A x \in Batches : x # b => balance'.prep[x] = balance.prep[x]
       /\ balance'.prep[b] = 0
  <2>1. /\ balance'.content = [m \in Containers |-> IF m \in left THEN 0 ELSE balance.content[m]]
        /\ balance'.prep = [balance.prep EXCEPT ![b] = 0]
        /\ balance'.overrun = balance.overrun
    BY <1>9
  <2>2. balance' \in BalanceType
    BY <1>3, <1>9 DEF BalanceType
  <2>. QED
    BY <1>3, <1>4, <1>5, <2>1, <2>2
<1> HIDE DEF S
<1>17. ASSUME NEW x \in Batches PROVE BatchKept(balance', x)
  <2>1. CASE x = b
    <3>1. \A m \in S : balance'.content[m] = 0
      BY <1>3, <1>4, <1>5, <1>16
    <3>2. Total(balance'.content, S) = 0
      BY <1>4, <3>1, TotalZero
    <3>. QED
      BY <1>16, <2>1, <3>2, MixAssumption DEF BatchKept, Within, S
  <2>2. CASE x # b
    <3>1. /\ IsFiniteSet(ContainersOf(x))
          /\ \A m \in ContainersOf(x) : balance'.content[m] = balance.content[m]
      BY <1>4, <1>5, <1>16, <2>2, ContainersAreFinite
    <3>2. Total(balance'.content, ContainersOf(x)) = Total(balance.content, ContainersOf(x))
      BY <3>1, TotalEqual
    <3>3. BatchKept(balance, x)
      BY <1>2 DEF BalanceOK
    <3>. QED
      BY <1>16, <2>2, <3>2, <3>3 DEF BatchKept
  <2>. QED
    BY <2>1, <2>2
<1>18. BalanceOK(balance', prepared)
  <2>1. \A m \in Containers : BatchOf[m] \notin prepared =>
           balance'.content[m] = 0 /\ balance'.overrun[m] = 0
    BY <1>2, <1>16 DEF BalanceOK
  <2>. QED
    BY <1>16, <1>17, <2>1 DEF BalanceOK
<1>19. MassOK(balance', entries, logs', prepared)
  <2>1. ASSUME NEW x \in Containers
        PROVE  Accounted(balance', entries, logs', x) = Accounted(balance, entries, logs, x)
    <3>1. /\ Left(balance, x) \in Int /\ ProducedIn(entries, x) \in Nat
          /\ WastedIn(logs, x) \in Nat /\ WastedIn(more, x) \in Nat
      BY <1>2, <1>12, LeftIsInt, SumsAreNat DEF BalanceOK
    <3>2. WastedIn(logs', x) = WastedIn(logs, x) + WastedIn(more, x)
      BY <1>2, <1>12, <1>13, WastedJoined
    <3>3. balance.content[x] \in Nat /\ balance.overrun[x] \in Nat
      BY <1>3
    <3>4. CASE x \in left
      <4>1. Left(balance', x) = Left(balance, x) - balance.content[x]
        BY <1>16, <3>3, <3>4 DEF Left
      <4>. QED
        BY <1>15, <3>1, <3>2, <3>3, <3>4, <4>1 DEF Accounted
    <3>5. CASE x \notin left
      <4>1. Left(balance', x) = Left(balance, x)
        BY <1>16, <3>5 DEF Left
      <4>. QED
        BY <1>15, <3>1, <3>2, <3>5, <4>1 DEF Accounted
    <3>. QED
      BY <3>4, <3>5
  <2>. QED
    BY <1>2, <1>14, <2>1, MassMoves
<1>20. Grown(rows, rows)
  BY <1>2, SameRowsGrow
<1>. QED
  BY <1>1, <1>2, <1>14, <1>18, <1>19, <1>20, Answered

(* The invariant holds at first.                                           *)
LEMMA QueueInvInit == Init => QueueInv
<1> SUFFICES ASSUME Init PROVE QueueInv
  OBVIOUS
<1> USE DEF Init
<1>1. ShiftsOK(session, opened, reconciled, prepared)
  BY DEF ShiftsOK
<1>2. RowsOK(rows, prepared) /\ EntriesOK(entries, rows) /\ LogsOK(logs, prepared, reconciled)
  BY DEF RowsOK, EntriesOK, LogsOK
<1>3. /\ balance \in BalanceType
      /\ \A m \in Containers : balance.content[m] = 0 /\ balance.overrun[m] = 0
      /\ \A b \in Batches : balance.prep[b] = 0
  BY DEF BalanceType
<1>4. ASSUME NEW b \in Batches PROVE BatchKept(balance, b)
  <2>1. IsFiniteSet(ContainersOf(b)) /\ \A m \in ContainersOf(b) : balance.content[m] = 0
    BY <1>3, ContainersAreFinite
  <2>2. Total(balance.content, ContainersOf(b)) = 0
    <3> HIDE DEF Init
    <3>. QED
      BY <2>1, TotalZero
  <2>. QED
    <3>1. Rounding \in Nat
      BY MixAssumption
    <3> HIDE DEF Init
    <3>. QED
      BY <1>3, <2>2, <3>1 DEF BatchKept, Within
<1>5. BalanceOK(balance, prepared)
  BY <1>3, <1>4 DEF BalanceOK
<1>6. MassOK(balance, entries, logs, prepared)
  BY DEF MassOK
<1>7. DeskOK(desk, rows, prepared)
  BY DEF DeskOK, Idle, DeskType
<1>. QED
  BY <1>1, <1>2, <1>5, <1>6, <1>7 DEF QueueInv

(* Every handler and every change of shift keeps the invariant.            *)
LEMMA QueueInvStep == QueueInv /\ [Next]_vars => QueueInv'
<1> SUFFICES ASSUME QueueInv, [Next]_vars PROVE QueueInv'
  OBVIOUS
<1>1. CASE UNCHANGED vars
  BY <1>1 DEF vars, QueueInv
<1>2. CASE OpenSession
  BY <1>2, OpenSessionKeeps
<1>3. CASE CloseSession
  BY <1>3, CloseSessionKeeps
<1>4. ASSUME NEW c \in Clerks, Handle(c) PROVE QueueInv'
  <2>1. CASE Begin(c)
    BY <2>1, BeginKeeps
  <2>2. CASE Rollback(c)
    BY <2>2, RollbackKeeps
  <2>3. ASSUME NEW b \in Batches, NEW queued \in BOOLEAN, MixFormula(c, b, queued) PROVE QueueInv'
    BY <2>3, MixFormulaKeeps
  <2>4. ASSUME NEW m \in Containers, CheckQueue(c, m) PROVE QueueInv'
    BY <2>4, CheckQueueKeeps
  <2>5. CASE EnqueueMix(c)
    BY <2>5, EnqueueMixKeeps
  <2>6. ASSUME NEW i \in DOMAIN rows, NEW kg \in Weights, NEW scrap \in Weights \cup {0},
               NEW estimated \in BOOLEAN, ScanRack(c, rows[i].mix, i, kg, scrap, estimated)
        PROVE  QueueInv'
    BY <2>6, ScanRackKeeps
  <2>7. ASSUME NEW i \in DOMAIN rows, NEW kg \in Weights, NEW estimated \in BOOLEAN,
               Scrap(c, rows[i].mix, i, kg, estimated)
        PROVE  QueueInv'
    BY <2>7, ScrapKeeps
  <2>8. ASSUME NEW i \in DOMAIN rows, LockTarget(c, i) PROVE QueueInv'
    BY <2>8, LockTargetKeeps
  <2>9. CASE Activate(c)
    BY <2>9, ActivateKeeps
  <2>10. ASSUME NEW a \in DOMAIN rows, NEW disposition \in {"WIP", "SCRAP_ESPECIAL"},
                NEW purge \in Weights \cup {0}, Displace(c, a, disposition, purge)
         PROVE  QueueInv'
    BY <2>10, DisplaceKeeps
  <2>11. ASSUME NEW n \in DOMAIN logs, NEW kg \in Scales \ {0}, AdjustScrap(c, n, kg)
         PROVE  QueueInv'
    BY <2>11, AdjustScrapKeeps
  <2>12. ASSUME NEW n \in DOMAIN entries, NEW kg \in Scales \ {0}, AdjustEntry(c, n, kg)
         PROVE  QueueInv'
    BY <2>12, AdjustEntryKeeps
  <2>13. ASSUME NEW b \in Batches, ScrapWip(c, b) PROVE QueueInv'
    BY <2>13, ScrapWipKeeps
  <2>14. ASSUME NEW weights \in [{n \in DOMAIN logs : logs[n].shift = session} -> Scales],
                CloseShift(c, weights)
         PROVE  QueueInv'
    BY <2>14, CloseShiftKeeps
  <2>. QED
    BY <1>4, <2>1, <2>2, <2>3, <2>4, <2>5, <2>6, <2>7, <2>8, <2>9, <2>10, <2>11, <2>12, <2>13,
       <2>14 DEF Handle
<1>. QED
  BY <1>1, <1>2, <1>3, <1>4 DEF Next

(* The invariant holds throughout, with any number of requests at a time.  *)
LEMMA QueueInvHolds == Spec => []QueueInv
<1>. QED
  BY QueueInvInit, QueueInvStep, PTL DEF Spec

(* BatchIsItsContainers, of process_preparations against its containers:   *)
(* no scan, scrap, correction, displacement or closure leaves a            *)
(* preparation with more than its containers hold and their rounding, nor  *)
(* with less than that while none was overrun, with any number of requests *)
(* at a time.                                                              *)
THEOREM PreparationsAreTheirContainers == Spec => []BatchIsItsContainers
<1>1. QueueInv => BatchIsItsContainers
  BY QueueInvMeans
<1>. QED
  BY <1>1, QueueInvHolds, PTL

(* MassBalance: through every charge and correction of                     *)
(* applyPreparationDebitDelta, a container accounts for all it was filled  *)
(* with, unless its scrap was corrected and then closed, with any number   *)
(* of requests at a time.                                                  *)
THEOREM MixturesBalance == Spec => []MassBalance
<1>1. QueueInv => MassBalance
  BY QueueInvMeans
<1>. QED
  BY <1>1, QueueInvHolds, PTL

(* A container that two requests were adding at once, or whose production  *)
(* was corrected.                                                          *)
Excused(m, es, ra) == m \in ra \/ \E n \in DOMAIN es : es[n].mix = m /\ es[n].corrected

(* ContainerQueuedOnce, of any table.                                      *)
OnceIn(rs, es, ra) ==
    \A i, j \in InStatus(rs, Live) : i # j /\ rs[i].mix = rs[j].mix => Excused(rs[i].mix, es, ra)

(* Who has found a container out of the queue still finds it so and adds   *)
(* it alone, and who has locked a row finds it live.                       *)
DeskOnce(dk, rs, es, ra) ==
    \A c \in Clerks :
        /\ dk[c].op = "enqueue" =>
              \/ Excused(dk[c].mix, es, ra)
              \/ \A i \in DOMAIN rs : rs[i].mix = dk[c].mix => rs[i].status \notin Live
        /\ \A d \in Clerks : c # d /\ dk[c].op = "enqueue" /\ dk[d].op = "enqueue"
                               /\ dk[c].mix = dk[d].mix => dk[c].mix \in ra
        /\ dk[c].op = "switch" => rs[dk[c].target].status \in Live

OnceInv == OnceIn(rows, entries, raced) /\ DeskOnce(desk, rows, entries, raced)

(* The step that EndedRowsStay speaks of.                                  *)
EndedStay ==
    \A i \in DOMAIN rows : rows[i].status \notin Live =>
        \/ rows'[i].status \notin Live
        \/ \E n \in DOMAIN entries : entries[n].row = i /\ entries'[n].corrected

(* The same rows, and no row comes back to the queue.                      *)
Calmed(rs, t) ==
    /\ DOMAIN t = DOMAIN rs
    /\ \A i \in DOMAIN rs : t[i].mix = rs[i].mix /\ (t[i].status \in Live => rs[i].status \in Live)

(* Entries may be added or corrected, but none is lost.                    *)
Kept(es, more) ==
    \A n \in DOMAIN es : n \in DOMAIN more /\ more[n].mix = es[n].mix
                           /\ (es[n].corrected => more[n].corrected)

(* What is excused stays so.                                               *)
LEMMA ExcusesStay ==
    ASSUME NEW m, NEW es, NEW more, Kept(es, more), NEW ra, Excused(m, es, ra)
    PROVE  Excused(m, more, ra)
BY DEF Kept, Excused

(* Rows that only leave the queue keep ContainerQueuedOnce.                *)
LEMMA CalmKeepsOnce ==
    ASSUME NEW rs, NEW t, Calmed(rs, t), NEW es, NEW more, NEW ra, OnceIn(rs, es, ra),
           Kept(es, more)
    PROVE  OnceIn(t, more, ra)
<1> SUFFICES ASSUME NEW i \in DOMAIN t, NEW j \in DOMAIN t, t[i].status \in Live,
                    t[j].status \in Live, i # j, t[i].mix = t[j].mix
             PROVE  Excused(t[i].mix, more, ra)
  BY DEF OnceIn, InStatus
<1>1. /\ i \in InStatus(rs, Live) /\ j \in InStatus(rs, Live)
      /\ rs[i].mix = rs[j].mix /\ t[i].mix = rs[i].mix
  BY DEF Calmed, InStatus
<1>2. Excused(rs[i].mix, es, ra)
  BY <1>1 DEF OnceIn
<1>. QED
  BY <1>1, <1>2, ExcusesStay

(* Rows that are settled only leave the queue.                             *)
LEMMA SettledCalms ==
    ASSUME NEW rs, NEW t \in Settled(rs) PROVE Calmed(rs, t)
BY DEF Settled, Calmed

(* What the other requests have read and locked.                           *)
OthersOnce(c) ==
    \A d \in Clerks \ {c} :
        /\ desk[d].op = "enqueue" =>
              \/ Excused(desk[d].mix, entries', raced)
              \/ \A i \in DOMAIN rows' : rows'[i].mix = desk[d].mix => rows'[i].status \notin Live
        /\ desk[d].op = "switch" => rows'[desk[d].target].status \in Live

(* A request that answers leaves the others what they have read.           *)
LEMMA AnswerKeepsOnce ==
    ASSUME QueueInv, OnceInv, NEW c \in Clerks, Answer(c), OthersOnce(c)
    PROVE  DeskOnce(desk', rows', entries', raced')
<1>1. desk \in [Clerks -> DeskType] /\ Idle.op = "idle"
  BY DEF QueueInv, DeskOK, Idle
<1>2. desk'[c].op = "idle" /\ (\A d \in Clerks \ {c} : desk'[d] = desk[d]) /\ raced' = raced
  BY <1>1 DEF Answer
<1>3. \A d, e \in Clerks : d # e /\ desk[d].op = "enqueue" /\ desk[e].op = "enqueue"
                            /\ desk[d].mix = desk[e].mix => desk[d].mix \in raced
  BY DEF OnceInv, DeskOnce
<1>4. ASSUME NEW d \in Clerks, desk'[d].op = "enqueue"
      PROVE  \/ Excused(desk'[d].mix, entries', raced')
             \/ \A i \in DOMAIN rows' : rows'[i].mix = desk'[d].mix => rows'[i].status \notin Live
  <2>1. d \in Clerks \ {c} /\ desk'[d] = desk[d]
    BY <1>2, <1>4
  <2>. QED
    BY <1>2, <1>4, <2>1 DEF OthersOnce
<1>5. ASSUME NEW d \in Clerks, NEW e \in Clerks, d # e, desk'[d].op = "enqueue",
             desk'[e].op = "enqueue", desk'[d].mix = desk'[e].mix
      PROVE  desk'[d].mix \in raced'
  <2>1. desk'[d] = desk[d] /\ desk'[e] = desk[e]
    BY <1>2, <1>5
  <2>. QED
    BY <1>2, <1>3, <1>5, <2>1
<1>6. ASSUME NEW d \in Clerks, desk'[d].op = "switch" PROVE rows'[desk'[d].target].status \in Live
  <2>1. d \in Clerks \ {c} /\ desk'[d] = desk[d]
    BY <1>2, <1>6
  <2>. QED
    BY <1>6, <2>1 DEF OthersOnce
<1>. QED
  BY <1>4, <1>5, <1>6 DEF DeskOnce

(* A handler that answers, changes no row that another holds and only      *)
(* takes rows out of the queue keeps OnceInv.                              *)
LEMMA CalmAnswer ==
    ASSUME QueueInv, OnceInv, NEW c \in Clerks, Answer(c), Calmed(rows, rows'), WaitsForNobody(c),
           Kept(entries, entries')
    PROVE  OnceInv' /\ EndedStay
<1>1. OnceIn(rows', entries', raced')
  BY CalmKeepsOnce DEF OnceInv, Answer
<1>2. ASSUME NEW d \in Clerks \ {c}, desk[d].op = "enqueue"
      PROVE  \/ Excused(desk[d].mix, entries', raced)
             \/ \A i \in DOMAIN rows' : rows'[i].mix = desk[d].mix => rows'[i].status \notin Live
  <2>1. CASE Excused(desk[d].mix, entries, raced)
    BY <2>1, ExcusesStay
  <2>2. CASE \A i \in DOMAIN rows : rows[i].mix = desk[d].mix => rows[i].status \notin Live
    BY <2>2 DEF Calmed
  <2>. QED
    BY <1>2, <2>1, <2>2 DEF OnceInv, DeskOnce
<1>3. ASSUME NEW d \in Clerks \ {c}, desk[d].op = "switch"
      PROVE  rows'[desk[d].target].status \in Live
  <2>1. desk[d].target \in DOMAIN rows /\ rows[desk[d].target].status \in Live
    BY <1>3 DEF QueueInv, DeskOK, OnceInv, DeskOnce
  <2>2. Locked(c, desk[d].target)
    BY <1>3 DEF Locked, HeldBy
  <2>3. rows'[desk[d].target] = rows[desk[d].target]
    BY <2>1, <2>2 DEF WaitsForNobody, Changed
  <2>. QED
    BY <2>1, <2>3
<1>4. DeskOnce(desk', rows', entries', raced')
  BY <1>2, <1>3, AnswerKeepsOnce DEF OthersOnce
<1>5. EndedStay
  BY DEF EndedStay, Calmed
<1>. QED
  BY <1>1, <1>4, <1>5 DEF OnceInv

(* The same entries are kept.                                              *)
LEMMA SameEntriesAreKept == Kept(entries, entries)
BY DEF Kept

(* A handler that answers and leaves rows and entries keeps OnceInv.       *)
LEMMA QuietAnswer ==
    ASSUME QueueInv, OnceInv, NEW c \in Clerks, Answer(c), UNCHANGED <<rows, entries>>
    PROVE  OnceInv' /\ EndedStay
<1>1. Calmed(rows, rows')
  BY DEF Calmed
<1>2. WaitsForNobody(c)
  BY DEF WaitsForNobody, Changed
<1>3. Kept(entries, entries')
  BY SameEntriesAreKept
<1>. QED
  BY <1>1, <1>2, <1>3, CalmAnswer

(* A request that reads and locks keeps OnceInv: what it read was so.      *)
LEMMA DeskStepsOnce ==
    ASSUME QueueInv, OnceInv, NEW c \in Clerks,
           \/ Begin(c) \/ Rollback(c)
           \/ \E m \in Containers : CheckQueue(c, m)
           \/ \E i \in DOMAIN rows : LockTarget(c, i)
    PROVE  OnceInv' /\ EndedStay
<1>1. rows' = rows /\ entries' = entries
  BY DEF Begin, Rollback, CheckQueue, LockTarget
<1>2. EndedStay
  BY <1>1 DEF EndedStay
<1>3. desk \in [Clerks -> DeskType]
  BY DEF QueueInv, DeskOK
<1>4. CASE Rollback(c)
  BY <1>1, <1>4, QuietAnswer DEF Rollback
<1>5. CASE Begin(c)
  <2>1. /\ desk'[c].op = "ready" /\ \A d \in Clerks \ {c} : desk'[d] = desk[d]
        /\ raced' = raced
    BY <1>3, <1>5 DEF Begin
  <2>2. DeskOnce(desk', rows, entries, raced)
    BY <2>1 DEF OnceInv, DeskOnce
  <2>. QED
    BY <1>1, <1>2, <2>1, <2>2 DEF OnceInv
<1>6. ASSUME NEW i \in DOMAIN rows, LockTarget(c, i) PROVE OnceInv' /\ EndedStay
  <2>1. /\ desk'[c].op = "switch" /\ desk'[c].target = i
        /\ \A d \in Clerks \ {c} : desk'[d] = desk[d]
        /\ raced' = raced
    BY <1>3, <1>6 DEF LockTarget
  <2>2. rows[i].status \in Live
    BY <1>6 DEF LockTarget, InStatus
  <2>3. DeskOnce(desk', rows, entries, raced)
    BY <2>1, <2>2 DEF OnceInv, DeskOnce
  <2>. QED
    BY <1>1, <1>2, <2>1, <2>3 DEF OnceInv
<1>7. ASSUME NEW m \in Containers, CheckQueue(c, m) PROVE OnceInv' /\ EndedStay
  <2>1. /\ desk'[c].op = "enqueue" /\ desk'[c].mix = m
        /\ \A d \in Clerks \ {c} : desk'[d] = desk[d]
        /\ raced \subseteq raced'
        /\ (\E d \in Clerks \ {c} : Adding(d, m)) => m \in raced'
    BY <1>3, <1>7 DEF CheckQueue
  <2>2. \A i \in DOMAIN rows : rows[i].mix = m => rows[i].status \notin Live
    BY <1>7 DEF CheckQueue, IsQueued, RowsOf
  <2>3. \A x : Excused(x, entries, raced) => Excused(x, entries, raced')
    BY <2>1 DEF Excused
  <2>4. OnceIn(rows, entries, raced')
    BY <2>3 DEF OnceInv, OnceIn
  <2>5. ASSUME NEW d \in Clerks, desk'[d].op = "enqueue"
        PROVE  \/ Excused(desk'[d].mix, entries, raced')
               \/ \A i \in DOMAIN rows : rows[i].mix = desk'[d].mix => rows[i].status \notin Live
    BY <2>1, <2>2, <2>3, <2>5 DEF OnceInv, DeskOnce
  <2>6. ASSUME NEW d \in Clerks, NEW e \in Clerks, d # e, desk'[d].op = "enqueue",
               desk'[e].op = "enqueue", desk'[d].mix = desk'[e].mix
        PROVE  desk'[d].mix \in raced'
    <3>1. CASE d = c
      BY <2>1, <2>6, <3>1 DEF Adding
    <3>2. CASE e = c
      BY <2>1, <2>6, <3>2 DEF Adding
    <3>3. CASE d # c /\ e # c
      BY <2>1, <2>6, <3>3 DEF OnceInv, DeskOnce
    <3>. QED
      BY <3>1, <3>2, <3>3
  <2>7. ASSUME NEW d \in Clerks, desk'[d].op = "switch"
        PROVE  rows[desk'[d].target].status \in Live
    BY <2>1, <2>7 DEF OnceInv, DeskOnce
  <2>8. DeskOnce(desk', rows, entries, raced')
    BY <2>5, <2>6, <2>7 DEF DeskOnce
  <2>. QED
    BY <1>1, <1>2, <2>4, <2>8 DEF OnceInv
<1>. QED
  BY <1>4, <1>5, <1>6, <1>7

(* A shift that opens or closes keeps OnceInv: it takes no live row out of *)
(* the queue, nor puts one in.                                             *)
LEMMA ShiftStepsOnce ==
    ASSUME QueueInv, OnceInv, OpenSession \/ CloseSession PROVE OnceInv' /\ EndedStay
<1>1. desk' = desk /\ entries' = entries /\ raced' = raced
  BY DEF OpenSession, CloseSession
<1>2. \A i \in DOMAIN rows : rows[i] \in RowType
  BY RowFields DEF QueueInv
<1>3. DOMAIN rows' = DOMAIN rows
  BY DEF OpenSession, CloseSession
<1>4. ASSUME NEW i \in DOMAIN rows
      PROVE  rows'[i].mix = rows[i].mix /\ (rows'[i].status \in Live <=> rows[i].status \in Live)
  <2>1. \/ rows'[i] = rows[i]
        \/ rows'[i] = [rows[i] EXCEPT !.session = opened + 1]
        \/ rows'[i] = [rows[i] EXCEPT !.status = "PAUSADA"] /\ rows[i].status = "ACTIVA"
    BY DEF OpenSession, CloseSession
  <2>2. rows[i] \in RowType
    BY <1>2
  <2>3. CASE rows'[i] = [rows[i] EXCEPT !.session = opened + 1]
    BY <2>2, <2>3 DEF RowType
  <2>4. CASE rows'[i] = [rows[i] EXCEPT !.status = "PAUSADA"] /\ rows[i].status = "ACTIVA"
    BY <2>2, <2>4 DEF RowType, Live
  <2>. QED
    BY <2>1, <2>3, <2>4
<1>5. Calmed(rows, rows')
  BY <1>3, <1>4 DEF Calmed
<1>6. OnceIn(rows', entries', raced')
  BY <1>1, <1>5, SameEntriesAreKept, CalmKeepsOnce DEF OnceInv
<1>7. \A c \in Clerks : desk[c].op = "switch" => desk[c].target \in DOMAIN rows
  BY DEF QueueInv, DeskOK
<1>8. DeskOnce(desk', rows', entries', raced')
  BY <1>1, <1>3, <1>4, <1>7 DEF OnceInv, DeskOnce
<1>9. EndedStay
  BY <1>5 DEF EndedStay, Calmed
<1>. QED
  BY <1>6, <1>8, <1>9 DEF OnceInv

(* The rows of a table, and then those that were added.                    *)
LEMMA ConcatenationIs ==
    ASSUME NEW R, NEW T, NEW r \in Seq(R), NEW t \in Seq(T), NEW all, all = r \o t
    PROVE  /\ DOMAIN all = 1..(Len(r) + Len(t))
           /\ \A i \in 1..Len(r) : all[i] = r[i]
           /\ \A k \in 1..Len(t) : all[Len(r) + k] = t[k]
<1> DEFINE U == R \cup T
<1>1. r \in Seq(U) /\ t \in Seq(U)
  OBVIOUS
<1> HIDE DEF U
<1>. QED
  BY <1>1

(* The containers of a new preparation have no row yet.                    *)
LEMMA MixFormulaOnce ==
    ASSUME QueueInv, OnceInv, NEW c \in Clerks, NEW b \in Batches, NEW queued \in BOOLEAN,
           MixFormula(c, b, queued)
    PROVE  OnceInv' /\ EndedStay
<1> DEFINE S == ContainersOf(b)
           s == desk[c].session
           N == Len(rows)
<1>1. PICK new \in SetToSeqs(S) :
         rows' = IF queued THEN rows \o [k \in DOMAIN new |-> NewRow(new[k], s)] ELSE rows
  BY DEF MixFormula
<1>2. /\ new \in Seq(S) /\ Len(new) \in Nat /\ DOMAIN new = 1..Len(new)
      /\ \A k \in DOMAIN new : new[k] \in S
      /\ \A j, k \in DOMAIN new : new[j] = new[k] => j = k
  <2>1. IsFiniteSet(S)
    BY ContainersAreFinite
  <2> HIDE DEF S
  <2>. QED
    BY <2>1, OrderIs
<1>3. /\ b \notin prepared /\ Answer(c) /\ entries' = entries
      /\ rows \in Seq(RowType) /\ \A i \in DOMAIN rows : BatchOf[rows[i].mix] \in prepared
  BY DEF MixFormula, QueueInv, RowsOK
<1>4. CASE ~queued
  BY <1>1, <1>3, <1>4, QuietAnswer
<1>5. CASE queued
  <2> DEFINE more == [k \in DOMAIN new |-> NewRow(new[k], s)]
             M == Len(new)
  <2>1. /\ rows' = rows \o more /\ N \in Nat /\ M \in Nat /\ DOMAIN rows = 1..N
        /\ \A k \in 1..M : more[k].mix = new[k]
    BY <1>1, <1>2, <1>3, <1>5 DEF NewRow
  <2>2. more = [k \in 1..M |-> more[k]]
    BY <1>2
  <2> HIDE DEF more, M, N
  <2>3. /\ DOMAIN rows' = 1..(N + M)
        /\ \A i \in 1..N : rows'[i] = rows[i]
        /\ \A k \in 1..M : rows'[N + k] = more[k]
    <3> DEFINE R == {more[k] : k \in 1..M}
    <3>1. more \in Seq(R) /\ Len(more) = M
      BY <2>1, <2>2
    <3>2. rows \in Seq(RowType) /\ Len(rows) = N
      BY <1>3 DEF N
    <3>3. rows' = rows \o more
      BY <2>1
    <3> HIDE DEF R
    <3>. QED
      BY <3>1, <3>2, <3>3, ConcatenationIs
  <2>4. \A i \in 1..N : BatchOf[rows'[i].mix] # b
    BY <1>3, <2>1, <2>3
  <2>5. \A i \in DOMAIN rows' : i \notin 1..N => i - N \in 1..M /\ i = N + (i - N)
    BY <2>1, <2>3
  <2>6. ASSUME NEW i \in DOMAIN rows', i \notin 1..N
        PROVE  rows'[i].mix = new[i - N] /\ BatchOf[rows'[i].mix] = b
    <3>1. i - N \in 1..M /\ rows'[i] = more[i - N]
      BY <2>3, <2>5, <2>6
    <3>2. i - N \in DOMAIN new
      BY <1>2, <3>1 DEF M
    <3>. QED
      BY <1>2, <2>1, <3>1, <3>2 DEF ContainersOf
  <2>7. OnceIn(rows', entries', raced')
    <3> SUFFICES ASSUME NEW i \in InStatus(rows', Live), NEW j \in InStatus(rows', Live),
                        i # j, rows'[i].mix = rows'[j].mix
                 PROVE  Excused(rows'[i].mix, entries, raced)
      BY <1>3 DEF OnceIn, Answer
    <3>1. i \in DOMAIN rows' /\ j \in DOMAIN rows'
      BY DEF InStatus
    <3>2. CASE i \in 1..N /\ j \in 1..N
      <4>1. i \in InStatus(rows, Live) /\ j \in InStatus(rows, Live) /\ rows[i].mix = rows[j].mix
            /\ rows'[i].mix = rows[i].mix
        BY <2>1, <2>3, <3>2 DEF InStatus
      <4>. QED
        BY <4>1 DEF OnceInv, OnceIn
    <3>3. CASE i \notin 1..N /\ j \notin 1..N
      <4>1. new[i - N] = new[j - N] /\ i - N \in 1..M /\ j - N \in 1..M
        BY <2>5, <2>6, <3>1, <3>3
      <4>2. i - N = j - N
        BY <1>2, <4>1 DEF M
      <4>. QED
        BY <2>1, <2>5, <3>1, <3>3, <4>2
    <3>. QED
      BY <2>4, <2>6, <3>1, <3>2, <3>3
  <2>8. ASSUME NEW d \in Clerks \ {c}, desk[d].op = "enqueue"
        PROVE  \/ Excused(desk[d].mix, entries', raced)
               \/ \A i \in DOMAIN rows' : rows'[i].mix = desk[d].mix => rows'[i].status \notin Live
    <3>1. BatchOf[desk[d].mix] # b
      BY <1>3, <2>8 DEF QueueInv, DeskOK
    <3>2. \A i \in DOMAIN rows' : rows'[i].mix = desk[d].mix => i \in 1..N
      BY <2>6, <3>1
    <3>. QED
      BY <1>3, <2>1, <2>3, <2>8, <3>2 DEF OnceInv, DeskOnce
  <2>9. ASSUME NEW d \in Clerks \ {c}, desk[d].op = "switch"
        PROVE  rows'[desk[d].target].status \in Live
    BY <2>1, <2>3, <2>9 DEF QueueInv, DeskOK, OnceInv, DeskOnce
  <2>10. DeskOnce(desk', rows', entries', raced')
    BY <1>3, <2>8, <2>9, AnswerKeepsOnce DEF OthersOnce
  <2>11. EndedStay
    BY <2>1, <2>3 DEF EndedStay
  <2>. QED
    BY <2>7, <2>10, <2>11 DEF OnceInv
<1>. QED
  BY <1>4, <1>5

(* enqueueMix adds a row of a container that had no live one.              *)
LEMMA EnqueueMixOnce ==
    ASSUME QueueInv, OnceInv, NEW c \in Clerks, EnqueueMix(c) PROVE OnceInv' /\ EndedStay
<1> DEFINE m == desk[c].mix
           r == NewRow(m, desk[c].session)
           N == Len(rows)
<1>1. /\ rows' = Append(rows, r) /\ entries' = entries /\ Answer(c) /\ rows \in Seq(RowType)
      /\ r.mix = m
  BY DEF EnqueueMix, QueueInv, RowsOK, NewRow
<1>2. \/ Excused(m, entries, raced)
      \/ \A i \in DOMAIN rows : rows[i].mix = m => rows[i].status \notin Live
  BY DEF EnqueueMix, OnceInv, DeskOnce
<1>20. ASSUME NEW d \in Clerks \ {c}, desk[d].op = "enqueue", desk[d].mix = m PROVE m \in raced
  BY <1>20 DEF EnqueueMix, OnceInv, DeskOnce
<1> HIDE DEF r, m
<1>3. /\ N \in Nat /\ DOMAIN rows = 1..N /\ DOMAIN rows' = 1..(N + 1)
      /\ \A i \in 1..N : rows'[i] = rows[i]
      /\ rows'[N + 1] = r
  BY <1>1
<1> HIDE DEF N
<1>4. OnceIn(rows', entries', raced')
  <2> SUFFICES ASSUME NEW i \in InStatus(rows', Live), NEW j \in InStatus(rows', Live),
                      i # j, rows'[i].mix = rows'[j].mix
               PROVE  Excused(rows'[i].mix, entries, raced)
    BY <1>1 DEF OnceIn, Answer
  <2>1. /\ i \in 1..N \/ i = N + 1
        /\ j \in 1..N \/ j = N + 1
        /\ rows'[i].status \in Live /\ rows'[j].status \in Live
    BY <1>3 DEF InStatus
  <2>2. CASE i \in 1..N /\ j \in 1..N
    <3>1. i \in InStatus(rows, Live) /\ j \in InStatus(rows, Live) /\ rows[i].mix = rows[j].mix
          /\ rows'[i].mix = rows[i].mix
      BY <1>3, <2>1, <2>2 DEF InStatus
    <3>. QED
      BY <3>1 DEF OnceInv, OnceIn
  <2>. QED
    BY <1>1, <1>2, <1>3, <2>1, <2>2
<1>5. ASSUME NEW d \in Clerks \ {c}, desk[d].op = "enqueue"
      PROVE  \/ Excused(desk[d].mix, entries', raced)
             \/ \A i \in DOMAIN rows' : rows'[i].mix = desk[d].mix => rows'[i].status \notin Live
  <2>1. CASE desk[d].mix = m
    BY <1>5, <1>20, <2>1 DEF Excused
  <2>2. CASE desk[d].mix # m
    <3>1. \A i \in DOMAIN rows' : rows'[i].mix = desk[d].mix => i \in 1..N
      BY <1>1, <1>3, <2>2
    <3>. QED
      BY <1>1, <1>3, <1>5, <3>1 DEF OnceInv, DeskOnce
  <2>. QED
    BY <2>1, <2>2
<1>6. ASSUME NEW d \in Clerks \ {c}, desk[d].op = "switch"
      PROVE  rows'[desk[d].target].status \in Live
  BY <1>3, <1>6 DEF QueueInv, DeskOK, OnceInv, DeskOnce
<1>7. DeskOnce(desk', rows', entries', raced')
  BY <1>1, <1>5, <1>6, AnswerKeepsOnce DEF OthersOnce
<1>8. EndedStay
  BY <1>3 DEF EndedStay
<1>. QED
  BY <1>4, <1>7, <1>8 DEF OnceInv

(* Two steps that only take rows out of the queue do so together.          *)
LEMMA CalmTwice ==
    ASSUME NEW r, NEW s, NEW t, Calmed(r, s), Calmed(s, t) PROVE Calmed(r, t)
BY DEF Calmed

(* A live row that is started was in the queue.                            *)
LEMMA StartedCalms ==
    ASSUME NEW rs, NEW done, RowsOK(rs, done), NEW i \in DOMAIN rs, rs[i].status \in Live, NEW s
    PROVE  Calmed(rs, Started(rs, i, s))
<1>1. \A j \in DOMAIN rs : rs[j] \in RowType
  BY RowFields
<1>. QED
  BY <1>1 DEF Calmed, Started, RowType, Live

(* A switch starts a row that was live when it locked it.                  *)
LEMMA SwitchOnce ==
    ASSUME QueueInv, OnceInv, NEW c \in Clerks,
           \/ Activate(c)
           \/ \E a \in DOMAIN rows, disposition \in {"WIP", "SCRAP_ESPECIAL"},
                 purge \in Weights \cup {0} : Displace(c, a, disposition, purge)
    PROVE  OnceInv' /\ EndedStay
<1> DEFINE t == desk[c].target
           s == desk[c].session
<1>1. /\ desk[c].op = "switch" /\ Answer(c) /\ WaitsForNobody(c)
      /\ Kept(entries, entries')
  BY SameEntriesAreKept DEF Activate, Displace
<1>2. RowsOK(rows, prepared) /\ t \in DOMAIN rows /\ rows[t].status \in Live /\ s \in Nat
  <2>1. DeskOK(desk, rows, prepared)
    BY DEF QueueInv
  <2>. QED
    BY <1>1, <2>1, DeskFields DEF QueueInv, OnceInv, DeskOnce
<1>3. CASE Activate(c)
  <2>1. rows' = Started(rows, t, s)
    BY <1>3 DEF Activate
  <2> HIDE DEF t, s
  <2>2. Calmed(rows, rows')
    BY <1>2, <2>1, StartedCalms
  <2>. QED
    BY <1>1, <2>2, CalmAnswer
<1>4. ASSUME NEW a \in DOMAIN rows, NEW disposition \in {"WIP", "SCRAP_ESPECIAL"},
             NEW purge \in Weights \cup {0}, Displace(c, a, disposition, purge)
      PROVE  OnceInv' /\ EndedStay
  <2> DEFINE left == balance.content[rows[a].mix]
             d == Displaced(a, left, disposition)
  <2>1. rows' = Started(d, t, s) /\ ~SameBatch(a, t)
    BY <1>4 DEF Displace
  <2>2. RowsOK(d, prepared)
    BY <1>2, DisplacedGrows
  <2>3. \A j \in DOMAIN rows : rows[j] \in RowType
    BY <1>2, RowFields
  <2>4. /\ Calmed(rows, d)
        /\ \A j \in DOMAIN rows : BatchOf[rows[j].mix] # BatchOf[rows[a].mix] => d[j] = rows[j]
    <3>1. Calmed(rows, d)
      BY <2>3 DEF Calmed, Displaced, RowType, Live
    <3>2. \A j \in DOMAIN rows : BatchOf[rows[j].mix] # BatchOf[rows[a].mix] => d[j] = rows[j]
      BY DEF Displaced, BatchRows
    <3>. QED
      BY <3>1, <3>2
  <2>5. d[t] = rows[t] /\ t \in DOMAIN d
    BY <1>2, <2>1, <2>4 DEF SameBatch, Calmed
  <2> HIDE DEF d, t, s
  <2>6. Calmed(d, rows')
    BY <1>2, <2>1, <2>2, <2>5, StartedCalms
  <2>7. Calmed(rows, rows')
    BY <2>4, <2>6, CalmTwice
  <2>. QED
    BY <1>1, <2>7, CalmAnswer
<1>. QED
  BY <1>3, <1>4

(* The scan of a rack puts no row in the queue.                            *)
LEMMA ScanRackOnce ==
    ASSUME QueueInv, OnceInv, NEW c \in Clerks, NEW i \in DOMAIN rows, NEW kg \in Weights,
           NEW scrap \in Weights \cup {0}, NEW estimated \in BOOLEAN,
           NEW m, m = rows[i].mix, ScanRack(c, m, i, kg, scrap, estimated)
    PROVE  OnceInv' /\ EndedStay
<1> DEFINE e == [mix |-> m, row |-> i, session |-> desk[c].session, net |-> kg, corrected |-> FALSE]
<1>1. /\ entries' = Append(entries, e) /\ rows' \in Finished(rows, i, balance', logs') /\ Answer(c)
      /\ rows \in [DOMAIN rows -> RowType] /\ entries \in Seq(EntryType) /\ WaitsForNobody(c)
  BY DEF ScanRack, QueueInv, RowsOK, EntriesOK
<1>2. Calmed(rows, rows')
  <2>1. Finished(rows, i, balance', logs') \subseteq Settled(rows)
    BY <1>1, FinishedSettles
  <2>. QED
    BY <1>1, <2>1, SettledCalms
<1> HIDE DEF e
<1>3. \A n \in DOMAIN entries : n \in DOMAIN entries' /\ entries'[n] = entries[n]
  BY <1>1
<1>4. Kept(entries, entries')
  BY <1>3 DEF Kept
<1>. QED
  BY <1>1, <1>2, <1>4, CalmAnswer

(* Scrap puts no row in the queue.                                         *)
LEMMA ScrapOnce ==
    ASSUME QueueInv, OnceInv, NEW c \in Clerks, NEW i \in DOMAIN rows, NEW kg \in Weights,
           NEW estimated \in BOOLEAN, NEW m, m = rows[i].mix, Scrap(c, m, i, kg, estimated)
    PROVE  OnceInv' /\ EndedStay
<1>1. /\ rows' \in Finished(rows, i, balance', logs') /\ Answer(c) /\ Kept(entries, entries')
      /\ rows \in [DOMAIN rows -> RowType] /\ WaitsForNobody(c)
  BY SameEntriesAreKept DEF Scrap, QueueInv, RowsOK
<1>2. Finished(rows, i, balance', logs') \subseteq Settled(rows)
  BY <1>1, FinishedSettles
<1>3. Calmed(rows, rows')
  BY <1>1, <1>2, SettledCalms
<1>. QED
  BY <1>1, <1>3, CalmAnswer

(* A correction of scrap, and the scrap of a WIP mixture, leave the rows.  *)
LEMMA LogStepsOnce ==
    ASSUME QueueInv, OnceInv, NEW c \in Clerks,
           \/ \E n \in DOMAIN logs, kg \in Scales \ {0} : AdjustScrap(c, n, kg)
           \/ \E b \in Batches : ScrapWip(c, b)
    PROVE  OnceInv' /\ EndedStay
<1>1. rows' = rows /\ entries' = entries /\ Answer(c)
  BY DEF AdjustScrap, ScrapWip
<1>. QED
  BY <1>1, QuietAnswer

(* The row of a corrected entry may come back to the queue.                *)
LEMMA AdjustEntryOnce ==
    ASSUME QueueInv, OnceInv, NEW c \in Clerks, NEW n \in DOMAIN entries,
           NEW kg \in Scales,
           AdjustEntry(c, n, kg)
    PROVE  OnceInv' /\ EndedStay
<1> DEFINE i == entries[n].row
           t == Reopened(rows, i, balance')
<1>1. /\ rows' \in Finished(t, i, balance', logs) /\ Answer(c) /\ WaitsForNobody(c)
      /\ entries' = [entries EXCEPT ![n] = [@ EXCEPT !.net = kg, !.corrected = TRUE]]
  BY DEF AdjustEntry
<1>2. /\ entries \in Seq(EntryType) /\ RowsOK(rows, prepared) /\ i \in DOMAIN rows
      /\ rows[i].mix = entries[n].mix
  BY DEF QueueInv, EntriesOK
<1>3. /\ DOMAIN entries' = DOMAIN entries
      /\ \A j \in DOMAIN entries : j # n => entries'[j] = entries[j]
      /\ entries'[n] = [entries[n] EXCEPT !.net = kg, !.corrected = TRUE]
  BY <1>1, <1>2
<1>4. entries'[n].mix = entries[n].mix /\ entries'[n].corrected
  <2>1. entries[n] \in EntryType
    BY <1>2
  <2>. QED
    BY <1>3, <2>1 DEF EntryType
<1>5. \A j \in DOMAIN rows : j # i => t[j] = rows[j]
  BY DEF Reopened
<1>6. /\ Grown(rows, t) /\ RowsOK(t, prepared) /\ DOMAIN t = DOMAIN rows
  BY <1>2, ReopenedGrows
<1>7. \A j \in DOMAIN rows : t[j].mix = rows[j].mix
  BY <1>6 DEF Grown
<1> HIDE DEF t, i
<1>8. Calmed(t, rows')
  <2>1. t \in [DOMAIN t -> RowType] /\ i \in DOMAIN t
    BY <1>2, <1>6 DEF RowsOK
  <2>2. rows' \in Settled(t)
    BY <1>1, <2>1, FinishedSettles
  <2>. QED
    BY <2>2, SettledCalms
<1>9. Kept(entries, entries') /\ Excused(rows[i].mix, entries', raced)
  BY <1>2, <1>3, <1>4 DEF Kept, Excused
<1>10. OnceIn(t, entries', raced)
  <2> SUFFICES ASSUME NEW j \in InStatus(t, Live), NEW k \in InStatus(t, Live),
                      j # k, t[j].mix = t[k].mix
               PROVE  Excused(t[j].mix, entries', raced)
    BY DEF OnceIn
  <2>1. j \in DOMAIN rows /\ k \in DOMAIN rows /\ t[j].status \in Live /\ t[k].status \in Live
    BY <1>6 DEF InStatus
  <2>2. CASE j = i \/ k = i
    BY <1>2, <1>7, <1>9, <2>1, <2>2
  <2>3. CASE j # i /\ k # i
    <3>1. j \in InStatus(rows, Live) /\ k \in InStatus(rows, Live) /\ rows[j].mix = rows[k].mix
      BY <1>5, <2>1, <2>3 DEF InStatus
    <3>2. Excused(rows[j].mix, entries, raced)
      BY <3>1 DEF OnceInv, OnceIn
    <3>. QED
      BY <1>7, <1>9, <2>1, <3>2, ExcusesStay
  <2>. QED
    BY <2>2, <2>3
<1>11. OnceIn(rows', entries', raced')
  <2>1. Kept(entries', entries')
    BY DEF Kept
  <2>. QED
    BY <1>1, <1>8, <1>10, <2>1, CalmKeepsOnce DEF Answer
<1>12. ASSUME NEW d \in Clerks \ {c}, desk[d].op = "enqueue"
       PROVE  \/ Excused(desk[d].mix, entries', raced)
              \/ \A j \in DOMAIN rows' : rows'[j].mix = desk[d].mix => rows'[j].status \notin Live
  <2>1. CASE Excused(desk[d].mix, entries, raced)
    BY <1>9, <2>1, ExcusesStay
  <2>2. CASE desk[d].mix = rows[i].mix
    BY <1>9, <2>2
  <2>3. CASE /\ desk[d].mix # rows[i].mix
             /\ \A j \in DOMAIN rows : rows[j].mix = desk[d].mix => rows[j].status \notin Live
    BY <1>5, <1>6, <1>7, <1>8, <2>3 DEF Calmed
  <2>. QED
    BY <1>12, <2>1, <2>2, <2>3 DEF OnceInv, DeskOnce
<1>13. ASSUME NEW d \in Clerks \ {c}, desk[d].op = "switch"
       PROVE  rows'[desk[d].target].status \in Live
  <2>1. desk[d].target \in DOMAIN rows /\ rows[desk[d].target].status \in Live
    BY <1>13 DEF QueueInv, DeskOK, OnceInv, DeskOnce
  <2>2. Locked(c, desk[d].target)
    BY <1>13 DEF Locked, HeldBy
  <2>3. rows'[desk[d].target] = rows[desk[d].target]
    BY <1>1, <2>1, <2>2 DEF WaitsForNobody, Changed
  <2>. QED
    BY <2>1, <2>3
<1>14. DeskOnce(desk', rows', entries', raced')
  BY <1>1, <1>12, <1>13, AnswerKeepsOnce DEF OthersOnce
<1>15. EndedStay
  <2>1. ASSUME NEW j \in DOMAIN rows, j # i, rows[j].status \notin Live
        PROVE  rows'[j].status \notin Live
    BY <1>5, <1>6, <1>8, <2>1 DEF Calmed
  <2>2. entries[n].row = i /\ entries'[n].corrected
    BY <1>4 DEF i
  <2>. QED
    BY <2>1, <2>2 DEF EndedStay
<1>. QED
  BY <1>11, <1>14, <1>15 DEF OnceInv

(* The closure of a shift puts no row in the queue.                        *)
LEMMA CloseShiftOnce ==
    ASSUME QueueInv, OnceInv, NEW c \in Clerks, NEW weights, CloseShift(c, weights)
    PROVE  OnceInv' /\ EndedStay
<1> DEFINE named == {logs[n].mix : n \in DOMAIN weights} \cup {logs[n].from : n \in DOMAIN weights}
<1>1. /\ DOMAIN weights \subseteq DOMAIN logs /\ Answer(c) /\ WaitsForNobody(c)
      /\ Kept(entries, entries')
      /\ \E order \in SetToSeqs(named) :
            rows' \in FinishedInTurn(order, Corrected(weights), Weighed(weights))
  BY SameEntriesAreKept DEF CloseShift
<1>2. IsFiniteSet(named)
  <2>1. logs \in Seq(LogType)
    BY DEF QueueInv, LogsOK
  <2>2. \A n \in DOMAIN weights : logs[n] \in LogType
    BY <1>1, <2>1
  <2>3. named \subseteq Containers
    BY <2>2 DEF LogType
  <2> HIDE DEF named
  <2>. QED
    BY <2>3, FS_Subset, MixAssumption
<1>3. PICK order \in SetToSeqs(named) :
         rows' \in FinishedInTurn(order, Corrected(weights), Weighed(weights))
  BY <1>1
<1>4. Len(order) \in Nat
  <2> HIDE DEF named
  <2>. QED
    BY <1>2, OrderIs
<1>5. rows' \in Settled(rows)
  <2>1. rows \in Seq(RowType)
    BY DEF QueueInv, RowsOK
  <2>. QED
    BY <1>3, <1>4, <2>1, TurnsSettle
<1>6. Calmed(rows, rows')
  BY <1>5, SettledCalms
<1>. QED
  BY <1>1, <1>6, CalmAnswer

(* Every step keeps OnceInv, and no row that ended comes back.             *)
LEMMA OnceInvStep ==
    ASSUME QueueInv, OnceInv, [Next]_vars PROVE OnceInv' /\ EndedStay
<1>1. CASE UNCHANGED vars
  BY <1>1 DEF vars, OnceInv, EndedStay
<1>2. CASE OpenSession \/ CloseSession
  BY <1>2, ShiftStepsOnce
<1>3. ASSUME NEW c \in Clerks, Handle(c) PROVE OnceInv' /\ EndedStay
  <2>1. CASE \/ Begin(c) \/ Rollback(c)
             \/ \E m \in Containers : CheckQueue(c, m)
             \/ \E i \in DOMAIN rows : LockTarget(c, i)
    BY <2>1, DeskStepsOnce
  <2>2. ASSUME NEW b \in Batches, NEW queued \in BOOLEAN, MixFormula(c, b, queued)
        PROVE  OnceInv' /\ EndedStay
    BY <2>2, MixFormulaOnce
  <2>3. CASE EnqueueMix(c)
    BY <2>3, EnqueueMixOnce
  <2>4. ASSUME NEW i \in DOMAIN rows, NEW kg \in Weights, NEW scrap \in Weights \cup {0},
               NEW estimated \in BOOLEAN, ScanRack(c, rows[i].mix, i, kg, scrap, estimated)
        PROVE  OnceInv' /\ EndedStay
    BY <2>4, ScanRackOnce
  <2>5. ASSUME NEW i \in DOMAIN rows, NEW kg \in Weights, NEW estimated \in BOOLEAN,
               Scrap(c, rows[i].mix, i, kg, estimated)
        PROVE  OnceInv' /\ EndedStay
    BY <2>5, ScrapOnce
  <2>6. CASE \/ Activate(c)
             \/ \E a \in DOMAIN rows, disposition \in {"WIP", "SCRAP_ESPECIAL"},
                   purge \in Weights \cup {0} : Displace(c, a, disposition, purge)
    BY <2>6, SwitchOnce
  <2>7. CASE \/ \E n \in DOMAIN logs, kg \in Scales \ {0} : AdjustScrap(c, n, kg)
             \/ \E b \in Batches : ScrapWip(c, b)
    BY <2>7, LogStepsOnce
  <2>8. ASSUME NEW n \in DOMAIN entries, NEW kg \in Scales \ {0}, AdjustEntry(c, n, kg)
        PROVE  OnceInv' /\ EndedStay
    BY <2>8, AdjustEntryOnce
  <2>9. ASSUME NEW weights, CloseShift(c, weights) PROVE OnceInv' /\ EndedStay
    BY <2>9, CloseShiftOnce
  <2>. QED
    BY <1>3, <2>1, <2>2, <2>3, <2>4, <2>5, <2>6, <2>7, <2>8, <2>9 DEF Handle
<1>. QED
  BY <1>1, <1>2, <1>3 DEF Next

(* OnceInv holds throughout, and so does the step of EndedRowsStay.        *)
LEMMA OnceInvHolds == Spec => []OnceInv /\ [][EndedStay]_vars
<1>1. Init => OnceInv
  BY DEF Init, OnceInv, OnceIn, DeskOnce, InStatus, Idle
<1>2. QueueInv /\ OnceInv /\ [Next]_vars => OnceInv' /\ [EndedStay]_vars
  BY OnceInvStep
<1>. QED
  BY <1>1, <1>2, QueueInvHolds, PTL DEF Spec

(* ContainerQueuedOnce: mixFormula, enqueueMix, switches and closures of   *)
(* any number of requests leave a container with at most one live row,     *)
(* unless two of them were adding it at once or a correction of production *)
(* reopened an old row.                                                    *)
THEOREM ContainersAreQueuedOnce == Spec => []ContainerQueuedOnce
<1>1. OnceInv => ContainerQueuedOnce
  BY DEF OnceInv, OnceIn, Excused, ContainerQueuedOnce
<1>. QED
  BY <1>1, OnceInvHolds, PTL

(* EndedRowsStay: a row that a scan completed or a switch released while   *)
(* another switch was waiting for it, or at any other moment, is not run   *)
(* again by any of the requests, unless adjustProductionEntry corrects an  *)
(* entry of that row.                                                      *)
THEOREM EndedRowsDoNotRun == Spec => EndedRowsStay
<1>1. Spec => [][EndedStay]_vars
  BY OnceInvHolds, PTL
<1>. QED
  BY <1>1 DEF EndedRowsStay, EndedStay
===============================================================================
