-------------------------- MODULE WarehouseStockProofs --------------------------
(***************************************************************************)
(* For any lots, materials, requests and quantities.  However the          *)
(* transactions overlap, a lost update only overstates a lot.  As long as  *)
(* no two transactions on one material were open together, the balance of  *)
(* a material is that of its active lots, a lot loses what is taken of it, *)
(* what is taken is documented, and a lot is frozen exactly while a        *)
(* pending request names it.                                               *)
(***************************************************************************)
EXTENDS WarehouseStock, TotalTheorems, TLAPS

(* What may be taken of some lots.                                         *)
Takings == UNION {[S -> Nat] : S \in SUBSET Lots}
IsRequest(q) == q = [want |-> q.want, status |-> q.status] /\ q.want \in Takings

(* What a transaction read of a lot covers, with what was taken so far,    *)
(* all the lot brought; what it saved covers it once its own taking is     *)
(* committed.  Only a transaction that takes stock reads lots or saves     *)
(* them, and a receipt saves what it received.                             *)
Columns == {"op", "want", "request", "verdict", "claimed", "flags", "flagged",
            "read", "left", "stockRead", "stockLeft"}
ReadOK(t) ==
    \A l \in DOMAIN t.read : /\ l \in DOMAIN t.want
                             /\ t.read[l] \in Int
                             /\ Received[l] <= t.read[l] + taken[l]
LeftOK(t) ==
    \A l \in DOMAIN t.left : /\ l \in DOMAIN t.want
                             /\ t.left[l] \in Int
                             /\ Received[l] <= t.left[l] + t.want[l] + taken[l]
Receipt(t) ==
    t.op = "receive" => /\ DOMAIN t.read = {}
                        /\ DOMAIN t.left = DOMAIN t.want
                        /\ \A l \in DOMAIN t.left : t.left[l] = Received[l]
OnlyTakers(t) == DOMAIN t.read \cup DOMAIN t.left # {} => TakesStock(t)

Honest(t) ==
    /\ t = [column \in Columns |-> t[column]]
    /\ t.want \in Takings
    /\ ReadOK(t)
    /\ LeftOK(t)
    /\ Receipt(t)
    /\ OnlyTakers(t)

TablesOK ==
    /\ lots \subseteq Lots
    /\ available \in [Lots -> Int]
    /\ taken \in [Lots -> Nat]
    /\ \A r \in DOMAIN requests : IsRequest(requests[r])
    /\ tx \in [Clerks -> {tx[c] : c \in Clerks}]

IInv ==
    /\ TablesOK
    /\ \A c \in Clerks : tx[c] = Idle \/ Honest(tx[c])
    /\ NeverUnderstated

-----------------------------------------------------------------------------
(* What a request may ask for takes naturals of some lots.                 *)
LEMMA WantsAreTakings ==
    ASSUME TablesOK, NEW want \in Wants
    PROVE  want \in Takings
<1>1. PICK S \in (SUBSET lots) \ {{}} : want \in [S -> 1..MaxQuantity]
  BY DEF Wants
<1>2. S \in SUBSET Lots
  BY <1>1 DEF TablesOK
<1>3. want \in [S -> Nat]
  BY <1>1, StockAssumption
<1>. QED
  BY <1>2, <1>3 DEF Takings

(* A taking names lots, and a natural of each.                             *)
LEMMA TakingsAreNumbers ==
    ASSUME NEW want \in Takings, NEW l \in DOMAIN want
    PROVE  l \in Lots /\ want[l] \in Nat
<1>1. PICK S \in SUBSET Lots : want \in [S -> Nat]
  BY DEF Takings
<1>. QED
  BY <1>1

(* A step that commits nothing leaves the invariant to its transaction.    *)
LEMMA NothingCommitted ==
    ASSUME IInv, NEW c \in Clerks, NEW t,
           tx' = [tx EXCEPT ![c] = t], UNCHANGED tables,
           t = Idle \/ Honest(t)
    PROVE  IInv'
<1>1. TablesOK'
  BY DEF IInv, TablesOK, tables
<1>2. NeverUnderstated'
  BY DEF IInv, NeverUnderstated, tables
<1>3. ASSUME NEW d \in Clerks
      PROVE  (tx[d] = Idle \/ Honest(tx[d]))'
  <2>1. tx'[d] = IF d = c THEN t ELSE tx[d]
    BY DEF IInv, TablesOK
  <2>2. tx'[d] = Idle \/ Honest(tx'[d])
    BY <2>1 DEF IInv
  <2>. QED
    BY <2>2 DEF Honest, ReadOK, LeftOK, Receipt, OnlyTakers, TakesStock, tables
<1>. QED
  BY <1>1, <1>2, <1>3 DEF IInv

(* A transaction that was opened and did nothing yet.                      *)
LEMMA FreshIsHonest ==
    ASSUME NEW op, NEW want \in Takings, op # "receive"
    PROVE  Honest(Transaction(op, want))
BY DEF Honest, Columns, ReadOK, LeftOK, Receipt, OnlyTakers, Transaction, Nothing

-----------------------------------------------------------------------------
(* The transactions that are opened.                                       *)
LEMMA ReceiveOK ==
    ASSUME IInv, NEW c \in Clerks, NEW l \in Lots, Receive(c, l)
    PROVE  IInv'
<1> DEFINE want == [k \in {l} |-> Received[l]]
           t == [Transaction("receive", want) EXCEPT !.left = want]
<1>1. tx' = [tx EXCEPT ![c] = t] /\ UNCHANGED tables
  BY DEF Receive, Open
<1>2. want \in Takings
  <2>1. want \in [{l} -> Nat]
    BY StockAssumption
  <2>. QED
    BY <2>1 DEF Takings
<1>3. /\ t = [column \in Columns |-> t[column]]
      /\ t.op = "receive" /\ t.want = want /\ t.left = want /\ DOMAIN t.read = {}
  BY DEF Transaction, Columns, Nothing
<1>4. Received[l] \in Nat /\ taken[l] \in Nat
  BY StockAssumption DEF IInv, TablesOK
<1>5. ReadOK(t) /\ Receipt(t) /\ OnlyTakers(t)
  BY <1>3 DEF ReadOK, Receipt, OnlyTakers, TakesStock
<1>6. LeftOK(t)
  BY <1>3, <1>4 DEF LeftOK
<1>7. Honest(t)
  BY <1>2, <1>3, <1>5, <1>6 DEF Honest
<1>. QED
  BY <1>1, <1>7, NothingCommitted

(* Requests for given lots: consumption and direct disposal.               *)
LEMMA TakeLotsOK ==
    ASSUME IInv, NEW c \in Clerks, NEW op \in {"consume", "dispose"}, NEW want \in Wants,
           TakeLots(c, op, want)
    PROVE  IInv'
<1>1. Honest(Transaction(op, want))
  BY WantsAreTakings, FreshIsHonest DEF IInv
<1>. QED
  BY <1>1, NothingCommitted DEF TakeLots, Open

(* Consumption of the oldest lots, which reads them as it opens.           *)
LEMMA ConsumeFifoOK ==
    ASSUME IInv, NEW c \in Clerks, NEW want \in Wants, ConsumeFifo(c, want)
    PROVE  IInv'
<1> DEFINE read == [l \in DOMAIN want |-> available[l]]
           t == [Transaction("consume", want) EXCEPT !.read = read]
<1>1. tx' = [tx EXCEPT ![c] = t] /\ UNCHANGED tables
  BY DEF ConsumeFifo, Open
<1>2. want \in Takings
  BY WantsAreTakings DEF IInv
<1>3. /\ t = [column \in Columns |-> t[column]]
      /\ t.op = "consume" /\ t.want = want /\ t.read = read /\ DOMAIN t.left = {}
  BY DEF Transaction, Columns, Nothing
<1>4. ReadOK(t)
  <2>1. ASSUME NEW l \in DOMAIN want
        PROVE  /\ available[l] \in Int
               /\ Received[l] <= available[l] + taken[l]
    <3>1. l \in lots
      BY DEF ConsumeFifo, Usable
    <3>. QED
      BY <3>1 DEF IInv, TablesOK, NeverUnderstated
  <2>. QED
    BY <1>3, <2>1 DEF ReadOK
<1>5. LeftOK(t) /\ Receipt(t) /\ OnlyTakers(t)
  BY <1>3 DEF LeftOK, Receipt, OnlyTakers, TakesStock
<1>6. Honest(t)
  BY <1>2, <1>3, <1>4, <1>5 DEF Honest
<1>. QED
  BY <1>1, <1>6, NothingCommitted

(* A request of disposal, which freezes its lots.                          *)
LEMMA AskDisposalOK ==
    ASSUME IInv, NEW c \in Clerks, NEW want \in Wants, AskDisposal(c, want)
    PROVE  IInv'
<1> DEFINE t == [Transaction("request", want) EXCEPT !.flags = DOMAIN want]
<1>1. want \in Takings
  BY WantsAreTakings DEF IInv
<1>2. Honest(t)
  BY <1>1 DEF Honest, Columns, ReadOK, LeftOK, Receipt, OnlyTakers, Transaction, Nothing
<1>. QED
  BY <1>2, NothingCommitted DEF AskDisposal, Open

(* The resolution of a request takes what the request names.               *)
LEMMA StartResolveOK ==
    ASSUME IInv, NEW c \in Clerks, NEW r \in DOMAIN requests, NEW verdict,
           StartResolve(c, r, verdict)
    PROVE  IInv'
<1> DEFINE t == [Transaction("resolve", requests[r].want) EXCEPT
                   !.request = r, !.verdict = verdict, !.claimed = FALSE]
<1>1. requests[r].want \in Takings
  BY DEF IInv, TablesOK, IsRequest
<1>2. Honest(t)
  BY <1>1 DEF Honest, Columns, ReadOK, LeftOK, Receipt, OnlyTakers, Transaction, Nothing
<1>. QED
  BY <1>2, NothingCommitted DEF StartResolve, Open

-----------------------------------------------------------------------------
(* The steps of an open transaction.                                       *)
LEMMA OpenIsHonest ==
    ASSUME IInv, NEW c \in Clerks, IsOpen(c)
    PROVE  Honest(tx[c])
BY DEF IInv, IsOpen

(* A transaction that changes none of what the invariant is about.         *)
LEMMA SameLotsAreHonest ==
    ASSUME NEW t, NEW u, Honest(t),
           u = [column \in Columns |-> u[column]],
           u.op = t.op, u.want = t.want, u.verdict = t.verdict,
           u.read = t.read, u.left = t.left
    PROVE  Honest(u)
BY DEF Honest, ReadOK, LeftOK, Receipt, OnlyTakers, TakesStock

(* The steps that neither read nor save a lot.                             *)
LEMMA OtherStepsOK ==
    ASSUME IInv, NEW c \in Clerks,
           \/ Claim(c)
           \/ \E l \in Lots : WriteFlag(c, l)
           \/ \E m \in Materials : ReadStock(c, m) \/ WriteStock(c, m)
           \/ Rollback(c)
    PROVE  IInv'
<1> DEFINE t == tx[c]
<1>1. Honest(t)
  BY OpenIsHonest DEF Claim, WriteFlag, ReadStock, WriteStock, Rollback, IsOpen
<1>2. t = [column \in Columns |-> t[column]]
  BY <1>1 DEF Honest
<1>3. CASE Claim(c)
  <2>1. ASSUME NEW flags
        PROVE  Honest([t EXCEPT !.claimed = TRUE, !.flags = flags])
    <3> DEFINE u == [t EXCEPT !.claimed = TRUE, !.flags = flags]
    <3>1. /\ u = [column \in Columns |-> u[column]]
          /\ u.op = t.op /\ u.want = t.want /\ u.verdict = t.verdict
          /\ u.read = t.read /\ u.left = t.left
      BY <1>2 DEF Columns
    <3>. HIDE DEF u
    <3>2. Honest(u)
      BY <1>1, <3>1, SameLotsAreHonest
    <3>. QED
      BY <3>2 DEF u
  <2>2. PICK flags : Step(c, [t EXCEPT !.claimed = TRUE, !.flags = flags])
    BY <1>3 DEF Claim
  <2>. QED
    BY <2>1, <2>2, NothingCommitted DEF Step
<1>4. ASSUME NEW l \in Lots, WriteFlag(c, l)
      PROVE  IInv'
  <2> DEFINE u == [t EXCEPT !.flagged = @ \cup {l}]
  <2>1. Honest(u)
    BY <1>1, <1>2, SameLotsAreHonest DEF Columns
  <2>. QED
    BY <1>4, <2>1, NothingCommitted DEF WriteFlag, Step
<1>5. ASSUME NEW m \in Materials, ReadStock(c, m)
      PROVE  IInv'
  <2> DEFINE u == [t EXCEPT !.stockRead = [k \in DOMAIN @ \cup {m} |->
                                             IF k = m THEN inventory[m] ELSE @[k]]]
  <2>1. Honest(u)
    BY <1>1, <1>2, SameLotsAreHonest DEF Columns
  <2>. QED
    BY <1>5, <2>1, NothingCommitted DEF ReadStock, Step
<1>6. ASSUME NEW m \in Materials, WriteStock(c, m)
      PROVE  IInv'
  <2> DEFINE u == [t EXCEPT !.stockLeft = [k \in DOMAIN @ \cup {m} |->
                                             IF k = m THEN StockAfter(t, m) ELSE @[k]]]
  <2>1. Honest(u)
    BY <1>1, <1>2, SameLotsAreHonest DEF Columns
  <2>. QED
    BY <1>6, <2>1, NothingCommitted DEF WriteStock, Step
<1>7. CASE Rollback(c)
  BY <1>7, NothingCommitted DEF Rollback, Step
<1>. QED
  BY <1>3, <1>4, <1>5, <1>6, <1>7

(* A lot that is read is covered when it is read.                          *)
LEMMA ReadLotOK ==
    ASSUME IInv, NEW c \in Clerks, NEW l \in Lots, ReadLot(c, l)
    PROVE  IInv'
<1> DEFINE t == tx[c]
           read == [k \in DOMAIN t.read \cup {l} |->
                      IF k = l THEN available[l] ELSE t.read[k]]
           u == [t EXCEPT !.read = read]
<1>1. Honest(t)
  BY OpenIsHonest DEF ReadLot
<1>2. /\ u = [column \in Columns |-> u[column]]
      /\ u.op = t.op /\ u.want = t.want /\ u.verdict = t.verdict
      /\ u.read = read /\ u.left = t.left
  BY <1>1 DEF Honest, Columns
<1>3. l \in lots /\ l \in DOMAIN t.want \ DOMAIN t.left /\ TakesStock(t)
  BY DEF ReadLot, MayTake
<1>4. available[l] \in Int /\ Received[l] <= available[l] + taken[l]
  BY <1>3 DEF IInv, TablesOK, NeverUnderstated
<1>5. ReadOK(u)
  BY <1>1, <1>2, <1>3, <1>4 DEF Honest, ReadOK
<1>6. LeftOK(u) /\ Receipt(u) /\ OnlyTakers(u)
  BY <1>1, <1>2, <1>3 DEF Honest, LeftOK, Receipt, OnlyTakers, TakesStock
<1>7. Honest(u)
  BY <1>1, <1>2, <1>5, <1>6 DEF Honest
<1>. QED
  BY <1>7, NothingCommitted DEF ReadLot, Step

(* A lot that is saved is covered once its taking is committed.            *)
LEMMA WriteLotOK ==
    ASSUME IInv, NEW c \in Clerks, NEW l \in Lots, WriteLot(c, l)
    PROVE  IInv'
<1> DEFINE t == tx[c]
           left == [k \in DOMAIN t.left \cup {l} |->
                      IF k = l THEN LeftOf(t, l) ELSE t.left[k]]
           u == [t EXCEPT !.left = left]
<1>1. Honest(t)
  BY OpenIsHonest DEF WriteLot
<1>2. /\ u = [column \in Columns |-> u[column]]
      /\ u.op = t.op /\ u.want = t.want /\ u.verdict = t.verdict
      /\ u.read = t.read /\ u.left = left
  BY <1>1 DEF Honest, Columns
<1>3. l \in DOMAIN t.read \ DOMAIN t.left
  BY DEF WriteLot
<1>4. /\ l \in DOMAIN t.want /\ t.read[l] \in Int
      /\ Received[l] <= t.read[l] + taken[l]
  BY <1>1, <1>3 DEF Honest, ReadOK
<1>5. t.want[l] \in Nat /\ Received[l] \in Nat /\ taken[l] \in Nat
  BY <1>1, <1>4, TakingsAreNumbers, StockAssumption DEF Honest, IInv, TablesOK
<1>6. LeftOf(t, l) \in Int /\ Received[l] <= LeftOf(t, l) + t.want[l] + taken[l]
  BY <1>4, <1>5 DEF LeftOf
<1>7. LeftOK(u)
  BY <1>1, <1>2, <1>4, <1>6 DEF Honest, LeftOK
<1>8. ReadOK(u) /\ Receipt(u) /\ OnlyTakers(u)
  BY <1>1, <1>2, <1>3 DEF Honest, ReadOK, Receipt, OnlyTakers, TakesStock
<1>9. Honest(u)
  BY <1>1, <1>2, <1>7, <1>8 DEF Honest
<1>. QED
  BY <1>9, NothingCommitted DEF WriteLot, Step

-----------------------------------------------------------------------------
(* A commit.                                                               *)
LEMMA CommitOK ==
    ASSUME IInv, NEW c \in Clerks, Commit(c)
    PROVE  IInv'
<1> DEFINE t == tx[c]
<1>1. Honest(t)
  BY OpenIsHonest DEF Commit
<1>2. \A l \in DOMAIN t.want : l \in Lots /\ t.want[l] \in Nat
  BY <1>1, TakingsAreNumbers DEF Honest
<1>3. \A l \in Lots : /\ taken'[l] = IF Takes(t, l) THEN taken[l] + t.want[l] ELSE taken[l]
                      /\ available'[l] = IF l \in DOMAIN t.left THEN t.left[l] ELSE available[l]
  BY DEF Commit
<1>4. \A l \in Lots : taken[l] \in Nat /\ taken'[l] \in Nat /\ taken[l] <= taken'[l]
  BY <1>2, <1>3 DEF IInv, TablesOK, Takes
<1>5. TablesOK'
  <2>1. lots' \subseteq Lots
    BY <1>2 DEF Commit, IInv, TablesOK
  <2>2. available' \in [Lots -> Int]
    <3>1. \A l \in Lots : available'[l] \in Int
      BY <1>1, <1>3 DEF Honest, LeftOK, IInv, TablesOK
    <3>. QED
      BY <3>1 DEF Commit
  <2>3. taken' \in [Lots -> Nat]
    BY <1>4 DEF Commit
  <2>4. \A r \in DOMAIN requests' : IsRequest(requests'[r])
    <3>1. t.op = "request" => IsRequest([want |-> t.want, status |-> "PENDING"])
      BY <1>1 DEF Honest, IsRequest
    <3>2. requests' = RequestsAfter(t)
      BY DEF Commit
    <3>3. \A r \in DOMAIN requests : IsRequest(requests[r])
      BY DEF IInv, TablesOK
    <3>4. CASE t.op = "resolve"
      <4>1. ASSUME NEW q, IsRequest(q), NEW verdict
            PROVE  IsRequest([q EXCEPT !.status = verdict])
        BY <4>1 DEF IsRequest
      <4>2. requests' = [requests EXCEPT ![t.request] =
                           [requests[t.request] EXCEPT !.status = t.verdict]]
        BY <3>2, <3>4 DEF RequestsAfter
      <4>. QED
        BY <3>3, <4>1, <4>2, Zenon
    <3>5. CASE t.op = "request"
      BY <3>1, <3>2, <3>3, <3>5 DEF RequestsAfter
    <3>6. CASE t.op \notin {"resolve", "request"}
      BY <3>2, <3>3, <3>6 DEF RequestsAfter
    <3>. QED
      BY <3>4, <3>5, <3>6
  <2>5. tx' \in [Clerks -> {tx'[d] : d \in Clerks}]
    BY DEF Commit, IInv, TablesOK
  <2>. QED
    BY <2>1, <2>2, <2>3, <2>4, <2>5 DEF TablesOK
<1>6. ASSUME NEW d \in Clerks
      PROVE  (tx[d] = Idle \/ Honest(tx[d]))'
  <2>1. tx'[d] = IF d = c THEN Idle ELSE tx[d]
    BY DEF Commit, IInv, TablesOK
  <2>2. CASE tx'[d] = Idle
    BY <2>2
  <2>3. CASE tx'[d] = tx[d] /\ Honest(tx[d])
    <3> DEFINE u == tx[d]
    <3>1. \A l \in DOMAIN u.want : l \in Lots
      BY <2>3, TakingsAreNumbers DEF Honest
    <3>2. \A l \in DOMAIN u.want : Received[l] \in Nat /\ u.want[l] \in Nat
      BY <2>3, <3>1, TakingsAreNumbers, StockAssumption DEF Honest
    <3>3. \A l \in DOMAIN u.read : /\ l \in DOMAIN u.want
                                   /\ u.read[l] \in Int
                                   /\ Received[l] <= u.read[l] + taken'[l]
      BY <2>3, <3>1, <3>2, <1>4 DEF Honest, ReadOK
    <3>4. \A l \in DOMAIN u.left : /\ l \in DOMAIN u.want
                                   /\ u.left[l] \in Int
                                   /\ Received[l] <= u.left[l] + u.want[l] + taken'[l]
      <4>1. \A l \in DOMAIN u.left :
              /\ l \in DOMAIN u.want /\ u.left[l] \in Int
              /\ Received[l] <= u.left[l] + u.want[l] + taken[l]
        BY <2>3 DEF Honest, LeftOK
      <4>. QED
        BY <3>1, <3>2, <1>4, <4>1
    <3>. QED
      BY <2>3, <3>3, <3>4 DEF Honest, ReadOK, LeftOK, Receipt, OnlyTakers, TakesStock
  <2>. QED
    BY <2>1, <2>2, <2>3 DEF IInv
<1>7. NeverUnderstated'
  <2>1. ASSUME NEW l \in Lots, l \in DOMAIN t.left
        PROVE  Received[l] <= available'[l] + taken'[l]
    <3>1. available'[l] = t.left[l] /\ t.left[l] \in Int /\ l \in DOMAIN t.want
      BY <1>1, <1>3, <2>1 DEF Honest, LeftOK
    <3>2. CASE t.op = "receive"
      BY <1>1, <1>4, <2>1, <3>1, <3>2, StockAssumption DEF Honest, Receipt
    <3>3. CASE t.op # "receive"
      <4>1. taken'[l] = taken[l] + t.want[l]
        BY <1>1, <1>3, <2>1, <3>1, <3>3 DEF Honest, OnlyTakers, Takes
      <4>2. Received[l] <= t.left[l] + t.want[l] + taken[l]
        BY <1>1, <2>1 DEF Honest, LeftOK
      <4>. QED
        BY <1>2, <1>4, <3>1, <4>1, <4>2, StockAssumption
    <3>. QED
      BY <3>2, <3>3
  <2>2. ASSUME NEW l \in Lots, l \in DOMAIN t.left, isActive'[l]
        PROVE  available'[l] > 0
    <3>1. available'[l] = t.left[l]
      BY <1>3, <2>2
    <3>2. isActive'[l] = ActiveAfter(t, l)
      BY DEF Commit
    <3>3. t.op = "receive" \/ t.left[l] > 0
      BY <2>2, <3>2, Zenon DEF ActiveAfter
    <3>4. t.op = "receive" => t.left[l] > 0
      BY <1>1, <2>2, StockAssumption DEF Honest, Receipt
    <3>. QED
      BY <3>1, <3>3, <3>4
  <2>3. ASSUME NEW l \in lots, l \notin DOMAIN t.left
        PROVE  Received[l] <= available'[l] + taken'[l]
    <3>1. l \in Lots /\ available'[l] = available[l]
      BY <1>3, <2>3 DEF IInv, TablesOK
    <3>. QED
      BY <1>4, <2>3, <3>1, StockAssumption DEF IInv, TablesOK, NeverUnderstated
  <2>4. ASSUME NEW l \in lots, l \notin DOMAIN t.left, isActive'[l]
        PROVE  available'[l] > 0
    <3>1. l \in Lots /\ available'[l] = available[l]
      BY <1>3, <2>4 DEF IInv, TablesOK
    <3>2. isActive'[l] = ActiveAfter(t, l)
      BY <3>1 DEF Commit
    <3>3. isActive[l]
      BY <2>4, <3>2, Zenon DEF ActiveAfter
    <3>. QED
      BY <3>1, <3>3 DEF IInv, NeverUnderstated
  <2>5. ASSUME NEW l \in lots', l \notin lots
        PROVE  l \in Lots /\ l \in DOMAIN t.left
    BY <1>1, <1>2, <2>5 DEF Commit, Honest, Receipt
  <2>6. lots \subseteq Lots
    BY DEF IInv, TablesOK
  <2>. QED
    BY <2>1, <2>2, <2>3, <2>4, <2>5, <2>6 DEF NeverUnderstated
<1>. QED
  BY <1>5, <1>6, <1>7 DEF IInv

-----------------------------------------------------------------------------
(* The covered lots at the start.                                          *)
LEMMA InitOK == Init => IInv
<1> SUFFICES ASSUME Init PROVE IInv
  OBVIOUS
<1>1. TablesOK
  BY StockAssumption DEF Init, TablesOK
<1>2. NeverUnderstated
  BY StockAssumption DEF Init, NeverUnderstated
<1>. QED
  BY <1>1, <1>2 DEF Init, IInv

(* And after every step.                                                   *)
LEMMA StepOK == IInv /\ [Next]_vars => IInv'
<1> SUFFICES ASSUME IInv, [Next]_vars PROVE IInv'
  OBVIOUS
<1>1. CASE UNCHANGED vars
  BY <1>1 DEF IInv, TablesOK, NeverUnderstated, Honest, ReadOK, LeftOK, Receipt,
              OnlyTakers, TakesStock, vars
<1>2. CASE Next
  <2>1. PICK c \in Clerks :
          \/ \E l \in Lots : Receive(c, l)
          \/ \E op \in {"consume", "dispose"}, want \in Wants : TakeLots(c, op, want)
          \/ \E want \in Wants : ConsumeFifo(c, want)
          \/ \E want \in Wants : AskDisposal(c, want)
          \/ \E r \in DOMAIN requests, verdict \in {"APPROVED", "REJECTED"} :
                 StartResolve(c, r, verdict)
          \/ \E l \in Lots : ReadLot(c, l)
          \/ \E l \in Lots : WriteLot(c, l)
          \/ Commit(c)
          \/ Claim(c)
          \/ \E l \in Lots : WriteFlag(c, l)
          \/ \E m \in Materials : ReadStock(c, m) \/ WriteStock(c, m)
          \/ Rollback(c)
    BY <1>2, Zenon DEF Next
  <2>2. CASE \E l \in Lots : Receive(c, l)
    BY <2>2, ReceiveOK
  <2>3. CASE \E op \in {"consume", "dispose"}, want \in Wants : TakeLots(c, op, want)
    BY <2>3, TakeLotsOK
  <2>4. CASE \E want \in Wants : ConsumeFifo(c, want)
    BY <2>4, ConsumeFifoOK
  <2>5. CASE \E want \in Wants : AskDisposal(c, want)
    BY <2>5, AskDisposalOK
  <2>6. CASE \E r \in DOMAIN requests, verdict \in {"APPROVED", "REJECTED"} :
                 StartResolve(c, r, verdict)
    BY <2>6, StartResolveOK
  <2>7. CASE \E l \in Lots : ReadLot(c, l)
    BY <2>7, ReadLotOK
  <2>8. CASE \E l \in Lots : WriteLot(c, l)
    BY <2>8, WriteLotOK
  <2>9. CASE Commit(c)
    BY <2>9, CommitOK
  <2>10. CASE \/ Claim(c)
              \/ \E l \in Lots : WriteFlag(c, l)
              \/ \E m \in Materials : ReadStock(c, m) \/ WriteStock(c, m)
              \/ Rollback(c)
    BY <2>10, OtherStepsOK
  <2>. QED
    BY <2>1, <2>2, <2>3, <2>4, <2>5, <2>6, <2>7, <2>8, <2>9, <2>10
<1>. QED
  BY <1>1, <1>2

(* Whatever transactions of the warehouse overlap, a lot holds at least    *)
(* what it brought minus what was taken, and an active lot has stock.      *)
THEOREM StockIsCovered == Spec => []NeverUnderstated
<1>1. IInv => NeverUnderstated
  BY DEF IInv
<1>. QED
  BY InitOK, StepOK, <1>1, PTL DEF Spec

-----------------------------------------------------------------------------
(* What the tables and each open transaction hold, overlapping or not.     *)

(* A receipt brings one lot.  Any other transaction takes no more of a lot *)
(* than it read, and saves what it read minus what it takes.               *)
IsReceipt(t) ==
    /\ \E l \in Lots : t.want = [k \in {l} |-> Received[l]]
    /\ t.left = t.want
    /\ DOMAIN t.read = {}
IsTaking(t) ==
    /\ t.want \in Wants
    /\ DOMAIN t.read \subseteq DOMAIN t.want
    /\ \A l \in DOMAIN t.read : t.read[l] \in Nat /\ t.want[l] <= t.read[l]
    /\ DOMAIN t.left \subseteq DOMAIN t.read
    /\ \A l \in DOMAIN t.left : t.left[l] = t.read[l] - t.want[l]
LotsPart(t) == IF t.op = "receive" THEN IsReceipt(t) ELSE IsTaking(t)

(* A request freezes its lots; a resolution decides what to thaw when it   *)
(* claims its request.                                                     *)
FlagsPart(t) ==
    /\ t.flagged \subseteq t.flags /\ t.flags \subseteq DOMAIN t.want
    /\ t.op = "request" => t.flags = DOMAIN t.want
    /\ t.op # "request" /\ t.op # "resolve" => t.flags = {}
    /\ ~t.claimed => t.op = "resolve" /\ t.flags = {}

(* The consolidated balances come after the lots.                          *)
StockPart(t) ==
    /\ DOMAIN t.stockLeft \subseteq DOMAIN t.stockRead
    /\ DOMAIN t.stockRead \subseteq MaterialsOf(t)
    /\ DOMAIN t.stockRead # {} => LotsDone(t) /\ TakesStock(t)
    /\ \A m \in DOMAIN t.stockRead : t.stockRead[m] \in Nat
    /\ \A m \in DOMAIN t.stockLeft : t.stockLeft[m] = StockAfter(t, m)

RequestPart(t) ==
    t.op = "resolve" => /\ t.request \in DOMAIN requests
                        /\ t.want = requests[t.request].want
                        /\ t.verdict \in {"APPROVED", "REJECTED"}

WellFormed(t) == LotsPart(t) /\ FlagsPart(t) /\ StockPart(t) /\ RequestPart(t)

(* Requests are numbered from 1; nothing was done to a lot before it was   *)
(* received.                                                               *)
Tables ==
    /\ TypeOK
    /\ \E n \in Nat : DOMAIN requests = 1..n
    /\ \A l \in Lots \ lots : ~isActive[l] /\ ~isFrozen[l] /\ taken[l] = 0
    /\ \A c \in Clerks : IsOpen(c) => WellFormed(tx[c])

-----------------------------------------------------------------------------
(* A request asks for some lots that were received, something of each.     *)
LEMMA WantIsOfLots ==
    ASSUME NEW want \in Wants, lots \subseteq Lots
    PROVE  /\ DOMAIN want \subseteq lots
           /\ DOMAIN want # {}
           /\ \A l \in DOMAIN want : want[l] \in Nat /\ want[l] > 0
<1>1. PICK S \in (SUBSET lots) \ {{}} : want \in [S -> 1..MaxQuantity]
  BY DEF Wants
<1>. QED
  BY <1>1, StockAssumption

(* Any set of lots is finite.                                              *)
LEMMA LotsAreFinite == ASSUME NEW S, S \subseteq Lots PROVE IsFiniteSet(S)
<1>1. IsFiniteSet(1..NumLots)
  BY FS_Interval, StockAssumption
<1>. QED
  BY <1>1, FS_Subset DEF Lots

(* What a transaction takes of a material is a natural.                    *)
LEMMA DebitIsNat ==
    ASSUME NEW t, t.want \in Takings, NEW m
    PROVE  Debit(t, m) \in Nat
<1> DEFINE S == {l \in DOMAIN t.want : MaterialOf[l] = m}
<1>1. IsFiniteSet(S)
  BY TakingsAreNumbers, LotsAreFinite
<1>2. \A l \in S : t.want[l] \in Nat
  BY TakingsAreNumbers
<1>. QED
  BY <1>1, <1>2, TotalNat DEF Debit

(* A subtraction that stops at zero.                                       *)
LEMMA LessIsNat == ASSUME NEW a \in Nat, NEW b \in Nat PROVE Less(a, b) \in Nat
BY DEF Less

(* A step that commits nothing leaves the tables to its transaction.       *)
LEMMA TablesKept ==
    ASSUME IInv, Tables, NEW c \in Clerks, NEW t,
           tx' = [tx EXCEPT ![c] = t], UNCHANGED tables, apart' \in BOOLEAN,
           t = Idle \/ WellFormed(t)
    PROVE  Tables'
<1>1. TypeOK'
  BY DEF Tables, TypeOK, tables, Wants
<1>2. ASSUME NEW d \in Clerks, tx'[d] # Idle
      PROVE  WellFormed(tx[d])'
  <2>1. tx'[d] = IF d = c THEN t ELSE tx[d]
    BY DEF IInv, TablesOK
  <2>2. WellFormed(tx'[d])
    BY <1>2, <2>1 DEF Tables, IsOpen
  <2>. QED
    BY <2>2 DEF WellFormed, LotsPart, IsReceipt, IsTaking, Wants, FlagsPart, StockPart,
                LotsDone, FlagsDone, TakesStock, StockAfter, MaterialsOf, RequestPart, tables
<1>3. /\ (\E n \in Nat : DOMAIN requests = 1..n)'
      /\ (\A l \in Lots \ lots : ~isActive[l] /\ ~isFrozen[l] /\ taken[l] = 0)'
  BY DEF Tables, tables
<1>. QED
  BY <1>1, <1>2, <1>3 DEF Tables, IsOpen

(* An open transaction is well-formed.                                     *)
LEMMA OpenIsWellFormed ==
    ASSUME IInv, Tables, NEW c \in Clerks, IsOpen(c)
    PROVE  WellFormed(tx[c])
BY DEF Tables

(* Whether transactions were apart so far is a Boolean: when one opens,    *)
LEMMA OpenApart ==
    ASSUME Tables, NEW c \in Clerks, NEW t, Open(c, t)
    PROVE  apart' \in BOOLEAN
BY DEF Open, Tables, TypeOK

(* and when one takes a step.                                              *)
LEMMA StepApart ==
    ASSUME Tables, NEW c \in Clerks, NEW t, Step(c, t)
    PROVE  apart' \in BOOLEAN
BY DEF Step, Tables, TypeOK

(* A transaction that was opened to take, freeze or resolve.               *)
LEMMA FreshIsWellFormed ==
    ASSUME NEW t, t.op # "receive", t.want \in Wants,
           t.flags = (IF t.op = "request" THEN DOMAIN t.want ELSE {}), t.flagged = {},
           t.claimed \/ t.op = "resolve",
           DOMAIN t.read \subseteq DOMAIN t.want,
           \A l \in DOMAIN t.read : t.read[l] \in Nat /\ t.want[l] <= t.read[l],
           DOMAIN t.left = {}, DOMAIN t.stockRead = {}, DOMAIN t.stockLeft = {},
           RequestPart(t)
    PROVE  WellFormed(t)
<1>1. LotsPart(t)
  BY DEF LotsPart, IsTaking
<1>2. FlagsPart(t)
  BY DEF FlagsPart
<1>3. StockPart(t)
  BY DEF StockPart
<1>. QED
  BY <1>1, <1>2, <1>3 DEF WellFormed

(* The transactions that are opened keep the tables.                       *)
LEMMA OpeningsKeepTables ==
    ASSUME IInv, Tables, NEW c \in Clerks
    PROVE  /\ \A l \in Lots : Receive(c, l) => Tables'
           /\ \A op \in {"consume", "dispose"}, want \in Wants : TakeLots(c, op, want) => Tables'
           /\ \A want \in Wants : ConsumeFifo(c, want) => Tables'
           /\ \A want \in Wants : AskDisposal(c, want) => Tables'
           /\ \A r \in DOMAIN requests, verdict \in {"APPROVED", "REJECTED"} :
                 StartResolve(c, r, verdict) => Tables'
<1>1. ASSUME NEW l \in Lots, Receive(c, l)
      PROVE  Tables'
  <2> DEFINE want == [k \in {l} |-> Received[l]]
             t == [Transaction("receive", want) EXCEPT !.left = want]
  <2>1. Open(c, t)
    BY <1>1 DEF Receive
  <2>2. /\ t.op = "receive" /\ t.want = want /\ t.left = want /\ DOMAIN t.read = {}
        /\ t.flags = {} /\ t.flagged = {} /\ t.claimed
        /\ DOMAIN t.stockRead = {} /\ DOMAIN t.stockLeft = {}
    BY DEF Transaction, Nothing
  <2>3. WellFormed(t)
    <3>. HIDE DEF t
    <3>. QED
      BY <2>2 DEF WellFormed, LotsPart, IsReceipt, FlagsPart, StockPart, RequestPart
  <2>. HIDE DEF t
  <2>. QED
    BY <2>1, <2>3, OpenApart, TablesKept DEF Open
<1>2. ASSUME NEW op \in {"consume", "dispose"}, NEW want \in Wants, TakeLots(c, op, want)
      PROVE  Tables'
  <2> DEFINE t == Transaction(op, want)
  <2>1. /\ t.op = op /\ t.want = want /\ t.flags = {} /\ t.flagged = {}
        /\ t.claimed /\ DOMAIN t.read = {} /\ DOMAIN t.left = {}
        /\ DOMAIN t.stockRead = {} /\ DOMAIN t.stockLeft = {}
    BY DEF Transaction, Nothing
  <2>2. Open(c, t)
    BY <1>2 DEF TakeLots
  <2>. HIDE DEF t
  <2>3. WellFormed(t)
    BY <2>1, FreshIsWellFormed DEF RequestPart
  <2>. QED
    BY <2>2, <2>3, OpenApart, TablesKept DEF Open
<1>3. ASSUME NEW want \in Wants, ConsumeFifo(c, want)
      PROVE  Tables'
  <2> DEFINE read == [l \in DOMAIN want |-> available[l]]
             t == [Transaction("consume", want) EXCEPT !.read = read]
  <2>1. \A l \in DOMAIN read : read[l] \in Nat /\ want[l] <= read[l]
    BY <1>3, WantIsOfLots DEF ConsumeFifo, Usable, Tables, TypeOK
  <2>2. DOMAIN read \subseteq DOMAIN want
    OBVIOUS
  <2>3. /\ t.op = "consume" /\ t.want = want /\ t.flags = {} /\ t.flagged = {}
        /\ t.claimed /\ t.read = read /\ DOMAIN t.left = {}
        /\ DOMAIN t.stockRead = {} /\ DOMAIN t.stockLeft = {}
    BY DEF Transaction, Nothing
  <2>4. Open(c, t)
    BY <1>3 DEF ConsumeFifo
  <2>. HIDE DEF t, read
  <2>5. WellFormed(t)
    BY <2>1, <2>2, <2>3, FreshIsWellFormed DEF RequestPart
  <2>. QED
    BY <2>4, <2>5, OpenApart, TablesKept DEF Open
<1>4. ASSUME NEW want \in Wants, AskDisposal(c, want)
      PROVE  Tables'
  <2> DEFINE t == [Transaction("request", want) EXCEPT !.flags = DOMAIN want]
  <2>1. /\ t.op = "request" /\ t.want = want /\ t.flags = DOMAIN want /\ t.flagged = {}
        /\ t.claimed /\ DOMAIN t.read = {} /\ DOMAIN t.left = {}
        /\ DOMAIN t.stockRead = {} /\ DOMAIN t.stockLeft = {}
    BY DEF Transaction, Nothing
  <2>2. Open(c, t)
    BY <1>4 DEF AskDisposal
  <2>. HIDE DEF t
  <2>4. WellFormed(t)
    BY <2>1, FreshIsWellFormed DEF RequestPart
  <2>. QED
    BY <2>2, <2>4, OpenApart, TablesKept DEF Open
<1>5. ASSUME NEW r \in DOMAIN requests, NEW verdict \in {"APPROVED", "REJECTED"},
             StartResolve(c, r, verdict)
      PROVE  Tables'
  <2> DEFINE want == requests[r].want
             t == [Transaction("resolve", want) EXCEPT
                     !.request = r, !.verdict = verdict, !.claimed = FALSE]
  <2>1. /\ t.op = "resolve" /\ t.want = want /\ t.flags = {} /\ t.flagged = {}
        /\ t.request = r /\ t.verdict = verdict
        /\ DOMAIN t.read = {} /\ DOMAIN t.left = {}
        /\ DOMAIN t.stockRead = {} /\ DOMAIN t.stockLeft = {}
    BY DEF Transaction, Nothing
  <2>2. Open(c, t)
    BY <1>5 DEF StartResolve
  <2>3. want \in Wants
    BY DEF Tables, TypeOK
  <2>. HIDE DEF t
  <2>4. WellFormed(t)
    BY <2>1, <2>3, FreshIsWellFormed DEF RequestPart
  <2>. QED
    BY <2>2, <2>4, OpenApart, TablesKept DEF Open
<1>. QED
  BY <1>1, <1>2, <1>3, <1>4, <1>5

(* The fields of a transaction that a step rewrote.                        *)
LEMMA StepsKeepTables ==
    ASSUME IInv, Tables, NEW c \in Clerks
    PROVE  /\ Claim(c) => Tables'
           /\ \A l \in Lots : WriteFlag(c, l) \/ ReadLot(c, l) \/ WriteLot(c, l) => Tables'
           /\ \A m \in Materials : ReadStock(c, m) \/ WriteStock(c, m) => Tables'
           /\ Rollback(c) => Tables'
<1> DEFINE t == tx[c]
<1> SUFFICES ASSUME IsOpen(c)
             PROVE  /\ Claim(c) => Tables'
                    /\ \A l \in Lots : WriteFlag(c, l) \/ ReadLot(c, l) \/ WriteLot(c, l) => Tables'
                    /\ \A m \in Materials : ReadStock(c, m) \/ WriteStock(c, m) => Tables'
                    /\ Rollback(c) => Tables'
  BY DEF Claim, WriteFlag, ReadLot, WriteLot, ReadStock, WriteStock, Rollback
<1>1. /\ Honest(t) /\ t = [column \in Columns |-> t[column]] /\ t.want \in Takings
  BY OpenIsHonest DEF Honest
<1>2. WellFormed(t) /\ LotsPart(t) /\ FlagsPart(t) /\ StockPart(t) /\ RequestPart(t)
  BY OpenIsWellFormed DEF WellFormed
<1>3. /\ lots \subseteq Lots /\ available \in [Lots -> Nat] /\ inventory \in [Materials -> Nat]
  BY DEF Tables, TypeOK
<1>. HIDE DEF t
<1>4. ASSUME NEW u, Step(c, u), WellFormed(u)
      PROVE  Tables'
  BY <1>4, StepApart, TablesKept DEF Step
<1>5. ASSUME Claim(c)
      PROVE  Tables'
  <2> DEFINE flags == {l \in DOMAIN t.want : isFrozen[l]}
             u == [t EXCEPT !.claimed = TRUE, !.flags = flags]
  <2>1. Step(c, u) /\ ~t.claimed
    BY <1>5 DEF Claim, t
  <2>2. /\ u.op = t.op /\ u.want = t.want /\ u.request = t.request /\ u.verdict = t.verdict
        /\ u.claimed /\ u.flags = flags /\ u.flagged = t.flagged /\ u.read = t.read
        /\ u.left = t.left /\ u.stockRead = t.stockRead /\ u.stockLeft = t.stockLeft
    BY <1>1 DEF Columns
  <2>3. flags \subseteq DOMAIN t.want
    OBVIOUS
  <2>. HIDE DEF u, flags
  <2>4. t.flagged = {} /\ t.op = "resolve"
    BY <1>2, <2>1 DEF FlagsPart
  <2>5. DOMAIN t.stockRead = {} /\ DOMAIN t.stockLeft = {}
    BY <1>2, <2>1 DEF StockPart, LotsDone, FlagsDone
  <2>. QED
    BY <1>2, <1>4, <2>1, <2>2, <2>3, <2>4, <2>5
       DEF WellFormed, LotsPart, IsReceipt, IsTaking, FlagsPart, StockPart, RequestPart
<1>6. ASSUME NEW l \in Lots, WriteFlag(c, l)
      PROVE  Tables'
  <2> DEFINE u == [t EXCEPT !.flagged = @ \cup {l}]
  <2>1. Step(c, u) /\ l \in t.flags
    BY <1>6 DEF WriteFlag, t
  <2>2. /\ u.op = t.op /\ u.want = t.want /\ u.request = t.request /\ u.verdict = t.verdict
        /\ u.claimed = t.claimed /\ u.flags = t.flags /\ u.flagged = t.flagged \cup {l}
        /\ u.read = t.read /\ u.left = t.left
        /\ u.stockRead = t.stockRead /\ u.stockLeft = t.stockLeft
    BY <1>1 DEF Columns
  <2>. HIDE DEF u
  <2>3. LotsPart(u) /\ RequestPart(u)
    BY <1>2, <2>2 DEF LotsPart, IsReceipt, IsTaking, RequestPart
  <2>4. FlagsPart(u)
    BY <1>2, <2>1, <2>2 DEF FlagsPart
  <2>5. StockPart(u)
    BY <1>2, <2>2 DEF StockPart, LotsDone, FlagsDone, TakesStock, MaterialsOf, StockAfter, Debit
  <2>. QED
    BY <1>4, <2>1, <2>3, <2>4, <2>5 DEF WellFormed
<1>7. ASSUME NEW l \in Lots, ReadLot(c, l)
      PROVE  Tables'
  <2> DEFINE read == [k \in DOMAIN t.read \cup {l} |-> IF k = l THEN available[l] ELSE t.read[k]]
             u == [t EXCEPT !.read = read]
  <2>1. /\ Step(c, u)
        /\ l \in DOMAIN t.want /\ l \notin DOMAIN t.left /\ t.want[l] <= available[l]
        /\ DOMAIN t.read \subseteq DOMAIN t.left
    BY <1>7 DEF ReadLot, MayTake, t
  <2>2. /\ u.op = t.op /\ u.want = t.want /\ u.request = t.request /\ u.verdict = t.verdict
        /\ u.claimed = t.claimed /\ u.flags = t.flags /\ u.flagged = t.flagged
        /\ u.read = read /\ u.left = t.left
        /\ u.stockRead = t.stockRead /\ u.stockLeft = t.stockLeft
    BY <1>1 DEF Columns
  <2>. HIDE DEF u
  <2>3. t.op # "receive" /\ IsTaking(t)
    BY <1>2, <2>1 DEF LotsPart, IsReceipt
  <2>4. IsTaking(u)
    BY <1>3, <2>1, <2>2, <2>3 DEF IsTaking
  <2>5. DOMAIN t.stockRead = {} /\ DOMAIN t.stockLeft = {}
    BY <1>2, <2>1 DEF StockPart, LotsDone
  <2>6. FlagsPart(u) /\ RequestPart(u) /\ StockPart(u)
    BY <1>2, <2>2, <2>5 DEF FlagsPart, RequestPart, StockPart
  <2>. QED
    BY <1>4, <2>1, <2>2, <2>3, <2>4, <2>6 DEF WellFormed, LotsPart
<1>8. ASSUME NEW l \in Lots, WriteLot(c, l)
      PROVE  Tables'
  <2> DEFINE left == [k \in DOMAIN t.left \cup {l} |-> IF k = l THEN LeftOf(t, l) ELSE t.left[k]]
             u == [t EXCEPT !.left = left]
  <2>1. /\ Step(c, u)
        /\ l \in DOMAIN t.read /\ l \notin DOMAIN t.left
    BY <1>8 DEF WriteLot, t
  <2>2. /\ u.op = t.op /\ u.want = t.want /\ u.request = t.request /\ u.verdict = t.verdict
        /\ u.claimed = t.claimed /\ u.flags = t.flags /\ u.flagged = t.flagged
        /\ u.read = t.read /\ u.left = left
        /\ u.stockRead = t.stockRead /\ u.stockLeft = t.stockLeft
    BY <1>1 DEF Columns
  <2>. HIDE DEF u
  <2>3. t.op # "receive" /\ IsTaking(t)
    BY <1>2, <2>1 DEF LotsPart, IsReceipt
  <2>4. IsTaking(u)
    BY <2>1, <2>2, <2>3 DEF IsTaking, LeftOf
  <2>5. DOMAIN t.stockRead = {} /\ DOMAIN t.stockLeft = {}
    BY <1>2, <2>1, <2>3 DEF StockPart, LotsDone, IsTaking
  <2>6. FlagsPart(u) /\ RequestPart(u) /\ StockPart(u)
    BY <1>2, <2>2, <2>5 DEF FlagsPart, RequestPart, StockPart
  <2>. QED
    BY <1>4, <2>1, <2>2, <2>3, <2>4, <2>6 DEF WellFormed, LotsPart
<1>9. ASSUME NEW m \in Materials, ReadStock(c, m)
      PROVE  Tables'
  <2> DEFINE read == [k \in DOMAIN t.stockRead \cup {m} |->
                        IF k = m THEN inventory[m] ELSE t.stockRead[k]]
             u == [t EXCEPT !.stockRead = read]
  <2>1. /\ Step(c, u) /\ TakesStock(t) /\ LotsDone(t)
        /\ m \in MaterialsOf(t) /\ m \notin DOMAIN t.stockRead
    BY <1>9 DEF ReadStock, t
  <2>2. /\ u.op = t.op /\ u.want = t.want /\ u.request = t.request /\ u.verdict = t.verdict
        /\ u.claimed = t.claimed /\ u.flags = t.flags /\ u.flagged = t.flagged
        /\ u.read = t.read /\ u.left = t.left
        /\ u.stockRead = read /\ u.stockLeft = t.stockLeft
    BY <1>1 DEF Columns
  <2>. HIDE DEF u
  <2>3. LotsPart(u) /\ FlagsPart(u) /\ RequestPart(u)
    BY <1>2, <2>2 DEF LotsPart, IsReceipt, IsTaking, FlagsPart, RequestPart
  <2>4. LotsDone(u) /\ TakesStock(u) /\ MaterialsOf(u) = MaterialsOf(t)
    BY <2>1, <2>2 DEF LotsDone, FlagsDone, TakesStock, MaterialsOf
  <2>5. /\ DOMAIN t.stockLeft \subseteq DOMAIN t.stockRead
        /\ DOMAIN t.stockRead \subseteq MaterialsOf(t)
        /\ \A k \in DOMAIN t.stockRead : t.stockRead[k] \in Nat
    BY <1>2 DEF StockPart
  <2>6. ASSUME NEW k \in DOMAIN t.stockLeft
        PROVE  u.stockLeft[k] = StockAfter(u, k)
    <3>1. t.stockLeft[k] = StockAfter(t, k)
      BY <1>2 DEF StockPart
    <3>2. u.stockRead[k] = t.stockRead[k]
      BY <2>1, <2>2, <2>5
    <3>. QED
      BY <2>2, <3>1, <3>2 DEF StockAfter, Debit
  <2>7. \A k \in DOMAIN u.stockRead : u.stockRead[k] \in Nat
    BY <1>3, <2>2, <2>5
  <2>8. StockPart(u)
    BY <2>1, <2>2, <2>4, <2>5, <2>6, <2>7 DEF StockPart
  <2>. QED
    BY <1>4, <2>1, <2>3, <2>8 DEF WellFormed
<1>10. ASSUME NEW m \in Materials, WriteStock(c, m)
      PROVE  Tables'
  <2> DEFINE left == [k \in DOMAIN t.stockLeft \cup {m} |->
                        IF k = m THEN StockAfter(t, m) ELSE t.stockLeft[k]]
             u == [t EXCEPT !.stockLeft = left]
  <2>1. /\ Step(c, u)
        /\ m \in DOMAIN t.stockRead /\ m \notin DOMAIN t.stockLeft
    BY <1>10 DEF WriteStock, t
  <2>2. /\ u.op = t.op /\ u.want = t.want /\ u.request = t.request /\ u.verdict = t.verdict
        /\ u.claimed = t.claimed /\ u.flags = t.flags /\ u.flagged = t.flagged
        /\ u.read = t.read /\ u.left = t.left
        /\ u.stockRead = t.stockRead /\ u.stockLeft = left
    BY <1>1 DEF Columns
  <2>. HIDE DEF u
  <2>3. LotsPart(u) /\ FlagsPart(u) /\ RequestPart(u)
    BY <1>2, <2>2 DEF LotsPart, IsReceipt, IsTaking, FlagsPart, RequestPart
  <2>4. /\ LotsDone(u) <=> LotsDone(t)
        /\ TakesStock(u) <=> TakesStock(t)
        /\ MaterialsOf(u) = MaterialsOf(t)
    BY <2>2 DEF LotsDone, FlagsDone, TakesStock, MaterialsOf
  <2>5. ASSUME NEW k
        PROVE  StockAfter(u, k) = StockAfter(t, k)
    BY <2>2 DEF StockAfter, Debit
  <2>6. \A k \in DOMAIN u.stockLeft : u.stockLeft[k] = StockAfter(u, k)
    <3>1. \A k \in DOMAIN t.stockLeft : t.stockLeft[k] = StockAfter(t, k)
      BY <1>2 DEF StockPart
    <3>. QED
      BY <2>2, <2>5, <3>1
  <2>7. StockPart(u)
    BY <1>2, <2>1, <2>2, <2>4, <2>6 DEF StockPart
  <2>. QED
    BY <1>4, <2>1, <2>3, <2>7 DEF WellFormed
<1>11. ASSUME Rollback(c)
      PROVE  Tables'
  BY <1>11, StepApart, TablesKept DEF Rollback, Step
<1>. QED
  BY <1>5, <1>6, <1>7, <1>8, <1>9, <1>10, <1>11

(* What a transaction saves, when it commits.                              *)
LEMMA SavedIsNat ==
    ASSUME IInv, Tables, NEW c \in Clerks, IsOpen(c)
    PROVE  /\ \A l \in DOMAIN tx[c].left : tx[c].left[l] \in Nat
           /\ \A m \in DOMAIN tx[c].stockLeft : tx[c].stockLeft[m] \in Nat
           /\ DOMAIN tx[c].left \subseteq DOMAIN tx[c].want
           /\ DOMAIN tx[c].want \subseteq Lots
           /\ \A l \in DOMAIN tx[c].want : tx[c].want[l] \in Nat /\ tx[c].want[l] > 0
           /\ tx[c].op # "receive" => DOMAIN tx[c].want \subseteq lots
           /\ DOMAIN tx[c].want # {}
<1> DEFINE t == tx[c]
<1>1. t.want \in Takings
  BY OpenIsHonest DEF Honest
<1>2. LotsPart(t) /\ StockPart(t)
  BY OpenIsWellFormed DEF WellFormed
<1>. HIDE DEF t
<1>3. \A m : Debit(t, m) \in Nat
  BY <1>1, DebitIsNat
<1>4. \A m \in DOMAIN t.stockLeft : t.stockLeft[m] \in Nat
  <2>1. ASSUME NEW m \in DOMAIN t.stockLeft
        PROVE  t.stockLeft[m] \in Nat
    <3>1. t.stockLeft[m] = StockAfter(t, m) /\ t.stockRead[m] \in Nat
      BY <1>2 DEF StockPart
    <3> DEFINE before == t.stockRead[m]
               debit == Debit(t, m)
    <3>2. before \in Nat /\ debit \in Nat
      BY <1>3, <3>1
    <3>3. before + debit \in Nat /\ Less(before, debit) \in Nat
      <4>. HIDE DEF before, debit
      <4>. QED
        BY <3>2 DEF Less
    <3>. QED
      BY <3>1, <3>3, Zenon DEF StockAfter
  <2>. QED
    BY <2>1
<1>5. CASE t.op = "receive"
  <2>1. PICK l \in Lots : t.want = [k \in {l} |-> Received[l]] /\ t.left = t.want
    BY <1>2, <1>5 DEF LotsPart, IsReceipt
  <2>2. Received[l] \in Nat /\ Received[l] > 0
    BY StockAssumption
  <2>. QED
    BY <1>4, <1>5, <2>1, <2>2 DEF t
<1>6. CASE t.op # "receive"
  <2>1. IsTaking(t) /\ lots \subseteq Lots
    BY <1>2, <1>6 DEF LotsPart, Tables, TypeOK
  <2>2. /\ DOMAIN t.want \subseteq lots /\ DOMAIN t.want # {}
        /\ \A l \in DOMAIN t.want : t.want[l] \in Nat /\ t.want[l] > 0
    BY <2>1, WantIsOfLots DEF IsTaking
  <2>3. \A l \in DOMAIN t.left : l \in DOMAIN t.want /\ t.left[l] \in Nat
    BY <2>1, <2>2 DEF IsTaking
  <2>. QED
    BY <1>4, <1>6, <2>1, <2>2, <2>3 DEF t
<1>. QED
  BY <1>5, <1>6

(* Only the request of the transaction changes, and a new one gets the     *)
(* next number.                                                            *)
LEMMA RequestsCommitted ==
    ASSUME IInv, Tables, NEW c \in Clerks, Commit(c)
    PROVE  /\ DOMAIN requests \subseteq DOMAIN requests'
           /\ DOMAIN requests' \subseteq Requests
           /\ \E n \in Nat : DOMAIN requests' = 1..n
           /\ \A r \in DOMAIN requests :
                 /\ requests'[r].want = requests[r].want
                 /\ tx[c].op # "resolve" \/ tx[c].request # r => requests'[r] = requests[r]
           /\ tx[c].op = "resolve" => /\ DOMAIN requests' = DOMAIN requests
                                      /\ requests'[tx[c].request].status = tx[c].verdict
           /\ tx[c].op = "request" =>
                 \E r \in DOMAIN requests' \ DOMAIN requests :
                    /\ DOMAIN requests' = DOMAIN requests \cup {r}
                    /\ requests'[r] = [want |-> tx[c].want, status |-> "PENDING"]
           /\ tx[c].op \notin {"request", "resolve"} => requests' = requests
<1> DEFINE t == tx[c]
<1>1. PICK n \in Nat : DOMAIN requests = 1..n
  BY DEF Tables
<1>2. requests' = RequestsAfter(t)
  BY DEF Commit
<1>3. DOMAIN requests \subseteq Requests
  BY DEF Tables, TypeOK
<1>4. CASE t.op = "resolve"
  <2>1. t.request \in DOMAIN requests
    BY <1>4, OpenIsWellFormed DEF Commit, WellFormed, RequestPart
  <2>2. \A r \in DOMAIN requests : IsRequest(requests[r])
    BY DEF IInv, TablesOK
  <2>3. requests' = [requests EXCEPT ![t.request] =
                       [requests[t.request] EXCEPT !.status = t.verdict]]
    BY <1>2, <1>4 DEF RequestsAfter
  <2>4. ASSUME NEW q, IsRequest(q), NEW v
        PROVE  [q EXCEPT !.status = v].want = q.want /\ [q EXCEPT !.status = v].status = v
    BY <2>4 DEF IsRequest
  <2>. HIDE DEF t
  <2>5. /\ DOMAIN requests' = DOMAIN requests
        /\ \A r \in DOMAIN requests : r # t.request => requests'[r] = requests[r]
        /\ requests'[t.request] = [requests[t.request] EXCEPT !.status = t.verdict]
    BY <2>1, <2>3
  <2>6. /\ requests'[t.request].want = requests[t.request].want
        /\ requests'[t.request].status = t.verdict
    BY <2>1, <2>2, <2>4, <2>5
  <2>. QED
    BY <1>1, <1>3, <1>4, <2>1, <2>5, <2>6 DEF t
<1>5. CASE t.op = "request"
  <2>1. Cardinality(DOMAIN requests) = n
    BY <1>1, FS_Interval
  <2>2. n < MaxRequests /\ MaxRequests \in Nat
    BY <1>5, <2>1, StockAssumption DEF Commit
  <2>. HIDE DEF t
  <2>3. requests' = [r \in 1..n \cup {n + 1} |->
                       IF r \in 1..n THEN requests[r]
                       ELSE [want |-> t.want, status |-> "PENDING"]]
    BY <1>1, <1>2, <1>5, <2>1 DEF RequestsAfter
  <2>4. 1..n \cup {n + 1} = 1..(n + 1) /\ 1..(n + 1) \subseteq Requests /\ n + 1 \notin 1..n
    BY <2>2 DEF Requests
  <2>5. /\ DOMAIN requests' = 1..(n + 1)
        /\ \A r \in 1..n : requests'[r] = requests[r]
        /\ requests'[n + 1] = [want |-> t.want, status |-> "PENDING"]
    BY <2>3, <2>4
  <2>6. /\ n + 1 \in DOMAIN requests' \ DOMAIN requests
        /\ DOMAIN requests' = DOMAIN requests \cup {n + 1}
    BY <1>1, <2>4, <2>5
  <2>. QED
    BY <1>1, <1>5, <2>4, <2>5, <2>6 DEF t
<1>6. CASE t.op \notin {"request", "resolve"}
  BY <1>1, <1>2, <1>3, <1>6 DEF RequestsAfter
<1>. QED
  BY <1>4, <1>5, <1>6

(* And so does a commit.                                                   *)
LEMMA CommitKeepsTables ==
    ASSUME IInv, IInv', Tables, NEW c \in Clerks, Commit(c)
    PROVE  Tables'
<1> DEFINE t == tx[c]
<1>1. IsOpen(c)
  BY DEF Commit
<1>2. TypeOK
  BY DEF Tables
<1>3. lots \subseteq lots' /\ lots' \subseteq Lots
  BY DEF Commit, IInv, TablesOK
<1>4. \A want \in Wants : want \in Wants'
  <2>1. ASSUME NEW want \in Wants
        PROVE  want \in Wants'
    <3>1. PICK S \in (SUBSET lots) \ {{}} : want \in [S -> 1..MaxQuantity]
      BY DEF Wants
    <3>2. S \in (SUBSET lots') \ {{}}
      BY <1>3, <3>1
    <3>. QED
      BY <3>1, <3>2 DEF Wants
  <2>. QED
    BY <2>1
<1>5. TypeOK'
  <2>1. available' \in [Lots -> Nat]
    <3>1. \A l \in Lots : available'[l] = IF l \in DOMAIN t.left THEN t.left[l] ELSE available[l]
      BY DEF Commit
    <3>2. \A l \in Lots : available'[l] \in Nat
      BY <1>1, <1>2, <3>1, SavedIsNat DEF TypeOK
    <3>. QED
      BY <3>2 DEF Commit
  <2>2. isActive' \in [Lots -> BOOLEAN]
    <3>1. ASSUME NEW l \in Lots
          PROVE  ActiveAfter(t, l) \in BOOLEAN
      <4>1. isActive[l] \in BOOLEAN
        BY <1>2 DEF TypeOK
      <4>. QED
        BY <4>1 DEF ActiveAfter
    <3>. QED
      BY <3>1 DEF Commit
  <2>3. isFrozen' \in [Lots -> BOOLEAN]
    <3>1. ASSUME NEW l \in Lots
          PROVE  FrozenAfter(t, l) \in BOOLEAN
      <4>1. isFrozen[l] \in BOOLEAN
        BY <1>2 DEF TypeOK
      <4>. QED
        BY <4>1 DEF FrozenAfter
    <3>. QED
      BY <3>1 DEF Commit
  <2>4. inventory' \in [Materials -> Nat]
    <3>1. \A m \in Materials : inventory'[m] =
             IF m \in DOMAIN t.stockLeft THEN t.stockLeft[m] ELSE inventory[m]
      BY DEF Commit
    <3>2. \A m \in Materials : inventory'[m] \in Nat
      BY <1>1, <1>2, <3>1, SavedIsNat DEF TypeOK
    <3>. QED
      BY <3>2 DEF Commit
  <2>5. DOMAIN requests' \subseteq Requests
    BY RequestsCommitted
  <2>6. ASSUME NEW r \in DOMAIN requests'
        PROVE  /\ requests'[r].want \in Wants'
               /\ requests'[r].status \in {"PENDING", "APPROVED", "REJECTED"}
    <3>1. CASE r \in DOMAIN requests
      <4>1. /\ requests[r].want \in Wants
            /\ requests[r].status \in {"PENDING", "APPROVED", "REJECTED"}
        BY <1>2, <3>1 DEF TypeOK
      <4>2. requests'[r].want \in Wants'
        BY <1>4, <3>1, <4>1, RequestsCommitted
      <4>3. t.op = "resolve" => t.verdict \in {"APPROVED", "REJECTED"}
        BY <1>1, OpenIsWellFormed DEF WellFormed, RequestPart
      <4>4. CASE t.op = "resolve" /\ t.request = r
        BY <4>2, <4>3, <4>4, RequestsCommitted
      <4>5. CASE ~(t.op = "resolve" /\ t.request = r)
        BY <3>1, <4>1, <4>2, <4>5, RequestsCommitted
      <4>. QED
        BY <4>4, <4>5
    <3>2. CASE r \notin DOMAIN requests
      <4>1. t.op = "request"
        BY <3>2, RequestsCommitted
      <4>2. requests'[r] = [want |-> t.want, status |-> "PENDING"]
        BY <3>2, <4>1, RequestsCommitted
      <4>3. t.want \in Wants
        BY <1>1, <4>1, OpenIsWellFormed DEF WellFormed, LotsPart, IsTaking
      <4>. QED
        BY <1>4, <4>2, <4>3
    <3>. QED
      BY <3>1, <3>2
  <2>7. taken' \in [Lots -> Nat] /\ apart' \in BOOLEAN
    BY <1>2 DEF IInv, TablesOK, Commit, TypeOK
  <2>. QED
    BY <1>3, <2>1, <2>2, <2>3, <2>4, <2>5, <2>6, <2>7 DEF TypeOK
<1>6. ASSUME NEW l \in Lots, l \notin lots'
      PROVE  ~isActive'[l] /\ ~isFrozen'[l] /\ taken'[l] = 0
  <2>1. ~isActive[l] /\ ~isFrozen[l] /\ taken[l] = 0
    BY <1>3, <1>6 DEF Tables
  <2>2. l \notin DOMAIN t.want
    BY <1>1, <1>3, <1>6, SavedIsNat DEF Commit
  <2>3. l \notin DOMAIN t.left /\ l \notin t.flagged
    BY <1>1, <2>2, SavedIsNat, OpenIsWellFormed DEF WellFormed, FlagsPart
  <2>4. isActive'[l] = isActive[l] /\ isFrozen'[l] = isFrozen[l] /\ taken'[l] = taken[l]
    BY <2>2, <2>3 DEF Commit, ActiveAfter, FrozenAfter, Takes
  <2>. QED
    BY <2>1, <2>4
<1>7. ASSUME NEW d \in Clerks, tx'[d] # Idle
      PROVE  WellFormed(tx[d])'
  <2>1. tx'[d] = tx[d] /\ tx[d] # Idle
    BY <1>7 DEF Commit, IInv, TablesOK
  <2> DEFINE u == tx[d]
  <2>2. LotsPart(u) /\ FlagsPart(u) /\ StockPart(u) /\ RequestPart(u)
    BY <2>1, OpenIsWellFormed DEF WellFormed, IsOpen
  <2>. HIDE DEF u
  <2>3. LotsPart(u)'
    BY <2>1, <2>2, <1>4 DEF LotsPart, IsReceipt, IsTaking, u
  <2>4. FlagsPart(u)' /\ StockPart(u)'
    BY <2>1, <2>2 DEF FlagsPart, StockPart, LotsDone, FlagsDone, TakesStock, StockAfter, Debit,
                      MaterialsOf, u
  <2>5. RequestPart(u)'
    <3>1. u' = u
      BY <2>1 DEF u
    <3>2. u.op = "resolve" => /\ u.request \in DOMAIN requests'
                              /\ u.want = requests'[u.request].want
                              /\ u.verdict \in {"APPROVED", "REJECTED"}
      BY <2>2, RequestsCommitted DEF RequestPart
    <3>. QED
      BY <3>1, <3>2 DEF RequestPart
  <2>. QED
    BY <2>3, <2>4, <2>5 DEF WellFormed, u
<1>8. (\E n \in Nat : DOMAIN requests = 1..n)'
  BY RequestsCommitted
<1>. QED
  BY <1>5, <1>6, <1>7, <1>8 DEF Tables, IsOpen

-----------------------------------------------------------------------------
(* While no two transactions on one material were ever open together.      *)

(* What an open transaction read is what the tables still hold; a request  *)
(* found its lots thawed, a resolution its request pending and its lots    *)
(* frozen.                                                                 *)
Current(t) ==
    /\ \A l \in DOMAIN t.read : t.read[l] = available[l] /\ isActive[l]
    /\ \A m \in DOMAIN t.stockRead : t.stockRead[m] = inventory[m]
    /\ t.op = "receive" => DOMAIN t.want \cap lots = {}
    /\ t.op = "request" => \A l \in DOMAIN t.want : ~isFrozen[l]
    /\ t.op = "resolve" => /\ requests[t.request].status = "PENDING"
                           /\ t.claimed => t.flags = DOMAIN t.want

Exclusive ==
    \A c, d \in Clerks :
        c # d /\ IsOpen(c) /\ IsOpen(d) => MaterialsOf(tx[c]) \cap MaterialsOf(tx[d]) = {}

Subtracted(l) == Received[l] = available[l] + taken[l]
ActiveOf(m) == {l \in lots \cap LotsOf(m) : isActive[l]}
Balanced(m) == inventory[m] = Total(available, ActiveOf(m))
NamedOnce(l) == IF isFrozen[l] THEN \E r : Naming(l) = {r} ELSE Naming(l) = {}

Alone ==
    apart => /\ Exclusive
             /\ \A c \in Clerks : IsOpen(c) => Current(tx[c])
             /\ \A l \in lots : Subtracted(l) /\ NamedOnce(l)
             /\ \A m \in Materials : Balanced(m)

-----------------------------------------------------------------------------
(* A step that commits nothing leaves the balances to its transaction.     *)
LEMMA AloneKept ==
    ASSUME IInv, Alone, NEW c \in Clerks, NEW t,
           tx' = [tx EXCEPT ![c] = t], UNCHANGED tables, apart' => apart,
           apart' => \/ t = Idle
                     \/ /\ Current(t)
                        /\ \A d \in Others(c) : MaterialsOf(tx[d]) \cap MaterialsOf(t) = {}
    PROVE  Alone'
<1> SUFFICES ASSUME apart'
             PROVE  /\ Exclusive'
                    /\ (\A d \in Clerks : IsOpen(d) => Current(tx[d]))'
                    /\ (\A l \in lots : Subtracted(l) /\ NamedOnce(l))'
                    /\ (\A m \in Materials : Balanced(m))'
  BY DEF Alone
<1>1. \A d \in Clerks : tx'[d] = IF d = c THEN t ELSE tx[d]
  BY DEF IInv, TablesOK
<1>2. Exclusive'
  <2>1. ASSUME NEW d \in Clerks, NEW e \in Clerks, d # e, tx'[d] # Idle, tx'[e] # Idle
        PROVE  MaterialsOf(tx'[d]) \cap MaterialsOf(tx'[e]) = {}
    BY <1>1, <2>1 DEF Alone, Exclusive, IsOpen, Others
  <2>. QED
    BY <2>1 DEF Exclusive, IsOpen, MaterialsOf
<1>3. ASSUME NEW d \in Clerks, tx'[d] # Idle
      PROVE  Current(tx[d])'
  <2>1. Current(tx'[d])
    BY <1>1, <1>3 DEF Alone, IsOpen
  <2>. QED
    BY <2>1 DEF Current, tables
<1>4. (\A l \in lots : Subtracted(l) /\ NamedOnce(l))'
  BY DEF Alone, Subtracted, NamedOnce, Naming, tables
<1>5. (\A m \in Materials : Balanced(m))'
  BY DEF Alone, Balanced, ActiveOf, tables
<1>. QED
  BY <1>2, <1>3, <1>4, <1>5 DEF IsOpen

(* A transaction opens apart from the others if it shares no material.     *)
LEMMA OpenAlone ==
    ASSUME IInv, Alone, NEW c \in Clerks, NEW t, Open(c, t),
           apart => Current(t)
    PROVE  Alone'
BY AloneKept DEF Open

(* A step of an open transaction, which moves the materials it moved.      *)
LEMMA StepAlone ==
    ASSUME IInv, Alone, NEW c \in Clerks, IsOpen(c), NEW t, Step(c, t),
           t.want = tx[c].want,
           apart => Current(t)
    PROVE  Alone'
<1>1. MaterialsOf(t) = MaterialsOf(tx[c])
  BY DEF MaterialsOf
<1>2. apart => \A d \in Others(c) : MaterialsOf(tx[d]) \cap MaterialsOf(t) = {}
  BY <1>1 DEF Alone, Exclusive, Others
<1>. QED
  BY <1>2, AloneKept DEF Step

(* The transactions that are opened leave the balances as they are.        *)
LEMMA OpeningsKeepAlone ==
    ASSUME IInv, Tables, Alone, NEW c \in Clerks
    PROVE  /\ \A l \in Lots : Receive(c, l) => Alone'
           /\ \A op \in {"consume", "dispose"}, want \in Wants : TakeLots(c, op, want) => Alone'
           /\ \A want \in Wants : ConsumeFifo(c, want) => Alone'
           /\ \A want \in Wants : AskDisposal(c, want) => Alone'
           /\ \A r \in DOMAIN requests, verdict \in {"APPROVED", "REJECTED"} :
                 StartResolve(c, r, verdict) => Alone'
<1>1. ASSUME NEW l \in Lots, Receive(c, l)
      PROVE  Alone'
  <2> DEFINE want == [k \in {l} |-> Received[l]]
             t == [Transaction("receive", want) EXCEPT !.left = want]
  <2>1. Open(c, t) /\ l \notin lots
    BY <1>1 DEF Receive
  <2>2. t.op = "receive" /\ DOMAIN t.want = {l} /\ DOMAIN t.read = {} /\ DOMAIN t.stockRead = {}
    BY DEF Transaction, Nothing
  <2>. HIDE DEF t
  <2>3. Current(t)
    BY <2>1, <2>2 DEF Current
  <2>. QED
    BY <2>1, <2>3, OpenAlone
<1>2. ASSUME NEW op \in {"consume", "dispose"}, NEW want \in Wants, TakeLots(c, op, want)
      PROVE  Alone'
  <2> DEFINE t == Transaction(op, want)
  <2>1. Open(c, t)
    BY <1>2 DEF TakeLots
  <2>2. t.op = op /\ DOMAIN t.read = {} /\ DOMAIN t.stockRead = {}
    BY DEF Transaction, Nothing
  <2>. HIDE DEF t
  <2>3. Current(t)
    BY <2>2 DEF Current
  <2>. QED
    BY <2>1, <2>3, OpenAlone
<1>3. ASSUME NEW want \in Wants, ConsumeFifo(c, want)
      PROVE  Alone'
  <2> DEFINE read == [l \in DOMAIN want |-> available[l]]
             t == [Transaction("consume", want) EXCEPT !.read = read]
  <2>1. Open(c, t) /\ \A l \in DOMAIN want : isActive[l]
    BY <1>3 DEF ConsumeFifo, Usable
  <2>2. t.op = "consume" /\ t.read = read /\ DOMAIN t.stockRead = {}
    BY DEF Transaction, Nothing
  <2>. HIDE DEF t
  <2>3. Current(t)
    BY <2>1, <2>2 DEF Current
  <2>. QED
    BY <2>1, <2>3, OpenAlone
<1>4. ASSUME NEW want \in Wants, AskDisposal(c, want)
      PROVE  Alone'
  <2> DEFINE t == [Transaction("request", want) EXCEPT !.flags = DOMAIN want]
  <2>1. Open(c, t) /\ \A l \in DOMAIN want : ~isFrozen[l]
    BY <1>4 DEF AskDisposal, CanRequest, Usable
  <2>2. t.op = "request" /\ t.want = want /\ DOMAIN t.read = {} /\ DOMAIN t.stockRead = {}
    BY DEF Transaction, Nothing
  <2>. HIDE DEF t
  <2>3. Current(t)
    BY <2>1, <2>2 DEF Current
  <2>. QED
    BY <2>1, <2>3, OpenAlone
<1>5. ASSUME NEW r \in DOMAIN requests, NEW verdict \in {"APPROVED", "REJECTED"},
             StartResolve(c, r, verdict)
      PROVE  Alone'
  <2> DEFINE t == [Transaction("resolve", requests[r].want) EXCEPT
                     !.request = r, !.verdict = verdict, !.claimed = FALSE]
  <2>1. Open(c, t) /\ requests[r].status = "PENDING"
    BY <1>5 DEF StartResolve, PendingOnly
  <2>2. /\ t.op = "resolve" /\ t.request = r /\ ~t.claimed
        /\ DOMAIN t.read = {} /\ DOMAIN t.stockRead = {}
    BY DEF Transaction, Nothing
  <2>. HIDE DEF t
  <2>3. Current(t)
    BY <2>1, <2>2 DEF Current
  <2>. QED
    BY <2>1, <2>3, OpenAlone
<1>. QED
  BY <1>1, <1>2, <1>3, <1>4, <1>5

(* The steps that commit nothing read what is current while apart.         *)
LEMMA StepsKeepAlone ==
    ASSUME IInv, Tables, Alone, NEW c \in Clerks
    PROVE  /\ Claim(c) => Alone'
           /\ \A l \in Lots : WriteFlag(c, l) \/ ReadLot(c, l) \/ WriteLot(c, l) => Alone'
           /\ \A m \in Materials : ReadStock(c, m) \/ WriteStock(c, m) => Alone'
           /\ Rollback(c) => Alone'
<1> DEFINE t == tx[c]
<1> SUFFICES ASSUME IsOpen(c)
             PROVE  /\ Claim(c) => Alone'
                    /\ \A l \in Lots : WriteFlag(c, l) \/ ReadLot(c, l) \/ WriteLot(c, l) => Alone'
                    /\ \A m \in Materials : ReadStock(c, m) \/ WriteStock(c, m) => Alone'
                    /\ Rollback(c) => Alone'
  BY DEF Claim, WriteFlag, ReadLot, WriteLot, ReadStock, WriteStock, Rollback
<1>1. Honest(t) /\ t = [column \in Columns |-> t[column]]
  BY OpenIsHonest DEF Honest
<1>2. WellFormed(t) /\ LotsPart(t) /\ FlagsPart(t) /\ StockPart(t) /\ RequestPart(t)
  BY OpenIsWellFormed DEF WellFormed
<1>3. apart => Current(t)
  BY DEF Alone
<1>. HIDE DEF t
<1>4. ASSUME NEW u, Step(c, u), u.want = t.want, apart => Current(u)
      PROVE  Alone'
  BY <1>4, StepAlone DEF t
<1>5. ASSUME Claim(c)
      PROVE  Alone'
  <2> DEFINE flags == {l \in DOMAIN t.want : isFrozen[l]}
             u == [t EXCEPT !.claimed = TRUE, !.flags = flags]
  <2>1. Step(c, u) /\ ~t.claimed
    BY <1>5 DEF Claim, t
  <2>2. /\ u.op = t.op /\ u.want = t.want /\ u.request = t.request /\ u.claimed
        /\ u.flags = flags /\ u.read = t.read /\ u.stockRead = t.stockRead
    BY <1>1 DEF Columns
  <2>3. t.op = "resolve"
    BY <1>2, <2>1 DEF FlagsPart
  <2>4. ASSUME apart, NEW l \in DOMAIN t.want
        PROVE  isFrozen[l]
    <3>1. t.request \in Naming(l)
      BY <1>2, <1>3, <2>3, <2>4 DEF RequestPart, Current, Naming
    <3>2. l \in lots
      BY <1>2, <2>3, WantIsOfLots DEF LotsPart, IsTaking, Tables, TypeOK
    <3>. QED
      BY <2>4, <3>1, <3>2 DEF Alone, NamedOnce
  <2>5. apart => flags = DOMAIN t.want
    BY <2>4
  <2>. HIDE DEF u, flags
  <2>6. apart => Current(u)
    BY <1>3, <2>2, <2>5 DEF Current
  <2>. QED
    BY <1>4, <2>1, <2>2, <2>6
<1>6. ASSUME NEW l \in Lots, WriteFlag(c, l)
      PROVE  Alone'
  <2> DEFINE u == [t EXCEPT !.flagged = @ \cup {l}]
  <2>1. Step(c, u)
    BY <1>6 DEF WriteFlag, t
  <2>2. /\ u.op = t.op /\ u.want = t.want /\ u.request = t.request /\ u.claimed = t.claimed
        /\ u.flags = t.flags /\ u.read = t.read /\ u.stockRead = t.stockRead
    BY <1>1 DEF Columns
  <2>. HIDE DEF u
  <2>3. apart => Current(u)
    BY <1>3, <2>2 DEF Current
  <2>. QED
    BY <1>4, <2>1, <2>2, <2>3
<1>7. ASSUME NEW l \in Lots, ReadLot(c, l)
      PROVE  Alone'
  <2> DEFINE read == [k \in DOMAIN t.read \cup {l} |-> IF k = l THEN available[l] ELSE t.read[k]]
             u == [t EXCEPT !.read = read]
  <2>1. Step(c, u) /\ isActive[l]
    BY <1>7 DEF ReadLot, MayTake, t
  <2>2. /\ u.op = t.op /\ u.want = t.want /\ u.request = t.request /\ u.claimed = t.claimed
        /\ u.flags = t.flags /\ u.read = read /\ u.stockRead = t.stockRead
    BY <1>1 DEF Columns
  <2>. HIDE DEF u
  <2>3. apart => Current(u)
    BY <1>3, <2>1, <2>2 DEF Current
  <2>. QED
    BY <1>4, <2>1, <2>2, <2>3
<1>8. ASSUME NEW l \in Lots, WriteLot(c, l)
      PROVE  Alone'
  <2> DEFINE left == [k \in DOMAIN t.left \cup {l} |-> IF k = l THEN LeftOf(t, l) ELSE t.left[k]]
             u == [t EXCEPT !.left = left]
  <2>1. Step(c, u)
    BY <1>8 DEF WriteLot, t
  <2>2. /\ u.op = t.op /\ u.want = t.want /\ u.request = t.request /\ u.claimed = t.claimed
        /\ u.flags = t.flags /\ u.read = t.read /\ u.stockRead = t.stockRead
    BY <1>1 DEF Columns
  <2>. HIDE DEF u
  <2>3. apart => Current(u)
    BY <1>3, <2>2 DEF Current
  <2>. QED
    BY <1>4, <2>1, <2>2, <2>3
<1>9. ASSUME NEW m \in Materials, ReadStock(c, m)
      PROVE  Alone'
  <2> DEFINE read == [k \in DOMAIN t.stockRead \cup {m} |->
                        IF k = m THEN inventory[m] ELSE t.stockRead[k]]
             u == [t EXCEPT !.stockRead = read]
  <2>1. Step(c, u)
    BY <1>9 DEF ReadStock, t
  <2>2. /\ u.op = t.op /\ u.want = t.want /\ u.request = t.request /\ u.claimed = t.claimed
        /\ u.flags = t.flags /\ u.read = t.read /\ u.stockRead = read
    BY <1>1 DEF Columns
  <2>. HIDE DEF u
  <2>3. apart => Current(u)
    BY <1>3, <2>1, <2>2 DEF Current
  <2>. QED
    BY <1>4, <2>1, <2>2, <2>3
<1>10. ASSUME NEW m \in Materials, WriteStock(c, m)
      PROVE  Alone'
  <2> DEFINE left == [k \in DOMAIN t.stockLeft \cup {m} |->
                        IF k = m THEN StockAfter(t, m) ELSE t.stockLeft[k]]
             u == [t EXCEPT !.stockLeft = left]
  <2>1. Step(c, u)
    BY <1>10 DEF WriteStock, t
  <2>2. /\ u.op = t.op /\ u.want = t.want /\ u.request = t.request /\ u.claimed = t.claimed
        /\ u.flags = t.flags /\ u.read = t.read /\ u.stockRead = t.stockRead
    BY <1>1 DEF Columns
  <2>. HIDE DEF u
  <2>3. apart => Current(u)
    BY <1>3, <2>2 DEF Current
  <2>. QED
    BY <1>4, <2>1, <2>2, <2>3
<1>11. ASSUME Rollback(c)
      PROVE  Alone'
  BY <1>11, AloneKept DEF Rollback, Step
<1>. QED
  BY <1>5, <1>6, <1>7, <1>8, <1>9, <1>10, <1>11

-----------------------------------------------------------------------------
(* A commit, while the materials of the transactions never overlapped.     *)

(* What a transaction takes of a lot, over all lots.                       *)
TakenBy(t) == [l \in Lots |-> IF l \in DOMAIN t.want THEN t.want[l] ELSE 0]

(* The debit of a material is the total of what is taken of its lots.      *)
LEMMA DebitOverLots ==
    ASSUME NEW t, t.want \in Takings, NEW m, NEW S, S \subseteq Lots,
           \A l \in DOMAIN t.want : MaterialOf[l] = m => l \in S,
           \A l \in S : MaterialOf[l] = m
    PROVE  /\ Total(TakenBy(t), S) = Debit(t, m)
           /\ \A l \in S : TakenBy(t)[l] \in Nat
           /\ IsFiniteSet(S)
<1> DEFINE W == {l \in DOMAIN t.want : MaterialOf[l] = m}
           g == TakenBy(t)
<1>1. IsFiniteSet(S) /\ W \subseteq S
  BY LotsAreFinite
<1>2. \A l \in DOMAIN t.want : l \in Lots /\ t.want[l] \in Nat
  BY TakingsAreNumbers
<1>3. \A l \in W : t.want[l] \in Int /\ g[l] = t.want[l]
  BY <1>2 DEF TakenBy
<1>4. \A l \in S \ W : g[l] = 0
  BY DEF TakenBy
<1>5. \A l \in S : g[l] \in Nat
  BY <1>2 DEF TakenBy
<1>. HIDE DEF g
<1>6. Total(g, S) = Total(t.want, W)
  BY <1>1, <1>3, <1>4, TotalSupport
<1>. QED
  BY <1>1, <1>5, <1>6 DEF Debit, g

(* Nothing is taken of a material that the transaction does not move.      *)
LEMMA NoDebit ==
    ASSUME NEW t, NEW m, m \notin MaterialsOf(t)
    PROVE  Debit(t, m) = 0
<1>1. {l \in DOMAIN t.want : MaterialOf[l] = m} = {}
  BY DEF MaterialsOf
<1>. QED
  BY <1>1, TotalEmpty DEF Debit

(* What the commit of the transaction of c does to each lot.               *)
LEMMA LotsCommitted ==
    ASSUME IInv, Tables, Alone, apart, NEW c \in Clerks, Commit(c)
    PROVE  /\ \A l \in Lots \ DOMAIN tx[c].want :
                 /\ available'[l] = available[l] /\ taken'[l] = taken[l]
                 /\ isActive'[l] = isActive[l] /\ isFrozen'[l] = isFrozen[l]
           /\ ~TakesStock(tx[c]) =>
                 \A l \in Lots : available'[l] = available[l] /\ isActive'[l] = isActive[l]
           /\ ~TakesStock(tx[c]) \/ tx[c].op = "receive" => taken' = taken
           /\ tx[c].op = "receive" =>
                 \E l \in Lots :
                    /\ l \notin lots /\ DOMAIN tx[c].want = {l}
                    /\ available'[l] = Received[l] /\ tx[c].want[l] = Received[l]
                    /\ isActive'[l]
           /\ TakesStock(tx[c]) /\ tx[c].op # "receive" =>
                 \A l \in DOMAIN tx[c].want :
                    /\ l \in lots /\ isActive[l] /\ tx[c].want[l] <= available[l]
                    /\ available'[l] = available[l] - tx[c].want[l]
                    /\ taken'[l] = taken[l] + tx[c].want[l]
                    /\ isActive'[l] <=> available'[l] > 0
<1> DEFINE t == tx[c]
<1>1. IsOpen(c) /\ Finished(t)
  BY DEF Commit
<1>2. WellFormed(t) /\ LotsPart(t) /\ FlagsPart(t) /\ OnlyTakers(t) /\ Current(t)
  BY <1>1, OpenIsWellFormed, OpenIsHonest DEF WellFormed, Honest, Alone
<1>3. DOMAIN t.left \subseteq DOMAIN t.want /\ DOMAIN t.want \subseteq Lots
  BY <1>1, SavedIsNat
<1>4. \A l \in Lots : /\ available'[l] = IF l \in DOMAIN t.left THEN t.left[l] ELSE available[l]
                      /\ isActive'[l] = ActiveAfter(t, l)
                      /\ isFrozen'[l] = FrozenAfter(t, l)
                      /\ taken'[l] = IF Takes(t, l) THEN taken[l] + t.want[l] ELSE taken[l]
  BY DEF Commit
<1>5. taken = [l \in Lots |-> taken[l]] /\ taken' = [l \in Lots |-> taken'[l]]
  BY DEF IInv, TablesOK, Commit
<1>. HIDE DEF t
<1>6. ASSUME NEW l \in Lots, l \notin DOMAIN t.left
      PROVE  available'[l] = available[l] /\ isActive'[l] = isActive[l]
  BY <1>4, <1>6 DEF ActiveAfter
<1>7. ASSUME NEW l \in Lots, l \notin DOMAIN t.want
      PROVE  /\ available'[l] = available[l] /\ taken'[l] = taken[l]
             /\ isActive'[l] = isActive[l] /\ isFrozen'[l] = isFrozen[l]
  <2>1. l \notin t.flagged
    BY <1>2, <1>7 DEF FlagsPart
  <2>2. isFrozen'[l] = isFrozen[l] /\ taken'[l] = taken[l]
    BY <1>4, <1>7, <2>1 DEF FrozenAfter, Takes
  <2>. QED
    BY <1>3, <1>6, <1>7, <2>2
<1>8. ASSUME ~TakesStock(t), NEW l \in Lots
      PROVE  available'[l] = available[l] /\ isActive'[l] = isActive[l]
  BY <1>2, <1>6, <1>8 DEF OnlyTakers
<1>9. ~TakesStock(t) \/ t.op = "receive" => taken' = taken
  <2>1. ASSUME ~TakesStock(t) \/ t.op = "receive", NEW l \in Lots
        PROVE  taken'[l] = taken[l]
    BY <1>4, <2>1 DEF Takes
  <2>. QED
    BY <1>5, <2>1
<1>10. ASSUME t.op = "receive"
       PROVE  \E l \in Lots : /\ l \notin lots /\ DOMAIN t.want = {l}
                              /\ available'[l] = Received[l] /\ t.want[l] = Received[l]
                              /\ isActive'[l]
  <2>1. PICK l \in Lots : t.want = [k \in {l} |-> Received[l]] /\ t.left = t.want
    BY <1>2, <1>10 DEF LotsPart, IsReceipt
  <2>2. l \notin lots
    BY <1>2, <1>10, <2>1 DEF Current
  <2>3. isActive'[l]
    BY <1>4, <1>10, <2>1 DEF ActiveAfter
  <2>. QED
    BY <1>4, <2>1, <2>2, <2>3
<1>11. ASSUME TakesStock(t), t.op # "receive", NEW l \in DOMAIN t.want
       PROVE  /\ l \in lots /\ isActive[l] /\ t.want[l] <= available[l]
              /\ available'[l] = available[l] - t.want[l]
              /\ taken'[l] = taken[l] + t.want[l]
              /\ isActive'[l] <=> available'[l] > 0
  <2>1. IsTaking(t) /\ DOMAIN t.left = DOMAIN t.want
    BY <1>1, <1>2, <1>11 DEF LotsPart, Finished, LotsDone
  <2>2. l \in lots /\ l \in Lots
    BY <2>1, WantIsOfLots DEF IsTaking, Tables, TypeOK
  <2>3. /\ l \in DOMAIN t.read /\ t.want[l] <= t.read[l]
        /\ t.left[l] = t.read[l] - t.want[l]
    BY <2>1 DEF IsTaking
  <2>4. t.read[l] = available[l] /\ isActive[l]
    BY <1>2, <2>3 DEF Current
  <2>5. available'[l] = available[l] - t.want[l]
    BY <1>4, <2>1, <2>2, <2>3, <2>4
  <2>6. taken'[l] = taken[l] + t.want[l]
    BY <1>4, <1>11, <2>2 DEF Takes
  <2>7. isActive'[l] = (isActive[l] /\ t.left[l] > 0)
    BY <1>4, <1>11, <2>1, <2>2, Zenon DEF ActiveAfter
  <2>8. available'[l] = t.left[l]
    BY <1>4, <2>1, <2>2
  <2>. QED
    BY <2>2, <2>3, <2>4, <2>5, <2>6, <2>7, <2>8
<1>. QED
  BY <1>7, <1>8, <1>9, <1>10, <1>11 DEF t

(* And to the balance of each material.                                    *)
LEMMA StockCommitted ==
    ASSUME IInv, Tables, Alone, apart, NEW c \in Clerks, Commit(c), NEW m \in Materials
    PROVE  /\ ~TakesStock(tx[c]) => inventory'[m] = inventory[m]
           /\ m \notin MaterialsOf(tx[c]) => inventory'[m] = inventory[m]
           /\ tx[c].op = "receive" => inventory'[m] = inventory[m] + Debit(tx[c], m)
           /\ TakesStock(tx[c]) /\ tx[c].op # "receive" =>
                 inventory'[m] = Less(inventory[m], Debit(tx[c], m))
<1> DEFINE t == tx[c]
<1>1. IsOpen(c) /\ Finished(t)
  BY DEF Commit
<1>2. StockPart(t) /\ Current(t)
  BY <1>1, OpenIsWellFormed DEF WellFormed, Alone
<1>3. inventory'[m] = IF m \in DOMAIN t.stockLeft THEN t.stockLeft[m] ELSE inventory[m]
  BY DEF Commit
<1>4. inventory[m] \in Nat
  BY DEF Tables, TypeOK
<1>. HIDE DEF t
<1>5. ~TakesStock(t) \/ m \notin MaterialsOf(t) => m \notin DOMAIN t.stockLeft
  BY <1>2 DEF StockPart
<1>6. CASE m \in DOMAIN t.stockLeft
  <2>1. t.stockRead[m] = inventory[m] /\ t.stockLeft[m] = StockAfter(t, m)
    BY <1>2, <1>6 DEF StockPart, Current
  <2>. QED
    BY <1>3, <1>5, <1>6, <2>1, Zenon DEF StockAfter, t
<1>7. CASE m \notin DOMAIN t.stockLeft
  <2>1. TakesStock(t) => m \notin MaterialsOf(t)
    BY <1>1, <1>7 DEF Finished
  <2>2. TakesStock(t) => Debit(t, m) = 0
    BY <2>1, NoDebit
  <2>3. t.op = "receive" => TakesStock(t)
    BY DEF TakesStock
  <2>4. inventory'[m] = inventory[m] /\ inventory[m] + 0 = inventory[m]
        /\ Less(inventory[m], 0) = inventory[m]
    BY <1>3, <1>4, <1>7 DEF Less
  <2>. QED
    BY <2>2, <2>3, <2>4 DEF t
<1>. QED
  BY <1>6, <1>7

(* A commit moves the balance of a material as much as its active lots.    *)
LEMMA BalancedAfterCommit ==
    ASSUME IInv, Tables, Tables', Alone, apart, NEW c \in Clerks, Commit(c), NEW m \in Materials
    PROVE  Balanced(m)'
<1> DEFINE t == tx[c]
           A == ActiveOf(m)
           B == {l \in lots' \cap LotsOf(m) : isActive'[l]}
           g == TakenBy(t)
<1>1. t.want \in Takings
  BY OpenIsHonest DEF Honest, Commit
<1>2. inventory[m] = Total(available, A)
  BY DEF Alone, Balanced
<1>3. /\ lots \subseteq Lots /\ lots' \subseteq Lots
      /\ \A l \in Lots : available[l] \in Nat /\ available'[l] \in Nat
  BY DEF Tables, TypeOK
<1>4. IsFiniteSet(A) /\ IsFiniteSet(B) /\ A \subseteq Lots /\ B \subseteq Lots
  BY <1>3, LotsAreFinite DEF ActiveOf
<1>5. \A l \in Lots \ DOMAIN t.want : available'[l] = available[l] /\ isActive'[l] = isActive[l]
  BY LotsCommitted
<1>6. lots' = IF t.op = "receive" THEN lots \cup DOMAIN t.want ELSE lots
  BY DEF Commit
<1>. SUFFICES inventory'[m] = Total(available', B)
  BY DEF Balanced, ActiveOf
<1>7. CASE ~TakesStock(t)
  <2>1. /\ \A l \in Lots : available'[l] = available[l] /\ isActive'[l] = isActive[l]
        /\ inventory'[m] = inventory[m]
    BY <1>7, LotsCommitted, StockCommitted
  <2>2. B = A
    BY <1>3, <1>6, <1>7, <2>1 DEF ActiveOf, TakesStock
  <2>3. Total(available', A) = Total(available, A)
    BY <1>4, <2>1, TotalEqual
  <2>. QED
    BY <1>2, <2>1, <2>2, <2>3
<1>8. CASE t.op = "receive"
  <2>1. PICK l \in Lots : /\ l \notin lots /\ DOMAIN t.want = {l}
                          /\ available'[l] = Received[l] /\ t.want[l] = Received[l]
                          /\ isActive'[l]
    BY <1>8, LotsCommitted
  <2>2. inventory'[m] = inventory[m] + Debit(t, m)
    BY <1>8, StockCommitted
  <2>3. Total(available', A) = Total(available, A)
    <3>1. \A k \in A : available'[k] = available[k]
      BY <1>3, <1>5, <2>1 DEF ActiveOf
    <3>. QED
      BY <1>4, <3>1, TotalEqual
  <2>4. CASE MaterialOf[l] = m
    <3>1. B = A \cup {l} /\ l \notin A
      BY <1>3, <1>5, <1>6, <1>8, <2>1, <2>4 DEF ActiveOf, LotsOf
    <3>2. \A k \in A \cup {l} : available'[k] \in Int
      BY <1>3, <1>4
    <3>3. Total(available', B) = available'[l] + Total(available', A)
      BY <1>4, <3>1, <3>2, TotalAdd
    <3>4. \A k \in DOMAIN t.want : k \in {l} /\ g[k] = Received[l]
      BY <1>1, <2>1 DEF TakenBy
    <3>5. Total(g, {l}) = Debit(t, m)
      BY <1>1, <2>1, <2>4, DebitOverLots
    <3>6. Total(g, {l}) = Received[l]
      <4>1. {l} \ {l} = {} /\ IsFiniteSet({l}) /\ g[l] = Received[l] /\ Received[l] \in Int
        BY <2>1, <3>4, FS_Singleton, StockAssumption
      <4>. HIDE DEF g
      <4>2. Total(g, {l}) = g[l] + Total(g, {l} \ {l})
        BY <4>1, TotalRemove
      <4>3. Total(g, {l}) = Received[l] + 0
        BY <4>1, <4>2, TotalEmpty
      <4>. QED
        BY <4>1, <4>3
    <3>7. Total(available, A) \in Int /\ Received[l] \in Int
      <4>1. \A k \in A : available[k] \in Int
        BY <1>3, <1>4
      <4>. QED
        BY <1>4, <4>1, TotalInt, StockAssumption
    <3>. QED
      BY <1>2, <2>1, <2>2, <2>3, <3>3, <3>5, <3>6, <3>7
  <2>5. CASE MaterialOf[l] # m
    <3>1. B = A
      BY <1>3, <1>5, <1>6, <1>8, <2>1, <2>5 DEF ActiveOf, LotsOf
    <3>2. m \notin MaterialsOf(t)
      BY <2>1, <2>5 DEF MaterialsOf
    <3>3. inventory'[m] = inventory[m]
      BY <3>2, StockCommitted
    <3>. QED
      BY <1>2, <2>3, <3>1, <3>3
  <2>. QED
    BY <2>4, <2>5
<1>9. CASE TakesStock(t) /\ t.op # "receive"
  <2>1. \A l \in DOMAIN t.want :
           /\ l \in lots /\ isActive[l] /\ t.want[l] <= available[l]
           /\ available'[l] = available[l] - t.want[l]
           /\ isActive'[l] <=> available'[l] > 0
    BY <1>9, LotsCommitted
  <2>2. \A l \in DOMAIN t.want : l \in Lots /\ t.want[l] \in Nat
    BY <1>1, TakingsAreNumbers
  <2>3. B \subseteq A
    BY <1>3, <1>5, <1>6, <1>9, <2>1 DEF ActiveOf
  <2>4. \A l \in A \ B : available'[l] = 0
    <3>1. ASSUME NEW l \in A \ B
          PROVE  available'[l] = 0
      <4>1. l \in lots \cap LotsOf(m) /\ isActive[l] /\ ~isActive'[l]
        BY <1>6, <1>9 DEF ActiveOf
      <4>2. l \in DOMAIN t.want
        BY <1>3, <1>5, <4>1
      <4>3. ~(available'[l] > 0) /\ available'[l] \in Nat
        BY <1>3, <2>1, <4>1, <4>2
      <4>. QED
        BY <4>3
    <3>. QED
      BY <3>1
  <2>5. \A l \in Lots : available[l] = available'[l] + g[l] /\ g[l] \in Nat
    <3>1. ASSUME NEW l \in Lots, l \in DOMAIN t.want
          PROVE  available[l] = available'[l] + g[l] /\ g[l] \in Nat
      <4>1. g[l] = t.want[l]
        BY <3>1 DEF TakenBy
      <4>. QED
        BY <1>3, <2>1, <2>2, <3>1, <4>1
    <3>2. ASSUME NEW l \in Lots, l \notin DOMAIN t.want
          PROVE  available[l] = available'[l] + g[l] /\ g[l] \in Nat
      <4>1. g[l] = 0
        BY <3>2 DEF TakenBy
      <4>. QED
        BY <1>3, <1>5, <3>2, <4>1
    <3>. QED
      BY <3>1, <3>2
  <2>6. Total(g, A) = Debit(t, m)
    <3>1. \A l \in DOMAIN t.want : MaterialOf[l] = m => l \in A
      BY <2>1, <2>2 DEF ActiveOf, LotsOf
    <3>2. \A l \in A : MaterialOf[l] = m
      BY DEF ActiveOf, LotsOf
    <3>. HIDE DEF A
    <3>. QED
      BY <1>1, <1>4, <3>1, <3>2, DebitOverLots
  <2>. HIDE DEF A, B, g
  <2>7. Total(available', A) = Total(available', B)
    <3>1. \A l \in B : available'[l] \in Int
      BY <1>3, <1>4
    <3>. QED
      BY <1>4, <2>3, <2>4, <3>1, TotalSupport
  <2>8. Total(available, A) = Total(available', A) + Total(g, A)
    <3>1. \A l \in A : /\ available'[l] \in Int /\ g[l] \in Int
                       /\ available[l] = available'[l] + g[l]
      BY <1>3, <1>4, <2>5
    <3>. QED
      BY <1>4, <3>1, TotalSum
  <2>9. Total(available', A) \in Nat /\ Total(g, A) \in Nat
    <3>1. \A l \in A : available'[l] \in Nat /\ g[l] \in Nat
      BY <1>3, <1>4, <2>5
    <3>. QED
      BY <1>4, <3>1, TotalNat
  <2>10. inventory'[m] = Less(inventory[m], Debit(t, m))
    BY <1>9, StockCommitted
  <2> DEFINE a == Total(available', A)
             b == Total(g, A)
  <2>11. inventory'[m] = Less(a + b, b) /\ a \in Nat /\ b \in Nat /\ Total(available', B) = a
    BY <1>2, <2>6, <2>7, <2>8, <2>9, <2>10
  <2>12. Less(a + b, b) = a
    <3>. HIDE DEF a, b
    <3>. QED
      BY <2>11 DEF Less
  <2>. QED
    BY <2>11, <2>12
<1>. QED
  BY <1>7, <1>8, <1>9

(* A commit freezes the lots of the request it adds, and frees those of    *)
(* the one it resolves.                                                    *)
LEMMA NamedOnceAfterCommit ==
    ASSUME IInv, Tables, Alone, apart, NEW c \in Clerks, Commit(c), NEW l \in lots'
    PROVE  NamedOnce(l)'
<1> DEFINE t == tx[c]
           r == t.request
<1>1. IsOpen(c) /\ Finished(t)
  BY DEF Commit
<1>2. WellFormed(t) /\ LotsPart(t) /\ FlagsPart(t) /\ RequestPart(t) /\ Current(t)
  BY <1>1, OpenIsWellFormed DEF WellFormed, Alone
<1>3. /\ lots \subseteq Lots /\ l \in Lots
      /\ \A q \in DOMAIN requests : DOMAIN requests[q].want \subseteq lots
  <2>1. lots \subseteq Lots /\ \A q \in DOMAIN requests : requests[q].want \in Wants
    BY DEF Tables, TypeOK
  <2>2. \A q \in DOMAIN requests : DOMAIN requests[q].want \subseteq lots
    BY <2>1, WantIsOfLots
  <2>3. DOMAIN t.want \subseteq Lots
    BY <1>1, SavedIsNat
  <2>. QED
    BY <2>1, <2>2, <2>3 DEF Commit
<1>4. \A q \in DOMAIN requests :
         /\ q \in DOMAIN requests' /\ requests'[q].want = requests[q].want
         /\ t.op # "resolve" \/ r # q => requests'[q] = requests[q]
  BY RequestsCommitted
<1>5. l \notin lots => Naming(l) = {} /\ isFrozen[l] = FALSE
  <2>1. l \notin lots => ~isFrozen[l] /\ isFrozen[l] \in BOOLEAN
    BY <1>3 DEF Tables, TypeOK
  <2>. QED
    BY <1>3, <2>1 DEF Naming
<1>6. IF isFrozen[l] THEN \E q : Naming(l) = {q} ELSE Naming(l) = {}
  BY <1>5 DEF Alone, NamedOnce
<1>7. isFrozen'[l] = FrozenAfter(t, l)
  BY <1>3 DEF Commit
<1>. HIDE DEF t, r
<1>8. CASE t.op = "request"
  <2>1. PICK new \in DOMAIN requests' \ DOMAIN requests :
           /\ DOMAIN requests' = DOMAIN requests \cup {new}
           /\ requests'[new] = [want |-> t.want, status |-> "PENDING"]
    BY <1>8, RequestsCommitted DEF t
  <2>2. \A q \in DOMAIN requests : requests'[q] = requests[q]
    BY <1>4, <1>8
  <2>3. requests'[new].want = t.want /\ requests'[new].status = "PENDING"
    BY <2>1
  <2>4. CASE l \in DOMAIN t.want
    <3>1. l \in t.flagged
      BY <1>1, <1>2, <1>8, <2>4 DEF Finished, TakesStock, FlagsDone, FlagsPart
    <3>2. isFrozen'[l] = TRUE
      BY <1>7, <1>8, <3>1 DEF FrozenAfter
    <3>3. Naming(l) = {}
      BY <1>2, <1>6, <1>8, <2>4 DEF Current
    <3>4. Naming(l)' = {new}
      BY <2>1, <2>2, <2>3, <2>4, <3>3 DEF Naming
    <3>. QED
      BY <3>2, <3>4 DEF NamedOnce
  <2>5. CASE l \notin DOMAIN t.want
    <3>1. l \notin t.flagged
      BY <1>2, <2>5 DEF FlagsPart
    <3>2. isFrozen'[l] = isFrozen[l]
      BY <1>7, <3>1 DEF FrozenAfter
    <3>3. Naming(l)' = Naming(l)
      BY <2>1, <2>2, <2>3, <2>5 DEF Naming
    <3>. QED
      BY <1>6, <3>2, <3>3 DEF NamedOnce
  <2>. QED
    BY <2>4, <2>5
<1>9. CASE t.op = "resolve"
  <2>1. /\ DOMAIN requests' = DOMAIN requests /\ requests'[r].status = t.verdict
        /\ r \in DOMAIN requests /\ t.want = requests[r].want
        /\ t.verdict # "PENDING" /\ requests[r].status = "PENDING"
    BY <1>2, <1>9, RequestsCommitted DEF RequestPart, Current, t, r
  <2>2. \A q \in DOMAIN requests \ {r} : requests'[q] = requests[q]
    BY <1>4
  <2>3. CASE l \in DOMAIN t.want
    <3>1. l \in t.flagged
      BY <1>1, <1>2, <1>9, <2>3 DEF Finished, LotsDone, FlagsDone, FlagsPart, Current
    <3>2. isFrozen'[l] = FALSE
      BY <1>7, <1>9, <3>1 DEF FrozenAfter
    <3>3. r \in Naming(l)
      BY <2>1, <2>3 DEF Naming
    <3>4. Naming(l) = {r}
      BY <1>6, <3>3
    <3>5. Naming(l)' = {}
      BY <1>4, <2>1, <2>2, <3>4 DEF Naming
    <3>. QED
      BY <3>2, <3>5 DEF NamedOnce
  <2>4. CASE l \notin DOMAIN t.want
    <3>1. l \notin t.flagged
      BY <1>2, <2>4 DEF FlagsPart
    <3>2. isFrozen'[l] = isFrozen[l]
      BY <1>7, <3>1 DEF FrozenAfter
    <3>3. Naming(l)' = Naming(l)
      BY <1>4, <2>1, <2>2, <2>4 DEF Naming
    <3>. QED
      BY <1>6, <3>2, <3>3 DEF NamedOnce
  <2>. QED
    BY <2>3, <2>4
<1>10. CASE t.op \notin {"request", "resolve"}
  <2>1. requests' = requests
    BY <1>10, RequestsCommitted DEF t
  <2>2. l \notin t.flagged
    BY <1>2, <1>10 DEF FlagsPart
  <2>3. isFrozen'[l] = isFrozen[l] /\ Naming(l)' = Naming(l)
    BY <1>7, <2>1, <2>2 DEF FrozenAfter, Naming
  <2>. QED
    BY <1>6, <2>3 DEF NamedOnce
<1>. QED
  BY <1>8, <1>9, <1>10

(* What the other transactions read is still current after a commit.       *)
LEMMA CurrentAfterCommit ==
    ASSUME IInv, Tables, Alone, apart, NEW c \in Clerks, Commit(c),
           NEW d \in Clerks, tx'[d] # Idle
    PROVE  Current(tx[d])'
<1> DEFINE t == tx[c]
           u == tx[d]
<1>1. d # c /\ tx'[d] = u /\ IsOpen(c) /\ IsOpen(d)
  BY DEF Commit, IInv, TablesOK, IsOpen
<1>2. MaterialsOf(t) \cap MaterialsOf(u) = {}
  BY <1>1 DEF Alone, Exclusive
<1>3. WellFormed(u) /\ LotsPart(u) /\ StockPart(u) /\ RequestPart(u) /\ Current(u)
  BY <1>1, OpenIsWellFormed DEF WellFormed, Alone
<1>4. RequestPart(t)
  BY <1>1, OpenIsWellFormed DEF WellFormed
<1>5. DOMAIN u.want \subseteq Lots /\ DOMAIN u.want # {} /\ DOMAIN t.want \subseteq Lots
  BY <1>1, SavedIsNat
<1>6. DOMAIN u.want \cap DOMAIN t.want = {}
  BY <1>2 DEF MaterialsOf
<1>7. DOMAIN u.read \subseteq DOMAIN u.want
  BY <1>3 DEF LotsPart, IsReceipt, IsTaking
<1>8. \A l \in DOMAIN u.want : /\ available'[l] = available[l] /\ isActive'[l] = isActive[l]
                               /\ isFrozen'[l] = isFrozen[l]
  BY <1>5, <1>6, LotsCommitted
<1>9. \A m \in DOMAIN u.stockRead : inventory'[m] = inventory[m]
  <2>1. \A m \in MaterialsOf(u) : m \in Materials
    BY <1>5, StockAssumption DEF MaterialsOf
  <2>2. \A m \in DOMAIN u.stockRead : m \in Materials /\ m \notin MaterialsOf(t)
    BY <1>2, <1>3, <2>1 DEF StockPart
  <2>. QED
    BY <2>2, StockCommitted
<1>10. \A l \in lots' : l \in lots \/ l \in DOMAIN t.want
  BY DEF Commit
<1>11. u.op = "resolve" => requests'[u.request] = requests[u.request]
  <2>1. CASE t.op = "resolve" /\ u.op = "resolve" /\ t.request = u.request
    BY <1>3, <1>4, <1>5, <1>6, <2>1 DEF RequestPart
  <2>2. CASE ~(t.op = "resolve" /\ u.op = "resolve" /\ t.request = u.request)
    BY <1>3, <2>2, RequestsCommitted DEF RequestPart
  <2>. QED
    BY <2>1, <2>2
<1>12. /\ \A l \in DOMAIN u.read : u.read[l] = available'[l] /\ isActive'[l]
       /\ \A m \in DOMAIN u.stockRead : u.stockRead[m] = inventory'[m]
       /\ u.op = "receive" => DOMAIN u.want \cap lots' = {}
       /\ u.op = "request" => \A l \in DOMAIN u.want : ~isFrozen'[l]
       /\ u.op = "resolve" => /\ requests'[u.request].status = "PENDING"
                              /\ u.claimed => u.flags = DOMAIN u.want
  BY <1>3, <1>6, <1>7, <1>8, <1>9, <1>10, <1>11 DEF Current
<1>. QED
  BY <1>1, <1>12 DEF Current

(* A commit keeps all that is true of transactions that are apart.         *)
LEMMA CommitKeepsAlone ==
    ASSUME IInv, IInv', Tables, Tables', Alone, NEW c \in Clerks, Commit(c)
    PROVE  Alone'
<1> SUFFICES ASSUME apart
             PROVE  /\ Exclusive'
                    /\ (\A d \in Clerks : IsOpen(d) => Current(tx[d]))'
                    /\ (\A l \in lots : Subtracted(l) /\ NamedOnce(l))'
                    /\ (\A m \in Materials : Balanced(m))'
  BY DEF Alone, Commit
<1>1. Exclusive'
  <2>1. \A d \in Clerks : tx'[d] = Idle \/ tx'[d] = tx[d]
    BY DEF Commit, IInv, TablesOK
  <2>. QED
    BY <2>1 DEF Alone, Exclusive, IsOpen, MaterialsOf
<1>2. (\A d \in Clerks : IsOpen(d) => Current(tx[d]))'
  BY CurrentAfterCommit DEF IsOpen
<1>3. ASSUME NEW l \in lots'
      PROVE  Subtracted(l)'
  <2> DEFINE t == tx[c]
  <2>1. /\ lots \subseteq Lots /\ l \in Lots
        /\ available[l] \in Nat /\ taken[l] \in Nat
        /\ Received[l] \in Nat
    BY StockAssumption DEF Tables, TypeOK
  <2>2. CASE l \in DOMAIN t.want /\ t.op = "receive"
    <3>1. available'[l] = Received[l] /\ taken' = taken /\ l \notin lots
      BY <2>2, LotsCommitted
    <3>2. taken[l] = 0
      BY <2>1, <3>1 DEF Tables
    <3>3. taken'[l] = 0
      BY <3>1, <3>2
    <3>. QED
      BY <2>1, <3>1, <3>3 DEF Subtracted
  <2>3. CASE l \in DOMAIN t.want /\ TakesStock(t) /\ t.op # "receive"
    <3>1. /\ l \in lots /\ available'[l] = available[l] - t.want[l]
          /\ taken'[l] = taken[l] + t.want[l]
      BY <2>3, LotsCommitted
    <3>2. Received[l] = available[l] + taken[l]
      BY <3>1 DEF Alone, Subtracted
    <3>3. t.want[l] \in Nat
      BY <2>3, SavedIsNat DEF Commit
    <3>. QED
      BY <2>1, <3>1, <3>2, <3>3 DEF Subtracted
  <2>4. CASE l \notin DOMAIN t.want \/ ~TakesStock(t)
    <3>1. available'[l] = available[l] /\ taken'[l] = taken[l]
      BY <2>1, <2>4, LotsCommitted
    <3>2. l \in lots
      BY <2>4 DEF Commit, TakesStock
    <3>. QED
      BY <3>1, <3>2 DEF Alone, Subtracted
  <2>. QED
    BY <2>2, <2>3, <2>4
<1>4. (\A l \in lots : Subtracted(l) /\ NamedOnce(l))'
  BY <1>3, NamedOnceAfterCommit
<1>5. (\A m \in Materials : Balanced(m))'
  BY BalancedAfterCommit
<1>. QED
  BY <1>1, <1>2, <1>4, <1>5

-----------------------------------------------------------------------------
StockInv == IInv /\ Tables /\ Alone

(* The invariant at the start.                                             *)
LEMMA StockInit == Init => StockInv
<1> SUFFICES ASSUME Init PROVE StockInv
  OBVIOUS
<1>1. Tables
  <2>1. TypeOK
    <3>1. ASSUME NEW m \in Materials
          PROVE  Total(Received, Stored \cap LotsOf(m)) \in Nat
      <4>1. /\ IsFiniteSet(Stored \cap LotsOf(m))
            /\ \A l \in Stored \cap LotsOf(m) : Received[l] \in Nat
        BY LotsAreFinite, StockAssumption DEF LotsOf
      <4>. QED
        BY <4>1, TotalNat
    <3>2. \A l \in Lots : IF l \in Stored THEN Received[l] \in Nat ELSE 0 \in Nat
      BY StockAssumption
    <3>3. inventory \in [Materials -> Nat]
      BY <3>1 DEF Init
    <3>4. available \in [Lots -> Nat] /\ taken \in [Lots -> Nat]
      BY <3>2 DEF Init
    <3>5. isActive \in [Lots -> BOOLEAN] /\ isFrozen \in [Lots -> BOOLEAN]
      BY DEF Init
    <3>. QED
      BY <3>3, <3>4, <3>5, StockAssumption DEF Init, TypeOK
  <2>2. DOMAIN requests = 1..0
    BY DEF Init
  <2>. QED
    BY <2>1, <2>2 DEF Init, Tables, IsOpen
<1>2. Alone
  <2>1. \A l \in Lots : ~isFrozen[l] /\ Naming(l) = {}
    BY DEF Init, Naming
  <2>2. \A l \in lots : Subtracted(l)
    BY StockAssumption DEF Init, Subtracted
  <2>3. \A l \in lots : NamedOnce(l)
    BY <2>1, StockAssumption DEF Init, NamedOnce
  <2>4. ASSUME NEW m \in Materials
        PROVE  Balanced(m)
    <3>1. ActiveOf(m) = Stored \cap LotsOf(m) /\ IsFiniteSet(Stored \cap LotsOf(m))
      BY LotsAreFinite DEF Init, ActiveOf, LotsOf
    <3>2. \A l \in Stored \cap LotsOf(m) : available[l] = Received[l]
      BY DEF Init, LotsOf
    <3>3. Total(available, Stored \cap LotsOf(m)) = Total(Received, Stored \cap LotsOf(m))
      BY <3>1, <3>2, TotalEqual
    <3>. QED
      BY <3>1, <3>3 DEF Init, Balanced
  <2>. QED
    BY <2>2, <2>3, <2>4 DEF Init, Alone, Exclusive, IsOpen
<1>. QED
  BY <1>1, <1>2, InitOK DEF StockInv

(* And after every step.                                                   *)
LEMMA StockStep == StockInv /\ [Next]_vars => StockInv'
<1> SUFFICES ASSUME StockInv, [Next]_vars PROVE StockInv'
  OBVIOUS
<1>1. IInv /\ Tables /\ Alone /\ IInv'
  BY StepOK DEF StockInv
<1>2. CASE UNCHANGED vars
  <2>1. TypeOK'
    BY <1>1, <1>2 DEF Tables, TypeOK, Wants, vars
  <2>2. ASSUME NEW c \in Clerks, tx'[c] # Idle
        PROVE  WellFormed(tx[c])'
    <3>1. WellFormed(tx[c]) /\ tx' = tx /\ lots' = lots /\ requests' = requests
      BY <1>1, <1>2, <2>2 DEF Tables, IsOpen, vars
    <3>. QED
      BY <3>1 DEF WellFormed, LotsPart, IsReceipt, IsTaking, Wants, FlagsPart, StockPart,
                  LotsDone, FlagsDone, TakesStock, StockAfter, Debit, MaterialsOf, RequestPart
  <2>3. Tables'
    BY <1>1, <1>2, <2>1, <2>2 DEF Tables, IsOpen, vars
  <2>4. Exclusive /\ apart => Exclusive'
    BY <1>2 DEF Exclusive, IsOpen, MaterialsOf, vars
  <2>5. ASSUME NEW c \in Clerks, Current(tx[c])
        PROVE  Current(tx[c])'
    BY <1>2, <2>5 DEF Current, vars
  <2>6. ASSUME NEW l, Subtracted(l), NamedOnce(l)
        PROVE  Subtracted(l)' /\ NamedOnce(l)'
    BY <1>2, <2>6 DEF Subtracted, NamedOnce, Naming, vars
  <2>7. ASSUME NEW m, Balanced(m)
        PROVE  Balanced(m)'
    BY <1>2, <2>7 DEF Balanced, ActiveOf, vars
  <2>8. Alone'
    BY <1>1, <1>2, <2>4, <2>5, <2>6, <2>7 DEF Alone, IsOpen, vars
  <2>. QED
    BY <1>1, <2>3, <2>8 DEF StockInv
<1>3. CASE Next
  <2>1. PICK c \in Clerks :
          \/ \E l \in Lots : Receive(c, l)
          \/ \E op \in {"consume", "dispose"}, want \in Wants : TakeLots(c, op, want)
          \/ \E want \in Wants : ConsumeFifo(c, want)
          \/ \E want \in Wants : AskDisposal(c, want)
          \/ \E r \in DOMAIN requests, verdict \in {"APPROVED", "REJECTED"} :
                 StartResolve(c, r, verdict)
          \/ Claim(c)
          \/ \E l \in Lots : WriteFlag(c, l) \/ ReadLot(c, l) \/ WriteLot(c, l)
          \/ \E m \in Materials : ReadStock(c, m) \/ WriteStock(c, m)
          \/ Commit(c)
          \/ Rollback(c)
    BY <1>3, Zenon DEF Next
  <2>2. CASE Commit(c)
    BY <1>1, <2>2, CommitKeepsTables, CommitKeepsAlone DEF StockInv
  <2>3. CASE \/ \E l \in Lots : Receive(c, l)
             \/ \E op \in {"consume", "dispose"}, want \in Wants : TakeLots(c, op, want)
             \/ \E want \in Wants : ConsumeFifo(c, want)
             \/ \E want \in Wants : AskDisposal(c, want)
             \/ \E r \in DOMAIN requests, verdict \in {"APPROVED", "REJECTED"} :
                    StartResolve(c, r, verdict)
    BY <1>1, <2>3, OpeningsKeepTables, OpeningsKeepAlone DEF StockInv
  <2>4. CASE \/ Claim(c)
             \/ \E l \in Lots : WriteFlag(c, l) \/ ReadLot(c, l) \/ WriteLot(c, l)
             \/ \E m \in Materials : ReadStock(c, m) \/ WriteStock(c, m)
             \/ Rollback(c)
    BY <1>1, <2>4, StepsKeepTables, StepsKeepAlone DEF StockInv
  <2>. QED
    BY <2>1, <2>2, <2>3, <2>4
<1>. QED
  BY <1>2, <1>3

(* The tables are well formed whatever overlaps, and while no two          *)
(* transactions on one material overlapped the consolidated balance of a   *)
(* material is the sum of its active lots.                                 *)
THEOREM BalanceIsLots == Spec => []InventoryIsLots
<1>1. StockInv => InventoryIsLots
  BY DEF StockInv, Tables, Alone, Balanced, ActiveOf, InventoryIsLots
<1>. QED
  BY StockInit, StockStep, <1>1, PTL DEF Spec

(* What the committed consumptions and disposals took of a lot is what it  *)
(* lost, while no two transactions on one material overlapped.             *)
THEOREM LotsLoseWhatIsTaken == Spec => []TakenIsSubtracted
<1>1. StockInv => TakenIsSubtracted
  BY DEF StockInv, Alone, Subtracted, TakenIsSubtracted
<1>. QED
  BY StockInit, StockStep, <1>1, PTL DEF Spec

(* A lot is frozen exactly while one pending request names it, while no    *)
(* two transactions on one material overlapped.                            *)
THEOREM FrozenIffNamed == Spec => []FrozenWhilePending
<1>1. StockInv => FrozenWhilePending
  <2>1. \A r : Cardinality({r}) = 1
    BY FS_Singleton
  <2>. QED
    BY <2>1 DEF StockInv, Alone, NamedOnce, FrozenWhilePending
<1>. QED
  BY StockInit, StockStep, <1>1, PTL DEF Spec

(* A resolved waste request is not resolved again, while no two            *)
(* transactions on one material overlapped.                                *)
THEOREM VerdictsStand == Spec => ResolvedOnce
<1>1. StockInv /\ [Next]_vars =>
        [apart => \A r \in DOMAIN requests :
            requests[r].status # "PENDING" => requests'[r] = requests[r]]_vars
  <2> SUFFICES ASSUME StockInv, Next, apart, NEW r \in DOMAIN requests,
                      requests[r].status # "PENDING"
               PROVE  requests'[r] = requests[r]
    OBVIOUS
  <2>1. CASE \E c \in Clerks : Commit(c)
    <3>1. PICK c \in Clerks : Commit(c)
      BY <2>1
    <3>2. IInv /\ Tables /\ Current(tx[c])
      BY <3>1 DEF StockInv, Alone, Commit
    <3>3. tx[c].op # "resolve" \/ tx[c].request # r
      BY <3>2 DEF Current
    <3>. QED
      BY <3>1, <3>2, <3>3, RequestsCommitted
  <2>2. CASE ~\E c \in Clerks : Commit(c)
    <3>1. UNCHANGED tables
      BY <2>2 DEF Next, Receive, TakeLots, ConsumeFifo, AskDisposal, StartResolve, Open, Claim,
           WriteFlag, ReadLot, WriteLot, ReadStock, WriteStock, Rollback, Step
    <3>. QED
      BY <3>1 DEF tables
  <2>. QED
    BY <2>1, <2>2
<1>. QED
  BY StockInit, StockStep, <1>1, PTL DEF Spec, ResolvedOnce
=============================================================================
