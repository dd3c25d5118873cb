-------------------------- MODULE FulfilmentProofs --------------------------
(***************************************************************************)
(* Theorems about the store (Stock) and about Fulfilment, for every set of *)
(* orders, items, components and admin workers: the ledger and its caches  *)
(* never drift apart, Fulfilment implements that store, and what it does   *)
(* to payments, refunds, reservations and the outbox is consistent; with   *)
(* one admin worker no item is consumed or put back twice.                 *)
(***************************************************************************)
EXTENDS Fulfilment, FiniteSetTheorems, WellFoundedInduction, TLAPS

-----------------------------------------------------------------------------
(* Sums.                                                                   *)

(* A set of numbers that is not empty has a least one: induction, for the  *)
(* sums below.                                                             *)
LEMMA LeastNumber ==
  ASSUME NEW T \in SUBSET Nat, T # {}
  PROVE  \E n \in T : \A k \in Nat : k < n => k \notin T
<1>1. PICK n \in T : \A k \in T : <<k, n>> \notin OpToRel(<, Nat)
  BY NatLessThanWellFounded, WFMin
<1> QED  BY <1>1 DEF OpToRel

(* s holds the sums of the first members of f.                             *)
IsRunning(s, f, N) == s[0] = 0 /\ \A n \in 1 .. N : s[n] = s[n-1] + f[n]

(* Running sums are unique: a smallest place where two differ would not be *)
(* 0, and they agree just before it.                                       *)
LEMMA SameRunning ==
  ASSUME NEW N \in Nat, NEW f, NEW g, NEW s, NEW t, IsRunning(s, f, N), IsRunning(t, g, N),
         \A n \in 1 .. N : f[n] = g[n]
  PROVE  \A n \in 0 .. N : s[n] = t[n]
<1> DEFINE Differ == {n \in 0 .. N : s[n] # t[n]}
<1>1. SUFFICES ASSUME Differ # {} PROVE FALSE
  OBVIOUS
<1>2. PICK n \in Differ : \A k \in Nat : k < n => k \notin Differ
  <2>1. Differ \in SUBSET Nat
    OBVIOUS
  <2> HIDE DEF Differ
  <2> QED  BY <1>1, <2>1, LeastNumber
<1>3. n \in 1 .. N /\ n - 1 \in 0 .. N /\ n - 1 < n
  BY DEF IsRunning
<1>4. s[n-1] = t[n-1]
  BY <1>2, <1>3
<1> QED  BY <1>2, <1>3, <1>4 DEF IsRunning

(* Running sums of numbers exist: a smallest length without one could be   *)
(* reached from the one before.                                            *)
LEMMA RunningExists ==
  ASSUME NEW N \in Nat, NEW f, NEW D \in {Int, Nat}, \A n \in 1 .. N : f[n] \in D
  PROVE  \E s \in [0 .. N -> D] : IsRunning(s, f, N)
<1> DEFINE Short == {n \in 0 .. N : ~ \E s \in [0 .. n -> D] : IsRunning(s, f, n)}
<1>1. SUFFICES ASSUME Short # {} PROVE FALSE
  OBVIOUS
<1>2. PICK n \in Short : \A k \in Nat : k < n => k \notin Short
  <2>1. Short \in SUBSET Nat
    OBVIOUS
  <2> HIDE DEF Short
  <2> QED  BY <1>1, <2>1, LeastNumber
<1>3. CASE n = 0
  <2> DEFINE s == [k \in 0 .. 0 |-> 0]
  <2>1. s \in [0 .. 0 -> D] /\ IsRunning(s, f, 0)
    BY DEF IsRunning
  <2> QED  BY <1>2, <1>3, <2>1
<1>4. CASE n # 0
  <2>1. n - 1 \in 0 .. N /\ n - 1 < n /\ n \in 1 .. N
    BY <1>4
  <2>2. PICK s \in [0 .. n - 1 -> D] : IsRunning(s, f, n - 1)
    BY <1>2, <2>1
  <2> DEFINE t == [k \in 0 .. n |-> IF k < n THEN s[k] ELSE s[n-1] + f[n]]
  <2>3. s[n-1] + f[n] \in D
    BY <2>1, <2>2
  <2>4. t \in [0 .. n -> D]
    BY <2>1, <2>2, <2>3
  <2>5. IsRunning(t, f, n)
    BY <2>1, <2>2 DEF IsRunning
  <2> QED  BY <1>2, <2>4, <2>5
<1> QED  BY <1>3, <1>4

(* SumTo is the last of the running sums.                                  *)
LEMMA SumIsLast ==
  ASSUME NEW N \in Nat, NEW f, NEW s, IsRunning(s, f, N), \A n \in 1 .. N : f[n] \in Int
  PROVE  SumTo(f, N) = s[N]
<1> DEFINE Rec(u) == u = [n \in 0 .. N |-> IF n = 0 THEN 0 ELSE u[n-1] + f[n]]
           c == CHOOSE u : Rec(u)
<1>1. PICK t \in [0 .. N -> Int] : IsRunning(t, f, N)
  BY RunningExists
<1>2. Rec(t)
  BY <1>1 DEF IsRunning
<1>3. Rec(c)
  BY <1>2
<1>4. IsRunning(c, f, N)
  <2> HIDE DEF c
  <2> QED  BY <1>3 DEF IsRunning
<1>5. SumTo(f, N) = c[N]
  BY DEF SumTo
<1> HIDE DEF c, Rec
<1> QED  BY <1>4, <1>5, SameRunning

(* Facts about SumTo.                                                      *)
LEMMA SumType ==
  ASSUME NEW N \in Nat, NEW f, NEW D \in {Int, Nat}, \A n \in 1 .. N : f[n] \in D
  PROVE  SumTo(f, N) \in D
<1>1. PICK s \in [0 .. N -> D] : IsRunning(s, f, N)
  BY RunningExists
<1> QED  BY <1>1, SumIsLast

LEMMA SumOfNone == ASSUME NEW f PROVE SumTo(f, 0) = 0
<1>0. 0 \in Nat /\ \A n \in 1 .. 0 : f[n] \in Int
  OBVIOUS
<1>1. PICK s \in [0 .. 0 -> Int] : IsRunning(s, f, 0)
  BY <1>0, RunningExists
<1> QED  BY <1>0, <1>1, SumIsLast DEF IsRunning

LEMMA SumOfOneMore ==
  ASSUME NEW N \in Nat, NEW f, NEW g, \A n \in 1 .. N + 1 : g[n] \in Int,
         \A n \in 1 .. N : f[n] = g[n]
  PROVE  SumTo(g, N + 1) = SumTo(f, N) + g[N+1]
<1>0. N + 1 \in Nat
  OBVIOUS
<1>1. PICK t \in [0 .. N + 1 -> Int] : IsRunning(t, g, N + 1)
  BY <1>0, RunningExists
<1>2. IsRunning(t, f, N)
  BY <1>1 DEF IsRunning
<1>3. SumTo(f, N) = t[N] /\ SumTo(g, N + 1) = t[N+1]
  BY <1>0, <1>1, <1>2, SumIsLast
<1> QED  BY <1>1, <1>3 DEF IsRunning

-----------------------------------------------------------------------------
(* The store: types, no oversold row, and no drift between the cached      *)
(* balances and the ledger, for every sequence of postings.                *)
StockInv == StockTypeOK /\ NotOversold /\ NoDrift

(* The movement of a posting is a whole number.                            *)
LEMMA ChangeIsInt ==
  ASSUME NEW p \in Posting, NEW c \in Component
  PROVE  /\ Change(p.hand, p.size, c) \in Int
         /\ Change(p.held, p.size, c) \in Int
  BY DEF Posting, Change, Direction

(* Appending a posting adds its movement to the sum of the column.         *)
LEMMA ColumnOfAppend ==
  ASSUME NEW postings \in Seq(Posting), NEW p \in Posting,
         NEW d \in {"hand", "held"}, NEW c \in Component
  PROVE  ColumnSum(Append(postings, p), d, c) = ColumnSum(postings, d, c) + Change(p[d], p.size, c)
<1> DEFINE N == Len(postings)
           L == Append(postings, p)
<1>1. N \in Nat /\ Len(L) = N + 1 /\ L[N+1] = p /\ \A n \in 1 .. N : L[n] = postings[n]
  OBVIOUS
<1>2. DOMAIN L = 1 .. N + 1 /\ DOMAIN postings = 1 .. N
  BY <1>1
<1>3. \A n \in 1 .. N + 1 : L[n] \in Posting
  BY <1>1
<1> HIDE DEF L, N
<1>4. /\ \A n \in 1 .. N + 1 : Column(L, d, c)[n] \in Int
      /\ \A n \in 1 .. N : Column(postings, d, c)[n] = Column(L, d, c)[n]
      /\ Column(L, d, c)[N+1] = Change(p[d], p.size, c)
  <2>1. \A n \in 1 .. N + 1 : Column(L, d, c)[n] = Change(L[n][d], L[n].size, c)
    BY <1>2 DEF Column
  <2>2. \A n \in 1 .. N : Column(postings, d, c)[n] = Change(postings[n][d], postings[n].size, c)
    BY <1>2 DEF Column
  <2>3. \A n \in 1 .. N + 1 : Change(L[n][d], L[n].size, c) \in Int
    BY <1>3, ChangeIsInt
  <2>4. N + 1 \in 1 .. N + 1 /\ 1 .. N \subseteq 1 .. N + 1
    BY <1>1
  <2> QED  BY <1>1, <2>1, <2>2, <2>3, <2>4
<1>5. SumTo(Column(L, d, c), N + 1) = SumTo(Column(postings, d, c), N) + Column(L, d, c)[N+1]
  BY <1>1, <1>4, SumOfOneMore
<1> QED  BY <1>1, <1>4, <1>5 DEF ColumnSum, L, N

LEMMA StockInitInv == StockInit => StockInv
<1> SUFFICES ASSUME StockInit PROVE StockInv
  OBVIOUS
<1> USE OpeningAssumption
<1>1. OpeningPosting \in Posting
  BY DEF OpeningPosting, Posting, Reason, Direction
<1>2. StockTypeOK
  BY <1>1 DEF StockInit, StockTypeOK
<1>3. NotOversold
  BY DEF StockInit, NotOversold, StockSane
<1>4. ASSUME NEW c \in Component, NEW d \in {"hand", "held"}
      PROVE  ColumnSum(ledger, d, c) = Change(OpeningPosting[d], Opening, c)
  <2>1. <<>> \in Seq(Posting) /\ ledger = Append(<<>>, OpeningPosting)
    BY DEF StockInit
  <2>2. ColumnSum(<<>>, d, c) = 0
    BY SumOfNone DEF ColumnSum
  <2>3. Change(OpeningPosting[d], Opening, c) \in Int /\ OpeningPosting.size = Opening
    BY DEF OpeningPosting, Change
  <2>4. ColumnSum(ledger, d, c)
          = ColumnSum(<<>>, d, c) + Change(OpeningPosting[d], OpeningPosting.size, c)
    BY <1>1, <2>1, ColumnOfAppend
  <2> HIDE DEF OpeningPosting
  <2> QED  BY <2>2, <2>3, <2>4
<1>5. NoDrift
  BY <1>4 DEF NoDrift, StockInit, OpeningPosting, Change
<1> QED BY <1>2, <1>3, <1>5 DEF StockInv

(* The store keeps its types.                                              *)
LEMMA StockTypeAfterInsert ==
  ASSUME StockTypeOK, NEW p \in Posting, Insert(p)
  PROVE  StockTypeOK'
<1>1. ledger' \in Seq(Posting)
  BY DEF Insert, StockTypeOK
<1>2. onHand' \in [Component -> Int] /\ reserved' \in [Component -> Int]
  BY ChangeIsInt DEF Insert, Applied, StockTypeOK
<1> QED BY <1>1, <1>2 DEF StockTypeOK

(* One accepted posting preserves every conjunct of the invariant.         *)
LEMMA InsertInv ==
  ASSUME StockInv, NEW p \in Posting, Insert(p)
  PROVE  StockInv'
<1>1. StockTypeOK'
  BY StockTypeAfterInsert DEF StockInv
<1>2. NotOversold'
  BY DEF Insert, Accepts, NotOversold, StockSane
<1>3. ASSUME NEW c \in Component
      PROVE  /\ onHand'[c] = ColumnSum(ledger', "hand", c)
             /\ reserved'[c] = ColumnSum(ledger', "held", c)
  <2>1. ledger \in Seq(Posting) /\ ledger' = Append(ledger, p)
    BY DEF Insert, StockInv, StockTypeOK
  <2>2. /\ ColumnSum(ledger', "hand", c) = ColumnSum(ledger, "hand", c) + Change(p["hand"], p.size, c)
        /\ ColumnSum(ledger', "held", c) = ColumnSum(ledger, "held", c) + Change(p["held"], p.size, c)
    BY <2>1, ColumnOfAppend
  <2> QED  BY <2>2 DEF Insert, Applied, StockInv, NoDrift
<1> QED BY <1>1, <1>2, <1>3 DEF StockInv, NoDrift

(* The invariant of the store, for every promise-keeping program.          *)
THEOREM StockInvariant == StockSpec => []StockInv
<1>1. StockInv /\ [StockStep]_stockVars => StockInv'
  <2> SUFFICES ASSUME StockInv, [StockStep]_stockVars PROVE StockInv'
    OBVIOUS
  <2>1. CASE StockStep
    BY <2>1, InsertInv DEF StockStep
  <2>2. CASE UNCHANGED stockVars
    BY <2>2 DEF stockVars, StockInv, StockTypeOK, NotOversold, NoDrift
  <2> QED BY <2>1, <2>2
<1> QED BY <1>1, StockInitInv, PTL DEF StockSpec

(* ops.ledger_drift() never finds a row: whatever is posted, the trigger   *)
(* keeps the cached balances equal to the sums over the ledger.            *)
THEOREM StoreNeverDrifts == StockSpec => []NoDrift
<1>1. StockInv => NoDrift
  BY DEF StockInv
<1> QED BY <1>1, StockInvariant, PTL

(* Overselling is impossible: no posting is accepted that would leave a    *)
(* component with negative stock or with more reserved than there is.      *)
THEOREM StoreNeverOversold == StockSpec => []NotOversold
<1>1. StockInv => NotOversold
  BY DEF StockInv
<1> QED BY <1>1, StockInvariant, PTL

-----------------------------------------------------------------------------
(* Fulfilment: the postings it makes.                                      *)


(* A worker that still has a transaction to run has an item to run it on.  *)
WorkHasItem == \A w \in Worker : work[w].stage # "idle" => work[w].todo # <<>>

LEMMA OrderNeedIsSize ==
  ASSUME NEW o \in Order
  PROVE  OrderNeed(o) \in [Component -> Nat]
<1> SUFFICES ASSUME NEW c \in Component
             PROVE  SumTo([k \in DOMAIN Lines[o] |-> Need[Lines[o][k]][c]], Len(Lines[o])) \in Nat
  BY DEF OrderNeed
<1> DEFINE f == [k \in DOMAIN Lines[o] |-> Need[Lines[o][k]][c]]
<1>1. Len(Lines[o]) \in Nat /\ DOMAIN Lines[o] = 1 .. Len(Lines[o])
      /\ \A k \in 1 .. Len(Lines[o]) : Lines[o][k] \in Item
  BY LinesAssumption
<1>2. \A k \in 1 .. Len(Lines[o]) : f[k] \in Nat
  BY <1>1, QuantityAssumption
<1> HIDE DEF f
<1>3. SumTo(f, Len(Lines[o])) \in Nat
  BY <1>1, <1>2, SumType
<1> QED  BY <1>3 DEF f

LEMMA ReserveIsPosting == \A o \in Order : Reserve(o) \in Posting
  BY LinesAssumption, OrderNeedIsSize DEF Reserve, Posting, Reason, Direction, ItemsOf

LEMMA ConsumeIsPosting == \A i \in Item : Consume(i) \in Posting
  BY QuantityAssumption DEF Consume, Posting, Reason, Direction

LEMMA RestockIsPosting ==
  \A i \in Item, reason \in WorkReason, seen \in Seen : Restock(i, reason, seen) \in Posting
  BY QuantityAssumption DEF Restock, Posting, Seen, Direction, Reason, WorkReason

(* An idle worker is well typed, and so is what a request leaves to do.    *)
LEMMA IdleIsWork == Idle \in Work /\ Idle.stage = "idle"
  BY DEF Idle, Work, Stage, Seen, Nothing, WorkReason, Direction

LEMMA ThenIsWork ==
  ASSUME NEW stage \in Stage \ {"idle"}, NEW todo \in Seq(Item), NEW reason \in WorkReason
  PROVE  /\ Then(stage, todo, reason) \in Work
         /\ Then(stage, todo, reason).stage # "idle" => Then(stage, todo, reason).todo # <<>>
  BY DEF Then, Idle, Work, Stage, Seen, Nothing, WorkReason, Direction

(* What an accepted posting does to the rows of an item.                   *)
LEMMA RowsAfterInsert ==
  ASSUME StockTypeOK, NEW p \in Posting, Insert(p), NEW i \in Item, NEW reason
  PROVE  Rows(i, reason)' = IF p.reason = reason /\ i \in p.items
                            THEN Rows(i, reason) \cup {Len(ledger) + 1}
                            ELSE Rows(i, reason)
<1>1. ledger \in Seq(Posting) /\ ledger' = Append(ledger, p)
  BY DEF StockTypeOK, Insert
<1>2. /\ DOMAIN ledger = 1 .. Len(ledger) /\ Len(ledger) \in Nat
      /\ DOMAIN ledger' = 1 .. Len(ledger) + 1
      /\ ledger'[Len(ledger) + 1] = p
      /\ \A n \in 1 .. Len(ledger) : ledger'[n] = ledger[n]
  BY <1>1
<1> QED BY <1>2 DEF Rows

-----------------------------------------------------------------------------
(* Types, and the item of a busy worker.                                   *)

Typed == TypeOK /\ WorkHasItem

LEMMA InitTyped == Init => Typed
<1> SUFFICES ASSUME Init PROVE Typed
  OBVIOUS
<1>1. StockTypeOK
  BY StockInitInv DEF Init, StockInv
<1>2. Idle \in Work
  BY IdleIsWork
<1>3. "queued" \in Station
  BY DEF Station, prod_status, Range
<1> QED BY <1>1, <1>2, <1>3, InputAssumption
        DEF Init, Typed, TypeOK, WorkHasItem, PaymentStatus, Event, Idle

WorkTyped ==
  /\ work \in [Worker -> Work] /\ requests \in 0 .. MaxRequests /\ WorkHasItem
  /\ raced \subseteq {"consuming", "restocking"} \X Item

(* A new request leaves a worker typed if what it leaves to do is.         *)
LEMMA AcceptTyped ==
  ASSUME Typed, NEW w \in Worker, NEW rest \in Work,
         rest.stage # "idle" => rest.todo # <<>>, Accept(w, rest)
  PROVE  WorkTyped'
  BY InputAssumption DEF Typed, TypeOK, WorkHasItem, WorkTyped, Accept

LEMMA ContinueTyped ==
  ASSUME Typed, NEW w \in Worker, NEW rest \in Work,
         rest.stage # "idle" => rest.todo # <<>>, Continue(w, rest)
  PROVE  WorkTyped'
  BY DEF Typed, TypeOK, WorkHasItem, WorkTyped, Continue

(* The first item of a busy worker is an item, and the rest a sequence.    *)
LEMMA HeadOfTodo ==
  ASSUME Typed, NEW w \in Worker, work[w].stage # "idle"
  PROVE  /\ Head(work[w].todo) \in Item
         /\ Tail(work[w].todo) \in Seq(Item)
         /\ work[w].todo \in Seq(Item) \ {<<>>}
         /\ work[w].reason \in WorkReason
         /\ work[w].seen \in Seen
  BY DEF Typed, TypeOK, WorkHasItem, Work

LEMMA ReadTyped ==
  ASSUME Typed, NEW w \in Worker, NEW stage \in {"consuming", "restocking"}, NEW seen \in Seen,
         work[w].stage # "idle", Read(w, stage, seen)
  PROVE  WorkTyped'
<1>1. Found(w, stage, seen) \in Work /\ Found(w, stage, seen).todo # <<>>
  BY HeadOfTodo DEF Found, Work, Stage, Typed, TypeOK
<1>2. Head(work[w].todo) \in Item
  BY HeadOfTodo
<1>3. work' \in [Worker -> Work] /\ WorkHasItem'
  BY <1>1 DEF Read, Typed, TypeOK, WorkHasItem
<1>4. raced' \subseteq {"consuming", "restocking"} \X Item
  BY <1>2 DEF Read, Typed, TypeOK
<1> QED  BY <1>3, <1>4 DEF Read, Typed, TypeOK, WorkTyped

LEMMA NextTyped == Typed /\ [Next]_vars => Typed'
<1> SUFFICES ASSUME Typed, [Next]_vars PROVE Typed'
  OBVIOUS
<1>1. ASSUME NEW o \in Order, MarkPaid(o) PROVE Typed'
  <2>1. StockTypeOK'
    BY <1>1, ReserveIsPosting, StockTypeAfterInsert DEF MarkPaid, Typed, TypeOK
  <2>2. outbox' \in Seq(Event)
    BY <1>1 DEF MarkPaid, Emit, Event, Typed, TypeOK
  <2>3. payment' \in [Order -> PaymentStatus]
    BY <1>1 DEF MarkPaid, PaymentStatus, Typed, TypeOK
  <2> QED BY <1>1, <2>1, <2>2, <2>3 DEF MarkPaid, Typed, TypeOK, WorkHasItem
<1>2. ASSUME NEW w \in Worker, NEW i \in Item, NEW to, AdvanceItem(w, i, to)
      PROVE  Typed'
  <2>1. to \in Station
    BY <1>2 DEF AdvanceItem, Allowed, NextStation, Station, prod_status, Stations, Range, STATION_ORDER
  <2>2. WorkTyped'
    <3> DEFINE rest == IF to = "printing" THEN Then("consume", <<i>>, "consume") ELSE Idle
    <3>1. rest \in Work /\ (rest.stage # "idle" => rest.todo # <<>>)
      <4>1. "consume" \in Stage \ {"idle"} /\ "consume" \in WorkReason
        BY DEF Stage, WorkReason
      <4>2. <<i>> \in Seq(Item)
        OBVIOUS
      <4> QED BY <4>1, <4>2, ThenIsWork, IdleIsWork
    <3> HIDE DEF rest
    <3>2. Accept(w, rest)
      BY <1>2 DEF AdvanceItem, rest
    <3> QED BY <3>1, <3>2, AcceptTyped
  <2> QED BY <1>2, <2>1, <2>2 DEF AdvanceItem, Typed, TypeOK, WorkTyped, stockVars, StockTypeOK
<1>3. ASSUME NEW w \in Worker, NEW o \in Order, NEW restock \in BOOLEAN,
             CancelOrder(w, o, restock)
      PROVE  Typed'
  <2>1. WorkTyped'
    <3> DEFINE rest == IF restock THEN Then("restock", Lines[o], "cancel_restock") ELSE Idle
    <3>1. rest \in Work /\ (rest.stage # "idle" => rest.todo # <<>>)
      <4>1. "restock" \in Stage \ {"idle"} /\ "cancel_restock" \in WorkReason
        BY DEF Stage, WorkReason
      <4>2. Lines[o] \in Seq(Item)
        BY LinesAssumption
      <4> QED BY <4>1, <4>2, ThenIsWork, IdleIsWork
    <3> HIDE DEF rest
    <3>2. Accept(w, rest)
      BY <1>3 DEF CancelOrder, rest
    <3> QED BY <3>1, <3>2, AcceptTyped
  <2>2. station' \in [Item -> Station]
    BY <1>3 DEF CancelOrder, Typed, TypeOK, Station, prod_status, Range
  <2>3. outbox' \in Seq(Event)
    BY <1>3 DEF CancelOrder, Emit, Event, Typed, TypeOK
  <2>4. cancelled' \in [Order -> BOOLEAN]
    BY <1>3 DEF CancelOrder, Typed, TypeOK
  <2> QED BY <1>3, <2>1, <2>2, <2>3, <2>4
          DEF CancelOrder, Typed, TypeOK, WorkTyped, stockVars, StockTypeOK
<1>4. ASSUME NEW w \in Worker, NEW o \in Order, NEW i \in ItemsOf(o) \cup {NoItem},
             NEW q \in Nat, NEW amount \in Amount, NEW restock \in BOOLEAN,
             RefundOrder(w, o, i, q, amount, restock)
      PROVE  Typed'
  <2>1. amount \in Nat /\ (i # NoItem => i \in Item)
    BY InputAssumption, LinesAssumption DEF ItemsOf
  <2>2. WorkTyped'
    <3> DEFINE rest == IF restock /\ i # NoItem THEN Then("restock", <<i>>, "return") ELSE Idle
    <3>1. rest \in Work /\ (rest.stage # "idle" => rest.todo # <<>>)
      <4>1. "restock" \in Stage \ {"idle"} /\ "return" \in WorkReason
        BY DEF Stage, WorkReason
      <4>2. CASE i # NoItem
        <5>1. <<i>> \in Seq(Item)
          BY <2>1, <4>2
        <5> QED BY <4>1, <5>1, ThenIsWork, IdleIsWork
      <4>3. CASE i = NoItem
        BY <4>3, IdleIsWork
      <4> QED BY <4>2, <4>3
    <3> HIDE DEF rest
    <3>2. Accept(w, rest)
      BY <1>4 DEF RefundOrder, rest
    <3> QED BY <3>1, <3>2, AcceptTyped
  <2>3. refunded' \in [Order -> Nat] /\ refundedQty' \in [Item -> Nat]
    BY <1>4, <2>1 DEF RefundOrder, Typed, TypeOK
  <2>4. payment' \in [Order -> PaymentStatus]
    BY <1>4 DEF RefundOrder, StatusAfterRefund, PaymentStatus, Typed, TypeOK
  <2>5. outbox' \in Seq(Event)
    BY <1>4, <2>1 DEF RefundOrder, Emit, Event, Typed, TypeOK
  <2> QED BY <1>4, <2>2, <2>3, <2>4, <2>5
          DEF RefundOrder, Typed, TypeOK, WorkTyped, stockVars, StockTypeOK
<1>5. ASSUME NEW w \in Worker, NEW c \in Component, NEW n \in Delta, AdjustStock(w, c, n)
      PROVE  Typed'
  <2>1. n \in Int
    BY InputAssumption
  <2>2. StockTypeOK'
    <3> DEFINE p == Adjustment(c, n)
    <3>1. p \in Posting
      BY <2>1 DEF Adjustment, Posting, Reason, Direction
    <3> QED BY <1>5, <3>1, StockTypeAfterInsert DEF AdjustStock, Typed, TypeOK
  <2>3. WorkTyped'
    BY <1>5, IdleIsWork, AcceptTyped DEF AdjustStock
  <2> QED BY <1>5, <2>2, <2>3 DEF AdjustStock, Typed, TypeOK, WorkTyped, orderVars
<1>6. ASSUME NEW w \in Worker, FollowUp(w) \/ Crash(w) PROVE Typed'
  <2>1. orderVars' = orderVars
    BY <1>6 DEF FollowUp, Crash, ConsumeRead, ConsumeWrite, RestockRead, RestockWrite
  <2>2. Idle \in Work /\ Idle.stage = "idle"
    BY IdleIsWork
  <2>3. StockTypeOK /\ (UNCHANGED stockVars => StockTypeOK')
    BY DEF Typed, TypeOK, StockTypeOK, stockVars
  <2>4. CASE ConsumeRead(w) \/ RestockRead(w)
    <3>1. PICK stage \in {"consuming", "restocking"}, seen \in Seen : Read(w, stage, seen)
      BY <2>4 DEF ConsumeRead, RestockRead, Seen, Direction
    <3>2. work[w].stage # "idle" /\ UNCHANGED stockVars
      BY <2>4 DEF ConsumeRead, RestockRead
    <3>3. WorkTyped'
      BY <3>1, <3>2, ReadTyped
    <3> QED BY <2>1, <2>3, <3>2, <3>3 DEF Typed, TypeOK, WorkTyped, orderVars
  <2>5. CASE ConsumeWrite(w)
    <3>1. Consume(Head(work[w].todo)) \in Posting
      BY <2>5, HeadOfTodo, ConsumeIsPosting DEF ConsumeWrite
    <3>2. StockTypeOK'
      BY <2>3, <2>5, <3>1, StockTypeAfterInsert DEF ConsumeWrite
    <3> QED BY <2>1, <2>2, <2>5, <3>2, ContinueTyped
            DEF ConsumeWrite, Typed, TypeOK, WorkTyped, orderVars
  <2>6. CASE RestockWrite(w)
    <3> DEFINE p == Restock(Head(work[w].todo), work[w].reason, work[w].seen)
               rest == Then("restock", Tail(work[w].todo), work[w].reason)
    <3>1. p \in Posting
      BY <2>6, HeadOfTodo, RestockIsPosting DEF RestockWrite
    <3>2. rest \in Work /\ (rest.stage # "idle" => rest.todo # <<>>)
      BY <2>6, HeadOfTodo, ThenIsWork DEF RestockWrite, Stage
    <3> HIDE DEF p, rest
    <3>3. \/ Insert(p) /\ Continue(w, rest)
          \/ UNCHANGED stockVars /\ Continue(w, Idle)
      BY <2>6 DEF RestockWrite, p, rest
    <3>4. StockTypeOK'
      BY <2>3, <3>1, <3>3, StockTypeAfterInsert
    <3> QED BY <2>1, <2>2, <3>2, <3>3, <3>4, ContinueTyped DEF Typed, TypeOK, WorkTyped, orderVars
  <2>7. CASE Crash(w)
    BY <2>1, <2>2, <2>3, <2>7, ContinueTyped DEF Crash, Typed, TypeOK, WorkTyped, orderVars
  <2> QED BY <1>6, <2>4, <2>5, <2>6, <2>7 DEF FollowUp
<1>7. CASE UNCHANGED vars
  BY <1>7 DEF vars, stockVars, orderVars, StockTypeOK, Typed, TypeOK, WorkHasItem
<1>8. CASE Settle
  BY <1>1, <1>7, <1>8 DEF Settle, MarkPaidNothing
<1>9. ASSUME NEW w \in Worker, NewRequest(w) PROVE Typed'
  <2>1. ASSUME NEW o \in Order, NEW i \in ItemsOf(o) \cup {NoItem},
               NEW q \in 0 .. (IF i = NoItem THEN 0 ELSE Qty[i])
        PROVE  q \in Nat
    OBVIOUS
  <2> QED BY <1>2, <1>3, <1>4, <1>5, <1>9, <2>1 DEF NewRequest
<1> QED BY <1>6, <1>7, <1>8, <1>9 DEF Next

LEMMA AlwaysTyped == Spec => []Typed
  BY InitTyped, NextTyped, PTL DEF Spec

(* Every variable of Fulfilment keeps its type.                            *)
THEOREM FulfilmentTypes == Spec => []TypeOK
<1>1. Typed => TypeOK
  BY DEF Typed
<1> QED BY <1>1, AlwaysTyped, PTL

-----------------------------------------------------------------------------
(* Fulfilment implements the promise of the store.                         *)

LEMMA InsertIsStockStep == ASSUME NEW p \in Posting, ledger \in Seq(Posting), Insert(p)
                           PROVE  StockStep
<1>1. Last(ledger') = p
  BY DEF Insert, Last
<1> QED BY <1>1 DEF StockStep

LEMMA NextIsStockStep == Typed /\ [Next]_vars => [StockStep]_stockVars
<1> SUFFICES ASSUME Typed, [Next]_vars PROVE StockStep \/ UNCHANGED stockVars
  OBVIOUS
<1>1. ledger \in Seq(Posting)
  BY DEF Typed, TypeOK, StockTypeOK
<1>2. CASE Settle
  BY <1>1, <1>2, ReserveIsPosting, InsertIsStockStep DEF Settle, MarkPaid, MarkPaidNothing, vars
<1>3. ASSUME NEW w \in Worker, NewRequest(w) PROVE StockStep \/ UNCHANGED stockVars
  <2>1. ASSUME NEW c \in Component, NEW n \in Delta, AdjustStock(w, c, n) PROVE StockStep
    <3>1. Adjustment(c, n) \in Posting
      BY InputAssumption DEF Adjustment, Posting, Reason, Direction
    <3> QED BY <1>1, <2>1, <3>1, InsertIsStockStep DEF AdjustStock
  <2> QED BY <1>3, <2>1 DEF NewRequest, AdvanceItem, CancelOrder, RefundOrder
<1>4. ASSUME NEW w \in Worker, FollowUp(w) \/ Crash(w) PROVE StockStep \/ UNCHANGED stockVars
  <2>1. CASE ConsumeWrite(w)
    <3>1. Consume(Head(work[w].todo)) \in Posting
      BY <2>1, HeadOfTodo, ConsumeIsPosting DEF ConsumeWrite
    <3> QED BY <1>1, <2>1, <3>1, InsertIsStockStep DEF ConsumeWrite
  <2>2. CASE RestockWrite(w)
    <3>1. Restock(Head(work[w].todo), work[w].reason, work[w].seen) \in Posting
      BY <2>2, HeadOfTodo, RestockIsPosting DEF RestockWrite
    <3> QED BY <1>1, <2>2, <3>1, InsertIsStockStep DEF RestockWrite
  <2> QED BY <1>4, <2>1, <2>2 DEF FollowUp, ConsumeRead, RestockRead, Crash
<1>5. CASE UNCHANGED vars
  BY <1>5 DEF vars
<1> QED BY <1>2, <1>3, <1>4, <1>5 DEF Next

(* Every transaction of the order desk, the workshop and the webhook,      *)
(* however they interleave and wherever they are cut off, is a step the    *)
(* store allows.                                                           *)
THEOREM FulfilmentKeepsStorePromise == Spec => StoreDiscipline
<1>1. Init => StockInit
  BY DEF Init
<1> QED BY <1>1, NextIsStockStep, AlwaysTyped, PTL DEF Spec, StoreDiscipline, StockSpec

(* The cached stock agrees with the ledger after every step of Fulfilment. *)
THEOREM FulfilmentNeverDrifts == Spec => []NoDrift
  BY FulfilmentKeepsStorePromise, StoreNeverDrifts, PTL DEF StoreDiscipline

-----------------------------------------------------------------------------
(* Payments, refunds and reservations.                                     *)

(* Only mark_paid writes reserve rows: any other posting leaves them.      *)
LEMMA ReservesKept ==
  ASSUME StockTypeOK, NEW i \in Item,
         UNCHANGED stockVars \/ \E p \in Posting : p.reason # "reserve" /\ Insert(p)
  PROVE  Rows(i, "reserve")' = Rows(i, "reserve")
<1>1. CASE UNCHANGED stockVars
  BY <1>1 DEF stockVars, Rows
<1>2. CASE \E p \in Posting : p.reason # "reserve" /\ Insert(p)
  BY <1>2, RowsAfterInsert
<1> QED BY <1>1, <1>2

LEMMA AdjustmentKeepsReserves ==
  ASSUME StockTypeOK, NEW w \in Worker, NEW c \in Component, NEW n \in Delta, AdjustStock(w, c, n)
  PROVE  \A i \in Item : Rows(i, "reserve")' = Rows(i, "reserve")
<1>1. Adjustment(c, n) \in Posting /\ Adjustment(c, n).reason # "reserve"
  BY InputAssumption DEF Adjustment, Posting, Reason, Direction
<1> QED  BY <1>1, ReservesKept DEF AdjustStock

LEMMA FollowUpKeepsReserves ==
  ASSUME Typed, NEW w \in Worker, FollowUp(w) \/ Crash(w)
  PROVE  \A i \in Item : Rows(i, "reserve")' = Rows(i, "reserve")
<1>1. UNCHANGED stockVars \/ \E p \in Posting : p.reason # "reserve" /\ Insert(p)
  <2>1. CASE ConsumeWrite(w)
    <3>1. Consume(Head(work[w].todo)) \in Posting
          /\ Consume(Head(work[w].todo)).reason # "reserve"
      BY <2>1, HeadOfTodo, ConsumeIsPosting DEF ConsumeWrite, Consume
    <3> QED BY <2>1, <3>1 DEF ConsumeWrite
  <2>2. CASE RestockWrite(w)
    <3>1. Restock(Head(work[w].todo), work[w].reason, work[w].seen) \in Posting
      BY <2>2, HeadOfTodo, RestockIsPosting DEF RestockWrite
    <3>2. Restock(Head(work[w].todo), work[w].reason, work[w].seen).reason # "reserve"
      BY <2>2, HeadOfTodo DEF RestockWrite, Restock, WorkReason
    <3> QED BY <2>2, <3>1, <3>2 DEF RestockWrite
  <2> QED BY <2>1, <2>2 DEF FollowUp, ConsumeRead, RestockRead, Crash
<1> QED  BY <1>1, ReservesKept DEF Typed, TypeOK

(* A settlement adds one reserve row to the items of its order, and none   *)
(* to those of other orders.                                               *)
LEMMA ReservesAfterMarkPaid ==
  ASSUME StockTypeOK, NEW o \in Order, MarkPaid(o), NEW p \in Order, NEW i \in ItemsOf(p)
  PROVE  Rows(i, "reserve")' = IF p = o THEN Rows(i, "reserve") \cup {Len(ledger) + 1}
                               ELSE Rows(i, "reserve")
<1>1. i \in Item
  BY LinesAssumption DEF ItemsOf
<1>2. i \in ItemsOf(o) <=> p = o
  BY LinesAssumption
<1>3. Insert(Reserve(o)) /\ Reserve(o) \in Posting
      /\ Reserve(o).reason = "reserve" /\ Reserve(o).items = ItemsOf(o)
  BY ReserveIsPosting DEF MarkPaid, Reserve
<1> QED BY <1>1, <1>2, <1>3, RowsAfterInsert

(* A refund leaves its amount on the order.                                *)
RefundLeavesAmount ==
  \A o \in Order :
    payment[o] \in {"refunded", "partially_refunded"} => refunded[o] > 0

(* An order that was never settled holds no stock: 'unpaid' is left by the *)
(* first settlement (or refund) and nothing leads back to it.              *)
UnpaidNotReserved ==
  \A o \in Order : payment[o] = "unpaid" =>
    \A i \in ItemsOf(o) : Rows(i, "reserve") = {}

(* The inductive invariant: how status, refunds and reserve rows relate.   *)
PaymentInv ==
  /\ RefundStatusHonest
  /\ RefundLeavesAmount
  /\ PaidIsReserved
  /\ UnpaidNotReserved
  /\ ReservedOnceUnlessRefunded

LEMMA InitPayment == Init => PaymentInv
<1> SUFFICES ASSUME Init PROVE PaymentInv
  OBVIOUS
<1>1. ASSUME NEW i PROVE Rows(i, "reserve") = {}
  BY DEF Init, StockInit, OpeningPosting, Rows
<1> QED BY <1>1 DEF Init, PaymentInv, RefundStatusHonest, RefundLeavesAmount,
                   PaidIsReserved, UnpaidNotReserved, ReservedOnceUnlessRefunded

(* Steps that leave the orders' money and the reserve rows as they are.    *)
LEMMA PaymentKept ==
  ASSUME PaymentInv, UNCHANGED <<payment, refunded>>,
         \A i \in Item : Rows(i, "reserve")' = Rows(i, "reserve")
  PROVE  PaymentInv'
<1>1. \A o \in Order : \A i \in ItemsOf(o) : i \in Item
  BY LinesAssumption DEF ItemsOf
<1> QED BY <1>1 DEF PaymentInv, RefundStatusHonest, RefundLeavesAmount,
                   PaidIsReserved, UnpaidNotReserved, ReservedOnceUnlessRefunded

LEMMA NextPayment == Typed /\ PaymentInv /\ [Next]_vars => PaymentInv'
<1> SUFFICES ASSUME Typed, PaymentInv, [Next]_vars PROVE PaymentInv'
  OBVIOUS
<1>0. StockTypeOK
  BY DEF Typed, TypeOK
<1>1. ASSUME NEW o \in Order, MarkPaid(o) PROVE PaymentInv'
  <2>1. /\ payment[o] # "paid" /\ payment' = [payment EXCEPT ![o] = "paid"]
        /\ refunded' = refunded
        /\ payment \in [Order -> PaymentStatus] /\ refunded \in [Order -> Nat]
    BY <1>1 DEF MarkPaid, Typed, TypeOK
  <2>2. \A p \in Order : \A i \in ItemsOf(p) :
          Rows(i, "reserve")' = IF p = o THEN Rows(i, "reserve") \cup {Len(ledger) + 1}
                                ELSE Rows(i, "reserve")
    BY <1>0, <1>1, ReservesAfterMarkPaid
  <2>3. RefundStatusHonest' /\ RefundLeavesAmount'
    BY <2>1 DEF PaymentInv, RefundStatusHonest, RefundLeavesAmount
  <2>4. PaidIsReserved' /\ UnpaidNotReserved'
    BY <2>1, <2>2 DEF PaymentInv, PaidIsReserved, UnpaidNotReserved
  <2>5. refunded[o] = 0 => \A i \in ItemsOf(o) : Rows(i, "reserve") = {}
    BY <2>1 DEF PaymentInv, RefundLeavesAmount, UnpaidNotReserved, PaymentStatus
  <2>6. ReservedOnceUnlessRefunded'
    BY <2>1, <2>2, <2>5 DEF PaymentInv, ReservedOnceUnlessRefunded
  <2> QED BY <2>3, <2>4, <2>6 DEF PaymentInv
<1>2. ASSUME NEW w \in Worker, NEW o \in Order, NEW i \in ItemsOf(o) \cup {NoItem},
             NEW q, NEW amount \in Amount, NEW restock \in BOOLEAN,
             RefundOrder(w, o, i, q, amount, restock)
      PROVE  PaymentInv'
  <2>1. amount \in Nat \ {0} /\ Total[o] \in Nat
    BY InputAssumption, QuantityAssumption
  <2>2. /\ refunded' = [refunded EXCEPT ![o] = @ + amount]
        /\ payment' = [payment EXCEPT ![o] = StatusAfterRefund(o, refunded[o] + amount)]
        /\ payment \in [Order -> PaymentStatus] /\ refunded \in [Order -> Nat]
    BY <1>2 DEF RefundOrder, Typed, TypeOK
  <2>3. \A p \in Order : \A j \in ItemsOf(p) : Rows(j, "reserve")' = Rows(j, "reserve")
    BY <1>2 DEF RefundOrder, Rows, stockVars
  <2>4. RefundStatusHonest' /\ RefundLeavesAmount'
    BY <2>1, <2>2 DEF PaymentInv, RefundStatusHonest, RefundLeavesAmount, StatusAfterRefund
  <2>5. PaidIsReserved' /\ UnpaidNotReserved'
    BY <2>2, <2>3 DEF PaymentInv, PaidIsReserved, UnpaidNotReserved, StatusAfterRefund
  <2>6. ReservedOnceUnlessRefunded'
    BY <2>1, <2>2, <2>3 DEF PaymentInv, ReservedOnceUnlessRefunded
  <2> QED BY <2>4, <2>5, <2>6 DEF PaymentInv
<1>3. ASSUME NEW w \in Worker, NEW c \in Component, NEW n \in Delta, AdjustStock(w, c, n)
      PROVE  PaymentInv'
  BY <1>0, <1>3, AdjustmentKeepsReserves, PaymentKept DEF AdjustStock, orderVars
<1>4. ASSUME NEW w \in Worker, FollowUp(w) \/ Crash(w) PROVE PaymentInv'
  <2>1. UNCHANGED <<payment, refunded>>
    BY <1>4 DEF FollowUp, Crash, ConsumeRead, ConsumeWrite, RestockRead, RestockWrite, orderVars
  <2> QED BY <1>4, <2>1, FollowUpKeepsReserves, PaymentKept
<1>5. ASSUME UNCHANGED <<stockVars, payment, refunded>> PROVE PaymentInv'
  BY <1>5, PaymentKept DEF stockVars, Rows
<1>6. CASE Settle
  BY <1>1, <1>5, <1>6 DEF Settle, MarkPaidNothing, vars, orderVars
<1>7. ASSUME NEW w \in Worker, NewRequest(w) PROVE PaymentInv'
  <2>1. ASSUME NEW i \in Item, NEW to, AdvanceItem(w, i, to) PROVE PaymentInv'
    BY <1>5, <2>1 DEF AdvanceItem
  <2>2. ASSUME NEW o \in Order, NEW restock \in BOOLEAN, CancelOrder(w, o, restock)
        PROVE  PaymentInv'
    BY <1>5, <2>2 DEF CancelOrder
  <2> QED BY <1>2, <1>3, <1>7, <2>1, <2>2 DEF NewRequest
<1>8. CASE UNCHANGED vars
  BY <1>5, <1>8 DEF vars, orderVars
<1> QED BY <1>4, <1>6, <1>7, <1>8 DEF Next

(* The status of an order, the amount refunded and its reserve rows agree  *)
(* after every settlement, replay and refund (web/orders.py, mark_paid).   *)
THEOREM PaymentInvariant == Spec => []PaymentInv
  BY InitPayment, NextPayment, AlwaysTyped, PTL DEF Spec

(* No order is ever paid without its stock being reserved, for every set   *)
(* of orders, workers and stock.                                           *)
THEOREM PaidOrdersAreReserved == Spec => []PaidIsReserved
<1>1. PaymentInv => PaidIsReserved
  BY DEF PaymentInv
<1> QED BY <1>1, PaymentInvariant, PTL

(* mark_paid is idempotent as long as nothing was refunded: no number of   *)
(* deliveries and replays reserves an item twice.                          *)
THEOREM SettlementReservesOnce == Spec => []ReservedOnceUnlessRefunded
<1>1. PaymentInv => ReservedOnceUnlessRefunded
  BY DEF PaymentInv
<1> QED BY <1>1, PaymentInvariant, PTL

(* The payment status never lies about refunds.                            *)
THEOREM RefundStatusIsHonest == Spec => []RefundStatusHonest
<1>1. PaymentInv => RefundStatusHonest
  BY DEF PaymentInv
<1> QED BY <1>1, PaymentInvariant, PTL
-----------------------------------------------------------------------------
(* The outbox and the books.                                               *)

(* One event more in the outbox: in its topic, and in the sum of refunds.  *)
LEMMA OutboxAfterEmit ==
  ASSUME outbox \in Seq(Event), NEW topic, NEW o \in Order, NEW cents \in Nat,
         topic \in {"order.paid", "order.cancelled", "order.refunded"}, Emit(topic, o, cents),
         NEW p \in Order
  PROVE  /\ \A t : Topic(t, p)' = IF t = topic /\ p = o THEN Topic(t, p) \cup {Len(outbox) + 1}
                                 ELSE Topic(t, p)
         /\ topic = "order.refunded" /\ p = o
              => SumTo(Refunds(p)', Len(outbox')) = SumTo(Refunds(p), Len(outbox)) + cents
         /\ ~(topic = "order.refunded" /\ p = o)
              => SumTo(Refunds(p)', Len(outbox')) = SumTo(Refunds(p), Len(outbox))
<1> DEFINE N == Len(outbox)
           e == [topic |-> topic, order |-> o, cents |-> cents]
<1>1. N \in Nat /\ e \in Event /\ outbox' = Append(outbox, e)
  BY DEF Emit, Event
<1>2. /\ DOMAIN outbox = 1 .. N /\ DOMAIN outbox' = 1 .. N + 1 /\ Len(outbox') = N + 1
      /\ outbox'[N+1] = e /\ \A n \in 1 .. N : outbox'[n] = outbox[n] /\ outbox[n] \in Event
  BY <1>1
<1>3. e.topic = topic /\ e.order = o /\ e.cents = cents
  OBVIOUS
<1> HIDE DEF N, e
<1>4. \A t : Topic(t, p)' = IF t = topic /\ p = o THEN Topic(t, p) \cup {N + 1} ELSE Topic(t, p)
  BY <1>1, <1>2, <1>3 DEF Topic
<1>5. /\ \A n \in 1 .. N + 1 : Refunds(p)'[n] \in Int
      /\ \A n \in 1 .. N : Refunds(p)[n] = Refunds(p)'[n]
      /\ Refunds(p)'[N+1] = IF topic = "order.refunded" /\ p = o THEN cents ELSE 0
  BY <1>1, <1>2, <1>3 DEF Refunds, Topic, Event
<1>6. SumTo(Refunds(p)', N + 1) = SumTo(Refunds(p), N) + Refunds(p)'[N+1]
  BY <1>1, <1>5, SumOfOneMore
<1>7. SumTo(Refunds(p), N) \in Int
  <2>1. \A n \in 1 .. N : Refunds(p)[n] \in Int
    BY <1>1, <1>5
  <2> QED  BY <1>1, <2>1, SumType
<1> QED  BY <1>2, <1>4, <1>5, <1>6, <1>7 DEF N

(* Both sides of the paid events' equation are finite sets of numbers that *)
(* do not have the place of the next row.                                  *)
LEMMA FiniteBooks ==
  ASSUME Typed, NEW o, NEW i
  PROVE  /\ IsFiniteSet(Topic("order.paid", o)) /\ Len(outbox) + 1 \notin Topic("order.paid", o)
         /\ IsFiniteSet(Rows(i, "reserve")) /\ Len(ledger) + 1 \notin Rows(i, "reserve")
<1>1. Len(outbox) \in Nat /\ Len(ledger) \in Nat
      /\ DOMAIN outbox = 1 .. Len(outbox) /\ DOMAIN ledger = 1 .. Len(ledger)
  BY DEF Typed, TypeOK, StockTypeOK
<1>2. Topic("order.paid", o) \subseteq 1 .. Len(outbox) /\ Rows(i, "reserve") \subseteq 1 .. Len(ledger)
  BY <1>1 DEF Topic, Rows
<1>3. IsFiniteSet(1 .. Len(outbox)) /\ IsFiniteSet(1 .. Len(ledger))
  BY <1>1, FS_Interval
<1> QED  BY <1>1, <1>2, <1>3, FS_Subset

LEMMA BooksKept ==
  ASSUME EventsMatchBooks, UNCHANGED <<refunded, outbox>>,
         \A i \in Item : Rows(i, "reserve")' = Rows(i, "reserve")
  PROVE  EventsMatchBooks'
<1>1. \A o \in Order : \A i \in ItemsOf(o) : i \in Item
  BY LinesAssumption DEF ItemsOf
<1> QED  BY <1>1 DEF EventsMatchBooks, PaidEventsMatchLedger, RefundEventsAddUp, Topic, Refunds

(* An event that is no settlement, with the amount it adds to its order.   *)
LEMMA BooksAfterEmit ==
  ASSUME Typed, EventsMatchBooks, NEW topic \in {"order.cancelled", "order.refunded"},
         NEW o \in Order, NEW cents \in Nat, Emit(topic, o, cents),
         refunded' = [refunded EXCEPT ![o] = @ + (IF topic = "order.refunded" THEN cents ELSE 0)],
         \A i \in Item : Rows(i, "reserve")' = Rows(i, "reserve")
  PROVE  EventsMatchBooks'
<1>1. outbox \in Seq(Event) /\ refunded \in [Order -> Nat]
  BY DEF Typed, TypeOK
<1>2. \A p \in Order : \A i \in ItemsOf(p) : i \in Item
  BY LinesAssumption DEF ItemsOf
<1>3. ASSUME NEW p \in Order
      PROVE  /\ Topic("order.paid", p)' = Topic("order.paid", p)
             /\ topic = "order.refunded" /\ p = o
                  => SumTo(Refunds(p)', Len(outbox')) = SumTo(Refunds(p), Len(outbox)) + cents
             /\ ~(topic = "order.refunded" /\ p = o)
                  => SumTo(Refunds(p)', Len(outbox')) = SumTo(Refunds(p), Len(outbox))
  <2>1. topic \in {"order.paid", "order.cancelled", "order.refunded"} /\ topic # "order.paid"
    OBVIOUS
  <2>2. \A t : Topic(t, p)' = IF t = topic /\ p = o THEN Topic(t, p) \cup {Len(outbox) + 1}
                             ELSE Topic(t, p)
    BY <1>1, <2>1, OutboxAfterEmit
  <2>3. Topic("order.paid", p)' = Topic("order.paid", p)
    BY <2>1, <2>2
  <2>4. ASSUME topic = "order.refunded", p = o
        PROVE  SumTo(Refunds(p)', Len(outbox')) = SumTo(Refunds(p), Len(outbox)) + cents
    BY <1>1, <2>1, <2>4, OutboxAfterEmit
  <2>5. ASSUME ~(topic = "order.refunded" /\ p = o)
        PROVE  SumTo(Refunds(p)', Len(outbox')) = SumTo(Refunds(p), Len(outbox))
    BY <1>1, <2>1, <2>5, OutboxAfterEmit
  <2> QED  BY <2>3, <2>4, <2>5
<1>4. PaidEventsMatchLedger'
  BY <1>2, <1>3 DEF EventsMatchBooks, PaidEventsMatchLedger
<1>5. RefundEventsAddUp'
  BY <1>1, <1>3 DEF EventsMatchBooks, RefundEventsAddUp
<1> QED  BY <1>4, <1>5 DEF EventsMatchBooks

LEMMA BooksAfterMarkPaid ==
  ASSUME Typed, EventsMatchBooks, NEW o \in Order, MarkPaid(o)
  PROVE  EventsMatchBooks'
<1>1. outbox \in Seq(Event) /\ refunded' = refunded /\ StockTypeOK
  BY DEF Typed, TypeOK, MarkPaid
<1>2. ASSUME NEW p \in Order
      PROVE  /\ Topic("order.paid", p)' = IF p = o THEN Topic("order.paid", p) \cup {Len(outbox) + 1}
                                          ELSE Topic("order.paid", p)
             /\ SumTo(Refunds(p)', Len(outbox')) = SumTo(Refunds(p), Len(outbox))
  BY <1>1, OutboxAfterEmit DEF MarkPaid
<1>3. ASSUME NEW p \in Order, NEW i \in ItemsOf(p)
      PROVE  Cardinality(Topic("order.paid", p)') = Cardinality(Rows(i, "reserve")')
  <2>1. Rows(i, "reserve")' = IF p = o THEN Rows(i, "reserve") \cup {Len(ledger) + 1}
                              ELSE Rows(i, "reserve")
    BY <1>1, ReservesAfterMarkPaid
  <2>2. Cardinality(Topic("order.paid", p)) = Cardinality(Rows(i, "reserve"))
    BY DEF EventsMatchBooks, PaidEventsMatchLedger
  <2>3. /\ IsFiniteSet(Topic("order.paid", p)) /\ Len(outbox) + 1 \notin Topic("order.paid", p)
        /\ IsFiniteSet(Rows(i, "reserve")) /\ Len(ledger) + 1 \notin Rows(i, "reserve")
    BY FiniteBooks
  <2>4. Cardinality(Topic("order.paid", p) \cup {Len(outbox) + 1})
          = Cardinality(Topic("order.paid", p)) + 1
    BY <2>3, FS_AddElement
  <2>5. Cardinality(Rows(i, "reserve") \cup {Len(ledger) + 1}) = Cardinality(Rows(i, "reserve")) + 1
    BY <2>3, FS_AddElement
  <2>6. CASE p = o
    BY <1>2, <2>1, <2>2, <2>4, <2>5, <2>6
  <2>7. CASE p # o
    BY <1>2, <2>1, <2>2, <2>7
  <2> QED  BY <2>6, <2>7
<1>4. PaidEventsMatchLedger'
  BY <1>3 DEF PaidEventsMatchLedger
<1>5. RefundEventsAddUp'
  <2>1. ASSUME NEW p \in Order PROVE refunded'[p] = SumTo(Refunds(p)', Len(outbox'))
    <3>1. refunded[p] = SumTo(Refunds(p), Len(outbox)) /\ refunded[p] \in Nat
      BY DEF EventsMatchBooks, RefundEventsAddUp, Typed, TypeOK
    <3> QED  BY <1>1, <1>2, <3>1
  <2> QED  BY <2>1 DEF RefundEventsAddUp
<1> QED  BY <1>4, <1>5 DEF EventsMatchBooks

LEMMA NextBooks == Typed /\ EventsMatchBooks /\ [Next]_vars => EventsMatchBooks'
<1> SUFFICES ASSUME Typed, EventsMatchBooks, [Next]_vars PROVE EventsMatchBooks'
  OBVIOUS
<1>0. StockTypeOK /\ refunded \in [Order -> Nat]
  BY DEF Typed, TypeOK
<1>1. ASSUME UNCHANGED <<stockVars, refunded, outbox>> PROVE EventsMatchBooks'
  BY <1>1, BooksKept DEF stockVars, Rows
<1>2. CASE Settle
  BY <1>1, <1>2, BooksAfterMarkPaid DEF Settle, MarkPaidNothing, vars, orderVars
<1>3. ASSUME NEW w \in Worker, NewRequest(w) PROVE EventsMatchBooks'
  <2>1. ASSUME NEW i \in Item, NEW to, AdvanceItem(w, i, to) PROVE EventsMatchBooks'
    BY <1>1, <2>1 DEF AdvanceItem
  <2>2. ASSUME UNCHANGED stockVars PROVE \A i \in Item : Rows(i, "reserve")' = Rows(i, "reserve")
    BY <2>2 DEF stockVars, Rows
  <2>3. ASSUME NEW o \in Order, NEW restock \in BOOLEAN, CancelOrder(w, o, restock)
        PROVE  EventsMatchBooks'
    <3>1. refunded' = [refunded EXCEPT ![o] = @ + 0]
      BY <1>0, <2>3 DEF CancelOrder
    <3> QED  BY <2>2, <2>3, <3>1, BooksAfterEmit DEF CancelOrder
  <2>4. ASSUME NEW o \in Order, NEW i \in ItemsOf(o) \cup {NoItem}, NEW q, NEW amount \in Amount,
               NEW restock \in BOOLEAN, RefundOrder(w, o, i, q, amount, restock)
        PROVE  EventsMatchBooks'
    <3>1. amount \in Nat
      BY InputAssumption
    <3> QED  BY <2>2, <2>4, <3>1, BooksAfterEmit DEF RefundOrder
  <2>5. ASSUME NEW c \in Component, NEW n \in Delta, AdjustStock(w, c, n) PROVE EventsMatchBooks'
    BY <1>0, <2>5, AdjustmentKeepsReserves, BooksKept DEF AdjustStock, orderVars
  <2> QED  BY <1>3, <2>1, <2>3, <2>4, <2>5 DEF NewRequest
<1>4. ASSUME NEW w \in Worker, FollowUp(w) \/ Crash(w) PROVE EventsMatchBooks'
  <2>1. UNCHANGED <<refunded, outbox>>
    BY <1>4 DEF FollowUp, Crash, ConsumeRead, ConsumeWrite, RestockRead, RestockWrite, orderVars
  <2> QED  BY <1>4, <2>1, FollowUpKeepsReserves, BooksKept
<1>5. CASE UNCHANGED vars
  BY <1>1, <1>5 DEF vars, orderVars
<1> QED  BY <1>2, <1>3, <1>4, <1>5 DEF Next

LEMMA InitBooks == Init => EventsMatchBooks
<1> SUFFICES ASSUME Init PROVE EventsMatchBooks
  OBVIOUS
<1>1. \A o : Topic("order.paid", o) = {}
  BY DEF Init, Topic
<1>2. \A i : Rows(i, "reserve") = {}
  BY DEF Init, StockInit, OpeningPosting, Rows
<1>3. ASSUME NEW o \in Order PROVE refunded[o] = SumTo(Refunds(o), Len(outbox))
  BY SumOfNone DEF Init
<1> QED  BY <1>1, <1>2, <1>3 DEF EventsMatchBooks, PaidEventsMatchLedger, RefundEventsAddUp

(* "Analytics can never disagree with the ledger" (web/orders.py:4): the   *)
(* outbox has an order.paid for every reservation and the refunds it       *)
(* announces add up to the orders' refunded_cents, for every set of        *)
(* orders, items and workers and every replay, refusal and crash.          *)
THEOREM AnalyticsAgreesWithTheBooks == Spec => []EventsMatchBooks
  BY InitBooks, NextBooks, AlwaysTyped, PTL DEF Spec
-----------------------------------------------------------------------------
(* Consumption and return.  Nobody locks anything between the reading and  *)
(* the writing of consume_for_item and restock_for_item: that nothing is   *)
(* consumed or put back twice rests on no other worker being between its   *)
(* own reading and writing of the same kind for the same item.             *)

(* Worker w has read, for item i, and not written.                         *)
Pending(w, stage, i) == work[w].stage = stage /\ Head(work[w].todo) = i

Unraced(i) == \A stage \in {"consuming", "restocking"} : <<stage, i>> \notin raced

(* Two workers with the same thing pending are on record.                  *)
RacesRecorded ==
  \A v, w \in Worker : \A stage \in {"consuming", "restocking"} : \A i \in Item :
    v # w /\ Pending(v, stage, i) /\ Pending(w, stage, i) => <<stage, i>> \in raced

(* A worker that restocks writes neither a consume row nor a row that      *)
(* takes anything off the shelf.                                           *)
RestocksBringBack ==
  \A w \in Worker : work[w].stage \in {"restock", "restocking"} =>
    work[w].reason # "consume" /\ work[w].seen.hand \in {0, 1}

(* Stock leaves the shelf for an item by its consume rows only.            *)
ConsumedIsOut == \A i \in Item : Moved(i, "hand", -1) = Rows(i, "consume")

(* What a worker writes is still right when it writes it.                  *)
SeenIsTrue ==
  \A w \in Worker : \A i \in Item :
    /\ Pending(w, "consuming", i) /\ <<"consuming", i>> \notin raced =>
         work[w].seen.consumed \/ Rows(i, "consume") = {}
    /\ Pending(w, "restocking", i) /\ Unraced(i) =>
         (work[w].seen.hand = 1 => Net(i, "hand") < 0)

(* The inductive invariant of the shelf.                                   *)
ShelfInv ==
  /\ RacesRecorded /\ RestocksBringBack /\ ConsumedIsOut /\ SeenIsTrue
  /\ ConsumedOnceUnlessRaced /\ OutOnceUnlessRaced

(* What an accepted posting does to the shelf movements of an item.        *)
LEMMA HandsAfterInsert ==
  ASSUME StockTypeOK, NEW p \in Posting, Insert(p), NEW i \in Item, NEW d \in {-1, 1}
  PROVE  Moved(i, "hand", d)' = IF p.hand = d /\ i \in p.items
                                THEN Moved(i, "hand", d) \cup {Len(ledger) + 1}
                                ELSE Moved(i, "hand", d)
<1>1. ledger \in Seq(Posting) /\ ledger' = Append(ledger, p)
  BY DEF StockTypeOK, Insert
<1>2. /\ DOMAIN ledger = 1 .. Len(ledger) /\ Len(ledger) \in Nat
      /\ DOMAIN ledger' = 1 .. Len(ledger) + 1
      /\ ledger'[Len(ledger) + 1] = p
      /\ \A n \in 1 .. Len(ledger) : ledger'[n] = ledger[n]
  BY <1>1
<1> QED BY <1>2 DEF Moved

LEMMA FiniteHands ==
  ASSUME StockTypeOK, NEW i, NEW d
  PROVE  /\ IsFiniteSet(Moved(i, "hand", d)) /\ Len(ledger) + 1 \notin Moved(i, "hand", d)
         /\ Cardinality(Moved(i, "hand", d)) \in Nat
         /\ Cardinality(Moved(i, "hand", d) \cup {Len(ledger) + 1})
              = Cardinality(Moved(i, "hand", d)) + 1
<1>1. Len(ledger) \in Nat /\ DOMAIN ledger = 1 .. Len(ledger)
  BY DEF StockTypeOK
<1>2. Moved(i, "hand", d) \subseteq 1 .. Len(ledger)
  BY <1>1 DEF Moved
<1>3. IsFiniteSet(1 .. Len(ledger))
  BY <1>1, FS_Interval
<1>4. IsFiniteSet(Moved(i, "hand", d)) /\ Len(ledger) + 1 \notin Moved(i, "hand", d)
  BY <1>1, <1>2, <1>3, FS_Subset
<1> QED  BY <1>4, FS_AddElement, FS_CardinalityType

(* The shelf of the items is as it was.                                    *)
ShelfKept ==
  \A i \in Item : /\ Rows(i, "consume")' = Rows(i, "consume")
                  /\ \A d \in {-1, 1} : Moved(i, "hand", d)' = Moved(i, "hand", d)

LEMMA ShelfKeptBy ==
  ASSUME StockTypeOK,
         \/ UNCHANGED stockVars
         \/ \E p \in Posting : /\ p.items = {} \/ (p.hand = 0 /\ p.reason # "consume")
                               /\ Insert(p)
  PROVE  ShelfKept
<1>1. CASE UNCHANGED stockVars
  BY <1>1 DEF stockVars, ShelfKept, Rows, Moved
<1>2. ASSUME NEW p \in Posting, p.items = {} \/ (p.hand = 0 /\ p.reason # "consume"), Insert(p)
      PROVE  ShelfKept
  <2>1. ASSUME NEW i \in Item PROVE Rows(i, "consume")' = Rows(i, "consume")
    BY <1>2, RowsAfterInsert
  <2>2. ASSUME NEW i \in Item, NEW d \in {-1, 1}
        PROVE  Moved(i, "hand", d)' = Moved(i, "hand", d)
    <3>1. ~(p.hand = d /\ i \in p.items)
      BY <1>2
    <3> QED  BY <1>2, <3>1, HandsAfterInsert
  <2> QED  BY <2>1, <2>2 DEF ShelfKept
<1> QED  BY <1>1, <1>2

LEMMA ShelfPartsKept ==
  ASSUME ConsumedIsOut, ConsumedOnceUnlessRaced, OutOnceUnlessRaced, ShelfKept,
         raced \subseteq raced'
  PROVE  ConsumedIsOut' /\ ConsumedOnceUnlessRaced' /\ OutOnceUnlessRaced'
<1>1. ConsumedIsOut'
  BY DEF ConsumedIsOut, ShelfKept
<1>2. ConsumedOnceUnlessRaced'
  BY DEF ConsumedOnceUnlessRaced, ShelfKept
<1>3. ASSUME NEW i \in Item, \A stage \in {"consuming", "restocking"} : <<stage, i>> \notin raced'
      PROVE  Net(i, "hand")' \in {-1, 0}
  <2>1. Moved(i, "hand", 1)' = Moved(i, "hand", 1) /\ Moved(i, "hand", -1)' = Moved(i, "hand", -1)
    BY DEF ShelfKept
  <2>2. Net(i, "hand")' = Net(i, "hand")
    BY <2>1 DEF Net
  <2>3. \A stage \in {"consuming", "restocking"} : <<stage, i>> \notin raced
    BY <1>3
  <2> QED  BY <2>2, <2>3 DEF OutOnceUnlessRaced
<1> QED  BY <1>1, <1>2, <1>3 DEF OutOnceUnlessRaced

(* Nothing was consumed of an item that is consumed, unless workers raced  *)
(* for it.                                                                 *)
LEMMA ShelfAfterConsume ==
  ASSUME StockTypeOK, ConsumedIsOut, ConsumedOnceUnlessRaced, OutOnceUnlessRaced,
         NEW i \in Item, <<"consuming", i>> \in raced \/ Rows(i, "consume") = {},
         Insert(Consume(i)), raced' = raced
  PROVE  /\ ConsumedIsOut' /\ ConsumedOnceUnlessRaced' /\ OutOnceUnlessRaced'
         /\ \A j \in Item : /\ j # i => Rows(j, "consume")' = Rows(j, "consume")
                            /\ Net(j, "hand") < 0 => Net(j, "hand")' < 0
<1> DEFINE p == Consume(i)
<1>1. p \in Posting /\ p.reason = "consume" /\ p.items = {i} /\ p.hand = -1
  BY ConsumeIsPosting DEF Consume
<1>2. Insert(p)
  OBVIOUS
<1> HIDE DEF p
<1>3. ASSUME NEW j \in Item
      PROVE  /\ Rows(j, "consume")' = IF j = i THEN Rows(j, "consume") \cup {Len(ledger) + 1}
                                      ELSE Rows(j, "consume")
             /\ Moved(j, "hand", -1)' = IF j = i THEN Moved(j, "hand", -1) \cup {Len(ledger) + 1}
                                        ELSE Moved(j, "hand", -1)
             /\ Moved(j, "hand", 1)' = Moved(j, "hand", 1)
  <2>1. Rows(j, "consume")' = IF j = i THEN Rows(j, "consume") \cup {Len(ledger) + 1}
                              ELSE Rows(j, "consume")
    BY <1>1, <1>2, RowsAfterInsert
  <2>2. Moved(j, "hand", -1)' = IF j = i THEN Moved(j, "hand", -1) \cup {Len(ledger) + 1}
                                ELSE Moved(j, "hand", -1)
    BY <1>1, <1>2, HandsAfterInsert
  <2>3. Moved(j, "hand", 1)' = Moved(j, "hand", 1)
    BY <1>1, <1>2, HandsAfterInsert
  <2> QED  BY <2>1, <2>2, <2>3
<1>4. ConsumedIsOut'
  BY <1>3 DEF ConsumedIsOut
<1>5. ConsumedOnceUnlessRaced'
  BY <1>3 DEF ConsumedOnceUnlessRaced
<1>6. ASSUME NEW j \in Item
      PROVE  Net(j, "hand")' = IF j = i THEN Net(j, "hand") - 1 ELSE Net(j, "hand")
  <2>2. CASE j # i
    BY <1>3, <2>2 DEF Net
  <2>3. CASE j = i
    <3>1. Cardinality(Moved(j, "hand", -1))' = Cardinality(Moved(j, "hand", -1)) + 1
      BY <1>3, <2>3, FiniteHands
    <3>2. Cardinality(Moved(j, "hand", 1))' = Cardinality(Moved(j, "hand", 1))
      BY <1>3
    <3>3. Cardinality(Moved(j, "hand", 1)) \in Nat /\ Cardinality(Moved(j, "hand", -1)) \in Nat
      BY FiniteHands
    <3> QED  BY <2>3, <3>1, <3>2, <3>3 DEF Net
  <2> QED  BY <2>2, <2>3
<1>7. ASSUME NEW j \in Item PROVE Net(j, "hand") \in Int
  <2>1. Cardinality(Moved(j, "hand", 1)) \in Nat /\ Cardinality(Moved(j, "hand", -1)) \in Nat
    BY FiniteHands
  <2> QED  BY <2>1 DEF Net
<1>8. ASSUME NEW j \in Item, \A stage \in {"consuming", "restocking"} : <<stage, j>> \notin raced
      PROVE  Net(j, "hand")' \in {-1, 0}
  <2>1. Net(j, "hand") \in {-1, 0}
    BY <1>8 DEF OutOnceUnlessRaced
  <2>2. CASE j = i
    <3>1. Moved(j, "hand", -1) = {}
      BY <1>8, <2>2 DEF ConsumedIsOut
    <3>2. Cardinality(Moved(j, "hand", -1)) = 0
      BY <3>1, FS_EmptySet
    <3>3. Cardinality(Moved(j, "hand", 1)) \in Nat
      BY FiniteHands
    <3>4. Net(j, "hand") = 0
      BY <2>1, <3>2, <3>3 DEF Net
    <3> QED  BY <1>6, <2>2, <3>4
  <2> QED  BY <1>6, <2>1, <2>2
<1>9. OutOnceUnlessRaced'
  BY <1>8 DEF OutOnceUnlessRaced
<1> QED  BY <1>3, <1>4, <1>5, <1>6, <1>7, <1>9

(* An item that is put back is out, unless workers raced for it.           *)
LEMMA ShelfAfterRestock ==
  ASSUME StockTypeOK, ConsumedIsOut, ConsumedOnceUnlessRaced, OutOnceUnlessRaced,
         NEW i \in Item, NEW reason \in WorkReason \ {"consume"},
         NEW seen \in Seen, seen.hand \in {0, 1},
         Unraced(i) => (seen.hand = 1 => Net(i, "hand") < 0),
         Insert(Restock(i, reason, seen)), raced' = raced
  PROVE  /\ ConsumedIsOut' /\ ConsumedOnceUnlessRaced' /\ OutOnceUnlessRaced'
         /\ \A j \in Item : /\ Rows(j, "consume")' = Rows(j, "consume")
                            /\ j # i => Net(j, "hand")' = Net(j, "hand")
<1> DEFINE p == Restock(i, reason, seen)
<1>1. p \in Posting /\ p.reason # "consume" /\ p.items = {i} /\ p.hand = seen.hand
  BY RestockIsPosting DEF Restock
<1>2. Insert(p)
  OBVIOUS
<1> HIDE DEF p
<1>3. ASSUME NEW j \in Item
      PROVE  /\ Rows(j, "consume")' = Rows(j, "consume")
             /\ Moved(j, "hand", -1)' = Moved(j, "hand", -1)
             /\ Moved(j, "hand", 1)' = IF j = i /\ seen.hand = 1
                                       THEN Moved(j, "hand", 1) \cup {Len(ledger) + 1}
                                       ELSE Moved(j, "hand", 1)
  <2>1. Rows(j, "consume")' = Rows(j, "consume")
    BY <1>1, <1>2, RowsAfterInsert
  <2>2. Moved(j, "hand", -1)' = Moved(j, "hand", -1)
    BY <1>1, <1>2, HandsAfterInsert
  <2>3. Moved(j, "hand", 1)' = IF j = i /\ seen.hand = 1
                               THEN Moved(j, "hand", 1) \cup {Len(ledger) + 1}
                               ELSE Moved(j, "hand", 1)
    BY <1>1, <1>2, HandsAfterInsert
  <2> QED  BY <2>1, <2>2, <2>3
<1>4. ConsumedIsOut'
  BY <1>3 DEF ConsumedIsOut
<1>5. ConsumedOnceUnlessRaced'
  BY <1>3 DEF ConsumedOnceUnlessRaced
<1>6. ASSUME NEW j \in Item
      PROVE  Net(j, "hand")' = IF j = i /\ seen.hand = 1 THEN Net(j, "hand") + 1
                               ELSE Net(j, "hand")
  <2>1. CASE ~(j = i /\ seen.hand = 1)
    <3>1. Moved(j, "hand", 1)' = Moved(j, "hand", 1) /\ Moved(j, "hand", -1)' = Moved(j, "hand", -1)
      BY <1>3, <2>1
    <3> QED  BY <2>1, <3>1 DEF Net
  <2>2. CASE j = i /\ seen.hand = 1
    <3>1. Cardinality(Moved(j, "hand", 1))' = Cardinality(Moved(j, "hand", 1)) + 1
      BY <1>3, <2>2, FiniteHands
    <3>2. Cardinality(Moved(j, "hand", -1))' = Cardinality(Moved(j, "hand", -1))
      BY <1>3
    <3>3. Cardinality(Moved(j, "hand", 1)) \in Nat /\ Cardinality(Moved(j, "hand", -1)) \in Nat
      BY FiniteHands
    <3> QED  BY <2>2, <3>1, <3>2, <3>3 DEF Net
  <2> QED  BY <2>1, <2>2
<1>7. ASSUME NEW j \in Item, Unraced(j) PROVE Net(j, "hand")' \in {-1, 0}
  <2>1. Net(j, "hand") \in {-1, 0}
    BY <1>7 DEF OutOnceUnlessRaced, Unraced
  <2>2. CASE j = i /\ seen.hand = 1
    BY <1>6, <1>7, <2>1, <2>2
  <2> QED  BY <1>6, <2>1, <2>2
<1>8. OutOnceUnlessRaced'
  BY <1>7 DEF OutOnceUnlessRaced, Unraced
<1> QED  BY <1>3, <1>4, <1>5, <1>6, <1>8

(* A worker that has read nothing yet.                                     *)
Fresh(rest) ==
  /\ rest.stage \notin {"consuming", "restocking"}
  /\ rest.stage = "restock" => rest.reason # "consume" /\ rest.seen.hand = 0

LEMMA ThenIsFresh ==
  /\ Fresh(Idle)
  /\ \A todo : /\ Fresh(Then("consume", todo, "consume"))
               /\ \A reason : reason # "consume" => Fresh(Then("restock", todo, reason))
  BY DEF Fresh, Idle, Then, Nothing

(* What worker w may do to the shelf without another worker noticing: only *)
(* the item it has pending is consumed or put back.                        *)
OnlyPendingMoves(w) ==
  \A i \in Item :
    /\ ~Pending(w, "consuming", i) => Rows(i, "consume")' = Rows(i, "consume")
    /\ ~Pending(w, "restocking", i) => (Net(i, "hand") < 0 => (Net(i, "hand") < 0)')

LEMMA KeptMovesNothing == ASSUME NEW w, ShelfKept PROVE OnlyPendingMoves(w)
<1>1. ASSUME NEW i \in Item PROVE Net(i, "hand")' = Net(i, "hand")
  <2>1. Moved(i, "hand", 1)' = Moved(i, "hand", 1) /\ Moved(i, "hand", -1)' = Moved(i, "hand", -1)
    BY DEF ShelfKept
  <2> QED  BY <2>1 DEF Net
<1> QED  BY <1>1 DEF ShelfKept, OnlyPendingMoves

(* What the other workers have read stays right while worker w moves on.   *)
LEMMA WorkMovesOn ==
  ASSUME Typed, RacesRecorded, RestocksBringBack, SeenIsTrue,
         NEW w \in Worker, NEW rest, Fresh(rest), OnlyPendingMoves(w),
         work' = [work EXCEPT ![w] = rest], raced' = raced
  PROVE  RacesRecorded' /\ RestocksBringBack' /\ SeenIsTrue'
<1>1. work'[w] = rest /\ \A v \in Worker \ {w} : work'[v] = work[v]
  BY DEF Typed, TypeOK
<1>2. ASSUME NEW i \in Item, NEW stage \in {"consuming", "restocking"}
      PROVE  /\ ~Pending(w, stage, i)'
             /\ \A v \in Worker \ {w} : Pending(v, stage, i)' = Pending(v, stage, i)
  BY <1>1 DEF Pending, Fresh
<1>3. RacesRecorded'
  BY <1>2 DEF RacesRecorded
<1>4. RestocksBringBack'
  BY <1>1 DEF RestocksBringBack, Fresh
<1>5. ASSUME NEW v \in Worker, NEW i \in Item, Pending(v, "consuming", i)',
             <<"consuming", i>> \notin raced
      PROVE  work'[v].seen.consumed \/ Rows(i, "consume")' = {}
  <2>1. v # w /\ Pending(v, "consuming", i)
    BY <1>2, <1>5
  <2>2. ~Pending(w, "consuming", i)
    BY <1>5, <2>1 DEF RacesRecorded
  <2> QED  BY <1>1, <1>5, <2>1, <2>2 DEF SeenIsTrue, OnlyPendingMoves
<1>6. ASSUME NEW v \in Worker, NEW i \in Item, Pending(v, "restocking", i)', Unraced(i),
             work'[v].seen.hand = 1
      PROVE  (Net(i, "hand") < 0)'
  <2>1. v # w /\ Pending(v, "restocking", i)
    BY <1>2, <1>6
  <2>2. ~Pending(w, "restocking", i)
    BY <1>6, <2>1 DEF RacesRecorded, Unraced
  <2> QED  BY <1>1, <1>6, <2>1, <2>2 DEF SeenIsTrue, OnlyPendingMoves
<1>7. SeenIsTrue'
  BY <1>5, <1>6 DEF SeenIsTrue, Unraced
<1> QED  BY <1>3, <1>4, <1>7

LEMMA WorkKept ==
  ASSUME RacesRecorded, RestocksBringBack, SeenIsTrue, UNCHANGED <<work, raced>>, ShelfKept
  PROVE  RacesRecorded' /\ RestocksBringBack' /\ SeenIsTrue'
<1>1. RacesRecorded' /\ RestocksBringBack'
  BY DEF RacesRecorded, RestocksBringBack, Pending
<1>2. ASSUME NEW i \in Item PROVE Net(i, "hand")' = Net(i, "hand")
  <2>1. Moved(i, "hand", 1)' = Moved(i, "hand", 1) /\ Moved(i, "hand", -1)' = Moved(i, "hand", -1)
    BY DEF ShelfKept
  <2> QED  BY <2>1 DEF Net
<1>3. SeenIsTrue'
  BY <1>2 DEF SeenIsTrue, Pending, Unraced, ShelfKept
<1> QED  BY <1>1, <1>3

(* A reading is right when it is made, and a race is recorded by the       *)
(* second of the two readings.                                             *)
LEMMA WorkReads ==
  ASSUME Typed, RacesRecorded, RestocksBringBack, SeenIsTrue, ShelfKept,
         NEW w \in Worker, ConsumeRead(w) \/ RestockRead(w)
  PROVE  /\ RacesRecorded' /\ RestocksBringBack' /\ SeenIsTrue'
         /\ raced \subseteq raced'
<1>1. PICK h \in Item : h = Head(work[w].todo)
  BY HeadOfTodo DEF ConsumeRead, RestockRead
<1>2. work[w] \in Work /\ work \in [Worker -> Work]
  BY DEF Typed, TypeOK
<1>3. ASSUME NEW i \in Item PROVE Net(i, "hand")' = Net(i, "hand")
  <2>1. Moved(i, "hand", 1)' = Moved(i, "hand", 1) /\ Moved(i, "hand", -1)' = Moved(i, "hand", -1)
    BY DEF ShelfKept
  <2> QED  BY <2>1 DEF Net
<1> DEFINE Reads(stage, seen) ==
        /\ Read(w, stage, seen)
        /\ stage = "consuming" => /\ work[w].stage = "consume"
                                  /\ seen.consumed = (Rows(h, "consume") # {})
        /\ stage = "restocking" => /\ work[w].stage = "restock"
                                   /\ seen.hand = IF Net(h, "hand") < 0 THEN 1 ELSE 0
<1>4. \E stage \in {"consuming", "restocking"} : \E seen : Reads(stage, seen)
  <2>1. CASE ConsumeRead(w)
    BY <1>1, <2>1 DEF ConsumeRead
  <2>2. CASE RestockRead(w)
    BY <1>1, <2>2 DEF RestockRead
  <2> QED  BY <2>1, <2>2
<1>4a. PICK stage \in {"consuming", "restocking"} : \E seen : Reads(stage, seen)
  BY <1>4
<1>4b. PICK seen : Reads(stage, seen)
  BY <1>4a
<1>5. /\ work'[w].stage = stage /\ work'[w].todo = work[w].todo
      /\ work'[w].reason = work[w].reason /\ work'[w].seen = seen
      /\ \A v \in Worker \ {w} : work'[v] = work[v]
  BY <1>2, <1>4b DEF Read, Found, Work
<1>6. raced \subseteq raced'
  BY <1>4b DEF Read
<1>7. ASSUME NEW v \in Worker \ {w}, NEW s, NEW i \in Item
      PROVE  Pending(v, s, i)' = Pending(v, s, i)
  BY <1>5 DEF Pending
<1>8. ASSUME NEW s, NEW i \in Item, Pending(w, s, i)' PROVE s = stage /\ i = h
  BY <1>1, <1>5, <1>8 DEF Pending
<1>9. RacesRecorded'
  <2>1. ASSUME NEW v \in Worker \ {w}, NEW s \in {"consuming", "restocking"}, NEW i \in Item,
               Pending(v, s, i)', Pending(w, s, i)'
        PROVE  <<s, i>> \in raced'
    <3>1. s = stage /\ i = h /\ Pending(v, stage, h)
      BY <1>7, <1>8, <2>1
    <3>2. Overtakes(w, stage)
      BY <1>1, <3>1 DEF Overtakes, Pending
    <3> QED  BY <1>1, <1>4b, <3>1, <3>2 DEF Read
  <2> QED  BY <1>6, <1>7, <2>1 DEF RacesRecorded
<1>10. RestocksBringBack'
  <2>1. ASSUME NEW v \in Worker, work'[v].stage \in {"restock", "restocking"}
        PROVE  work'[v].reason # "consume" /\ work'[v].seen.hand \in {0, 1}
    <3>1. CASE v = w
      BY <1>4b, <1>5, <2>1, <3>1 DEF RestocksBringBack
    <3>2. CASE v # w
      BY <1>5, <2>1, <3>2 DEF RestocksBringBack
    <3> QED  BY <3>1, <3>2
  <2> QED  BY <2>1 DEF RestocksBringBack
<1>11. ASSUME NEW v \in Worker, NEW i \in Item, Pending(v, "consuming", i)',
              <<"consuming", i>> \notin raced'
       PROVE  work'[v].seen.consumed \/ Rows(i, "consume")' = {}
  <2>1. Rows(i, "consume")' = Rows(i, "consume")
    BY DEF ShelfKept
  <2>2. CASE v = w
    BY <1>4b, <1>5, <1>8, <1>11, <2>1, <2>2
  <2>3. CASE v # w
    BY <1>5, <1>6, <1>7, <1>11, <2>1, <2>3 DEF SeenIsTrue
  <2> QED  BY <2>2, <2>3
<1>12. ASSUME NEW v \in Worker, NEW i \in Item, Pending(v, "restocking", i)', Unraced(i)',
              work'[v].seen.hand = 1
       PROVE  (Net(i, "hand") < 0)'
  <2>1. CASE v = w
    BY <1>3, <1>4b, <1>5, <1>8, <1>12, <2>1
  <2>2. CASE v # w
    BY <1>3, <1>5, <1>6, <1>7, <1>12, <2>2 DEF SeenIsTrue, Unraced
  <2> QED  BY <2>1, <2>2
<1>13. SeenIsTrue'
  BY <1>11, <1>12 DEF SeenIsTrue
<1> QED  BY <1>6, <1>9, <1>10, <1>13

LEMMA NextShelf == Typed /\ ShelfInv /\ [Next]_vars => ShelfInv'
<1> SUFFICES ASSUME Typed, ShelfInv, [Next]_vars PROVE ShelfInv'
  OBVIOUS
<1>0. /\ StockTypeOK
      /\ RacesRecorded /\ RestocksBringBack /\ ConsumedIsOut /\ SeenIsTrue
      /\ ConsumedOnceUnlessRaced /\ OutOnceUnlessRaced
  BY DEF Typed, TypeOK, ShelfInv
<1>1. ASSUME ShelfKept, raced \subseteq raced', RacesRecorded' /\ RestocksBringBack' /\ SeenIsTrue'
      PROVE  ShelfInv'
  BY <1>0, <1>1, ShelfPartsKept DEF ShelfInv
<1>2. ASSUME UNCHANGED stockVars PROVE ShelfKept
  BY <1>0, <1>2, ShelfKeptBy
<1>3. ASSUME NEW o \in Order, MarkPaid(o) PROVE ShelfInv'
  <2>1. ShelfKept
    <3>1. Reserve(o) \in Posting /\ Reserve(o).hand = 0 /\ Reserve(o).reason # "consume"
      BY ReserveIsPosting DEF Reserve
    <3> QED  BY <1>0, <1>3, <3>1, ShelfKeptBy DEF MarkPaid
  <2> QED  BY <1>0, <1>1, <1>3, <2>1, WorkKept DEF MarkPaid
<1>4. ASSUME NEW w \in Worker, NewRequest(w) PROVE ShelfInv'
  <2>1. ASSUME NEW rest, Fresh(rest), Accept(w, rest), ShelfKept PROVE ShelfInv'
    BY <1>0, <1>1, <2>1, WorkMovesOn, KeptMovesNothing DEF Accept
  <2>2. ASSUME NEW i \in Item, NEW to, AdvanceItem(w, i, to) PROVE ShelfInv'
    <3>1. Fresh(IF to = "printing" THEN Then("consume", <<i>>, "consume") ELSE Idle)
      BY ThenIsFresh
    <3> QED  BY <1>2, <2>1, <2>2, <3>1 DEF AdvanceItem
  <2>3. ASSUME NEW o \in Order, NEW restock \in BOOLEAN, CancelOrder(w, o, restock)
        PROVE  ShelfInv'
    <3>1. Fresh(IF restock THEN Then("restock", Lines[o], "cancel_restock") ELSE Idle)
      BY ThenIsFresh
    <3> QED  BY <1>2, <2>1, <2>3, <3>1 DEF CancelOrder
  <2>4. ASSUME NEW o \in Order, NEW i, NEW q, NEW amount \in Amount, NEW restock \in BOOLEAN,
               RefundOrder(w, o, i, q, amount, restock)
        PROVE  ShelfInv'
    <3>1. Fresh(IF restock /\ i # NoItem THEN Then("restock", <<i>>, "return") ELSE Idle)
      BY ThenIsFresh
    <3> QED  BY <1>2, <2>1, <2>4, <3>1 DEF RefundOrder
  <2>5. ASSUME NEW c \in Component, NEW n \in Delta, AdjustStock(w, c, n) PROVE ShelfInv'
    <3>1. Adjustment(c, n) \in Posting /\ Adjustment(c, n).items = {}
      BY InputAssumption DEF Adjustment, Posting, Reason, Direction
    <3>2. ShelfKept
      BY <1>0, <2>5, <3>1, ShelfKeptBy DEF AdjustStock
    <3> QED  BY <2>1, <2>5, <3>2, ThenIsFresh DEF AdjustStock
  <2> QED  BY <1>4, <2>2, <2>3, <2>4, <2>5 DEF NewRequest
<1>5. ASSUME NEW w \in Worker, Crash(w) PROVE ShelfInv'
  BY <1>0, <1>1, <1>2, <1>5, WorkMovesOn, KeptMovesNothing, ThenIsFresh DEF Crash, Continue
<1>6. ASSUME NEW w \in Worker, ConsumeRead(w) \/ RestockRead(w) PROVE ShelfInv'
  <2>1. ShelfKept
    BY <1>2, <1>6 DEF ConsumeRead, RestockRead
  <2> QED  BY <1>0, <1>1, <1>6, <2>1, WorkReads
<1>7. ASSUME NEW w \in Worker, ConsumeWrite(w) PROVE ShelfInv'
  <2>1. PICK i \in Item : i = Head(work[w].todo)
    BY <1>7, HeadOfTodo DEF ConsumeWrite
  <2>2. Fresh(Idle) /\ work' = [work EXCEPT ![w] = Idle] /\ raced' = raced
    BY <1>7, ThenIsFresh DEF ConsumeWrite, Continue
  <2>3. CASE UNCHANGED stockVars
    BY <1>0, <1>1, <1>2, <2>2, <2>3, WorkMovesOn, KeptMovesNothing
  <2>4. CASE ~work[w].seen.consumed /\ Insert(Consume(i))
    <3>1. Pending(w, "consuming", i)
      BY <1>7, <2>1 DEF ConsumeWrite, Pending
    <3>2. <<"consuming", i>> \in raced \/ Rows(i, "consume") = {}
      BY <1>0, <2>4, <3>1 DEF SeenIsTrue
    <3>3. /\ ConsumedIsOut' /\ ConsumedOnceUnlessRaced' /\ OutOnceUnlessRaced'
          /\ \A j \in Item : /\ j # i => Rows(j, "consume")' = Rows(j, "consume")
                             /\ Net(j, "hand") < 0 => (Net(j, "hand") < 0)'
      BY <1>0, <2>2, <2>4, <3>2, ShelfAfterConsume
    <3>4. OnlyPendingMoves(w)
      BY <3>1, <3>3 DEF OnlyPendingMoves
    <3>5. RacesRecorded' /\ RestocksBringBack' /\ SeenIsTrue'
      BY <1>0, <2>2, <3>4, WorkMovesOn
    <3> QED  BY <3>3, <3>5 DEF ShelfInv
  <2> QED  BY <1>7, <2>1, <2>3, <2>4 DEF ConsumeWrite
<1>8. ASSUME NEW w \in Worker, RestockWrite(w) PROVE ShelfInv'
  <2>1. PICK i \in Item : i = Head(work[w].todo)
    BY <1>8, HeadOfTodo DEF RestockWrite
  <2>2. Pending(w, "restocking", i)
    BY <1>8, <2>1 DEF RestockWrite, Pending
  <2>3. /\ work[w].reason \in WorkReason \ {"consume"} /\ work[w].seen \in Seen
        /\ work[w].seen.hand \in {0, 1}
        /\ Unraced(i) => (work[w].seen.hand = 1 => Net(i, "hand") < 0)
    BY <1>0, <1>8, <2>2, HeadOfTodo DEF RestockWrite, RestocksBringBack, SeenIsTrue
  <2>4. PICK rest : Fresh(rest) /\ work' = [work EXCEPT ![w] = rest] /\ raced' = raced
    BY <1>8, <2>3, ThenIsFresh DEF RestockWrite, Continue
  <2>5. CASE UNCHANGED stockVars
    BY <1>0, <1>1, <1>2, <2>4, <2>5, WorkMovesOn, KeptMovesNothing
  <2>6. CASE Insert(Restock(i, work[w].reason, work[w].seen))
    <3>1. /\ ConsumedIsOut' /\ ConsumedOnceUnlessRaced' /\ OutOnceUnlessRaced'
          /\ \A j \in Item : /\ Rows(j, "consume")' = Rows(j, "consume")
                             /\ j # i => Net(j, "hand")' = Net(j, "hand")
      BY <1>0, <2>3, <2>4, <2>6, ShelfAfterRestock
    <3>2. OnlyPendingMoves(w)
      BY <2>2, <3>1 DEF OnlyPendingMoves
    <3>3. RacesRecorded' /\ RestocksBringBack' /\ SeenIsTrue'
      BY <1>0, <2>4, <3>2, WorkMovesOn
    <3> QED  BY <3>1, <3>3 DEF ShelfInv
  <2> QED  BY <1>8, <2>1, <2>5, <2>6 DEF RestockWrite
<1>9. CASE UNCHANGED vars
  BY <1>0, <1>1, <1>2, <1>9, WorkKept DEF vars
<1> QED  BY <1>3, <1>4, <1>5, <1>6, <1>7, <1>8, <1>9 DEF Next, Settle, MarkPaidNothing, FollowUp

LEMMA InitShelf == Init => ShelfInv
<1> SUFFICES ASSUME Init PROVE ShelfInv
  OBVIOUS
<1>1. \A i \in Item : Rows(i, "consume") = {} /\ \A d \in {-1, 1} : Moved(i, "hand", d) = {}
  BY DEF Init, StockInit, OpeningPosting, Rows, Moved
<1>2. ASSUME NEW i \in Item PROVE Net(i, "hand") = 0
  <2>1. Moved(i, "hand", 1) = {} /\ Moved(i, "hand", -1) = {}
    BY <1>1
  <2> QED  BY <2>1, FS_EmptySet DEF Net
<1>3. ConsumedIsOut /\ ConsumedOnceUnlessRaced
  BY <1>1 DEF ConsumedIsOut, ConsumedOnceUnlessRaced
<1>4. OutOnceUnlessRaced
  BY <1>2 DEF OutOnceUnlessRaced
<1>5. RacesRecorded /\ RestocksBringBack /\ SeenIsTrue
  BY DEF Init, Idle, RacesRecorded, RestocksBringBack, SeenIsTrue, Pending
<1> QED  BY <1>3, <1>4, <1>5 DEF ShelfInv

(* The shelf's inductive invariant always holds, for any number of workers.*)
THEOREM ShelfInvariant == Spec => []ShelfInv
  BY InitShelf, NextShelf, AlwaysTyped, PTL DEF Spec

(* "Consumption happens exactly once" (advance_item): whatever the workers *)
(* do at the same time, an item is consumed twice only if two of them were *)
(* consuming that very item at once; not by sending it to the printer,     *)
(* back and again, nor by an overlap with a cancellation, a refund or a    *)
(* restock, for any catalogue and any number of workers and requests.      *)
THEOREM ConsumedTwiceOnlyByARace == Spec => []ConsumedOnceUnlessRaced
<1>1. ShelfInv => ConsumedOnceUnlessRaced
  BY DEF ShelfInv
<1> QED  BY <1>1, ShelfInvariant, PTL

(* An item is out of the stock at most once and nothing is put back that   *)
(* was not taken, unless two workers consumed that item, or put it back,   *)
(* at once.  A consumption may overlap a restock: that does no harm.       *)
THEOREM ReturnedTwiceOnlyByARace == Spec => []OutOnceUnlessRaced
<1>1. ShelfInv => OutOnceUnlessRaced
  BY DEF ShelfInv
<1> QED  BY <1>1, ShelfInvariant, PTL
=============================================================================
