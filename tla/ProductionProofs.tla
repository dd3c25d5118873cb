-------------------------- MODULE ProductionProofs --------------------------
(***************************************************************************)
(* Theorems about the workshop board for every set of orders, items and    *)
(* workers: the row locks are enough to make every committed move legal,   *)
(* and the rollup is exact as long as no two transactions overlap.         *)
(***************************************************************************)
EXTENDS Production, WellFoundedInduction, TLAPS

(* A row has one writer, and what it is going to commit is legal from the  *)
(* row's committed status, which therefore nobody else can change.         *)
OneWriter ==
  \A v, w \in Worker : \A i \in Item :
    tx[v].writes[i] # Keep /\ tx[w].writes[i] # Keep => v = w

WritesLegal ==
  \A w \in Worker, i \in Item :
    tx[w].writes[i] # Keep =>
      tx[w].writes[i] \in Allowed(station[i]) \cup {station[i]}

LockInv == TypeOK /\ OneWriter /\ WritesLegal

-----------------------------------------------------------------------------
LEMMA StationNames ==
  /\ Station = {"queued", "blocked", "printing", "printed", "mounting", "framing",
                "qc", "reprint", "packed", "cancelled"}
  /\ Keep \notin Station
<1>1. DOMAIN prod_status = 1 .. 10
  BY DEF prod_status
<1> QED BY <1>1 DEF Station, prod_status, Range, Keep

LEMMA MovesAreStations == \A s \in Station : Allowed(s) \subseteq Station
<1>1. Stations \subseteq Station
  BY StationNames DEF Stations, STATION_ORDER, Range
<1>2. \A s : NextStation(s) \subseteq Stations
  BY DEF NextStation, Stations, STATION_ORDER, Range
<1> QED BY <1>1, <1>2, StationNames DEF Allowed

(* A set of ranks has a least one.                                         *)
LEMMA LeastRank ==
  ASSUME NEW ranks \in SUBSET Nat, ranks # {}
  PROVE  LET least == CHOOSE k \in ranks : \A n \in ranks : k <= n
         IN least \in ranks /\ \A n \in ranks : least <= n
<1>1. PICK k \in ranks : \A n \in ranks : <<n, k>> \notin OpToRel(<, Nat)
  BY NatLessThanWellFounded, WFMin
<1>2. ASSUME NEW n \in ranks PROVE k <= n
  <2>1. <<n, k>> \notin OpToRel(<, Nat)
    BY <1>1
  <2>2. ~(n < k)
    BY <2>1 DEF OpToRel
  <2> QED BY <2>2
<1> QED BY <1>2

LEMMA RollupIsStation == \A S : LeastAdvanced(S) \in Station \cup {NoStation}
<1> TAKE S
<1> DEFINE ranks == {k \in 1 .. Len(prod_status) : prod_status[k] \in S \ {"cancelled"}}
<1>1. CASE ranks = {}
  BY <1>1 DEF LeastAdvanced
<1>2. CASE ranks # {}
  <2>1. ranks \subseteq Nat
    BY DEF prod_status
  <2>3. (CHOOSE k \in ranks : \A n \in ranks : k <= n) \in ranks
    <3> HIDE DEF ranks
    <3> QED BY <1>2, <2>1, LeastRank
  <2>4. ranks \subseteq DOMAIN prod_status
    BY DEF prod_status
  <2>5. LeastAdvanced(S) = prod_status[CHOOSE k \in ranks : \A n \in ranks : k <= n]
    BY <1>2 DEF LeastAdvanced
  <2> HIDE DEF ranks
  <2> QED BY <2>3, <2>4, <2>5 DEF Station, Range
<1> QED BY <1>1, <1>2

(* A worker without a transaction writes nothing.                          *)
LEMMA NoTxWritesNothing ==
  NoTx \in Tx /\ \A i \in Item : NoTx.writes[i] = Keep
  BY OrderAssumption DEF NoTx, Tx, Phase

-----------------------------------------------------------------------------
(* A step that gives w a transaction t whose rows nobody else writes, and  *)
(* whose writes are legal, keeps the invariant.                            *)
LEMMA NewTxKeepsInv ==
  ASSUME LockInv, NEW w \in Worker, NEW t \in Tx,
         tx' = [tx EXCEPT ![w] = t],
         UNCHANGED <<station, rollup, cancelled>>, requests' \in 0 .. MaxRequests,
         overlapped' \in BOOLEAN,
         \A i \in Item : t.writes[i] # Keep =>
           /\ \A v \in Others(w) : tx[v].writes[i] = Keep
           /\ t.writes[i] \in Allowed(station[i]) \cup {station[i]}
  PROVE  LockInv'
<1>1. tx' \in [Worker -> Tx] /\ tx'[w] = t /\ \A v \in Others(w) : tx'[v] = tx[v]
  BY DEF LockInv, TypeOK, Others
<1>2. TypeOK'
  BY <1>1 DEF LockInv, TypeOK
<1>3. OneWriter'
  BY <1>1 DEF LockInv, OneWriter, Others
<1>4. WritesLegal'
  BY <1>1 DEF LockInv, WritesLegal, Others
<1> QED BY <1>2, <1>3, <1>4 DEF LockInv

LEMMA BeginKeepsInv ==
  ASSUME LockInv, NEW w \in Worker, NEW t \in Tx, Begin(w, t),
         \A i \in Item : t.writes[i] # Keep =>
           /\ \A v \in Others(w) : tx[v].writes[i] = Keep
           /\ t.writes[i] \in Allowed(station[i]) \cup {station[i]}
  PROVE  LockInv'
<1>1. requests' \in 0 .. MaxRequests /\ overlapped' \in BOOLEAN
  BY MaxRequestsAssumption DEF Begin, LockInv, TypeOK
<1> QED BY <1>1, NewTxKeepsInv DEF Begin

LEMMA ProceedKeepsInv ==
  ASSUME LockInv, NEW w \in Worker, NEW t \in Tx, Proceed(w, t),
         \A i \in Item : t.writes[i] # Keep =>
           /\ \A v \in Others(w) : tx[v].writes[i] = Keep
           /\ t.writes[i] \in Allowed(station[i]) \cup {station[i]}
  PROVE  LockInv'
<1>1. requests' \in 0 .. MaxRequests /\ overlapped' \in BOOLEAN
  BY DEF Proceed, LockInv, TypeOK
<1> QED BY <1>1, NewTxKeepsInv DEF Proceed

(* A step that keeps the rows w writes.                                    *)
LEMMA SameWritesKeepInv ==
  ASSUME LockInv, NEW w \in Worker, NEW t \in Tx, Proceed(w, t),
         t.writes = tx[w].writes
  PROVE  LockInv'
<1>1. ASSUME NEW i \in Item, t.writes[i] # Keep
      PROVE  /\ \A v \in Others(w) : tx[v].writes[i] = Keep
             /\ t.writes[i] \in Allowed(station[i]) \cup {station[i]}
  BY <1>1 DEF LockInv, OneWriter, WritesLegal, Others
<1> QED BY <1>1, ProceedKeepsInv

-----------------------------------------------------------------------------
LEMMA InitLockInv == Init => LockInv
<1> SUFFICES ASSUME Init PROVE LockInv
  OBVIOUS
<1>1. TypeOK
  <2>1. rollup \in [Order -> Station \cup {NoStation}] /\ "queued" \in Station
    BY StationNames, RollupIsStation DEF Init
  <2>2. station \in [Item -> Station] /\ cancelled \in [Order -> BOOLEAN]
    BY <2>1 DEF Init
  <2>3. tx \in [Worker -> Tx] /\ overlapped \in BOOLEAN
    BY NoTxWritesNothing DEF Init
  <2>4. requests \in 0 .. MaxRequests
    BY MaxRequestsAssumption DEF Init
  <2> QED BY <2>1, <2>2, <2>3, <2>4 DEF TypeOK
<1>2. OneWriter /\ WritesLegal
  BY NoTxWritesNothing DEF Init, OneWriter, WritesLegal
<1> QED BY <1>1, <1>2 DEF LockInv

(* What the transactions leave when they commit.                           *)
LEMMA CommitMoves ==
  ASSUME LockInv, NEW w \in Worker, Commit(w), NEW i \in Item
  PROVE  /\ station'[i] = IF tx[w].writes[i] # Keep THEN tx[w].writes[i] ELSE station[i]
         /\ station'[i] # station[i] => station'[i] \in Allowed(station[i])
  BY DEF LockInv, TypeOK, WritesLegal, Commit, View

LEMMA CommitKeepsInv ==
  ASSUME LockInv, NEW w \in Worker, Commit(w)
  PROVE  LockInv'
<1>1. tx[w] \in Tx
  BY DEF LockInv, TypeOK
<1>2. tx' = [tx EXCEPT ![w] = NoTx] /\ tx' \in [Worker -> Tx]
      /\ tx'[w] = NoTx /\ \A v \in Worker \ {w} : tx'[v] = tx[v]
  BY NoTxWritesNothing DEF LockInv, TypeOK, Commit
<1>3. TypeOK'
  <2>1. station' \in [Item -> Station]
    <3>1. \A i \in Item : View(w, i) \in Station
      BY <1>1 DEF LockInv, TypeOK, Tx, View
    <3> QED BY <3>1 DEF Commit
  <2>2. rollup' \in [Order -> Station \cup {NoStation}]
    BY <1>1 DEF LockInv, TypeOK, Tx, Commit
  <2>3. cancelled' \in [Order -> BOOLEAN]
    BY <1>1 DEF LockInv, TypeOK, Tx, Commit
  <2>4. requests' \in 0 .. MaxRequests /\ overlapped' \in BOOLEAN
    BY DEF LockInv, TypeOK, Commit
  <2> QED BY <1>2, <2>1, <2>2, <2>3, <2>4 DEF TypeOK
<1>4. OneWriter'
  BY <1>2, NoTxWritesNothing DEF LockInv, OneWriter
<1>5. WritesLegal'
  <2> SUFFICES ASSUME NEW v \in Worker, NEW i \in Item, tx'[v].writes[i] # Keep
               PROVE  tx'[v].writes[i] \in Allowed(station'[i]) \cup {station'[i]}
    BY DEF WritesLegal
  <2>1. v # w /\ tx'[v] = tx[v]
    BY <1>2, NoTxWritesNothing
  <2>2. station'[i] = station[i]
    BY <2>1, CommitMoves DEF LockInv, OneWriter
  <2> QED BY <2>1, <2>2 DEF LockInv, WritesLegal
<1> QED BY <1>3, <1>4, <1>5 DEF LockInv

LEMMA NextKeepsInv == LockInv /\ [Next]_vars => LockInv'
<1> SUFFICES ASSUME LockInv, [Next]_vars PROVE LockInv'
  OBVIOUS
<1> USE NoTxWritesNothing
<1>1. ASSUME NEW w \in Worker, NEW i \in Item, NEW to \in Station \cup {NoStation},
             Advance(w, i, to)
      PROVE  LockInv'
  <2> DEFINE t == [NoTx EXCEPT !.phase = "written", !.order = OrderOf[i],
                               !.writes[i] = to, !.exclusive = TRUE]
  <2>1. to \in Station
    BY <1>1, MovesAreStations DEF Advance, LockInv, TypeOK
  <2>2. t \in Tx /\ \A j \in Item : t.writes[j] = IF j = i THEN to ELSE Keep
    BY <2>1, OrderOfAssumption DEF Tx, Phase
  <2>3. \A v \in Others(w) : tx[v].writes[i] = Keep
    BY <1>1 DEF Advance, BlocksForUpdate, Locked
  <2>4. Begin(w, t) /\ to \in Allowed(station[i])
    BY <1>1 DEF Advance
  <2> HIDE DEF t
  <2> QED BY <2>2, <2>3, <2>4, BeginKeepsInv
<1>2. ASSUME NEW w \in Worker, NEW i \in Item, Refund(w, i) PROVE LockInv'
  <2> DEFINE t == [NoTx EXCEPT !.phase = "last", !.order = OrderOf[i],
                               !.writes[i] = station[i]]
  <2>1. t \in Tx /\ \A j \in Item : t.writes[j] = IF j = i THEN station[i] ELSE Keep
    BY OrderOfAssumption DEF Tx, Phase, LockInv, TypeOK
  <2>2. \A v \in Others(w) : tx[v].writes[i] = Keep
    BY <1>2 DEF Refund, BlocksUpdate, Locked
  <2>3. Begin(w, t)
    BY <1>2 DEF Refund
  <2> HIDE DEF t
  <2> QED BY <2>1, <2>2, <2>3, BeginKeepsInv
<1>3. ASSUME NEW w \in Worker, NEW o \in Order, Settle(w, o) PROVE LockInv'
  <2> DEFINE t == [NoTx EXCEPT !.phase = "settling", !.order = o, !.holds = TRUE]
  <2>1. t \in Tx /\ \A j \in Item : t.writes[j] = Keep
    BY DEF Tx, Phase
  <2>2. Begin(w, t)
    BY <1>3 DEF Settle
  <2> HIDE DEF t
  <2> QED BY <2>1, <2>2, BeginKeepsInv
<1>4. ASSUME NEW w \in Worker, NEW o \in Order, Cancel(w, o) PROVE LockInv'
  <2> DEFINE t == [NoTx EXCEPT !.phase = "targets", !.order = o,
                               !.holds = ~cancelled[o], !.cancels = TRUE]
  <2>1. t \in Tx /\ \A j \in Item : t.writes[j] = Keep
    BY DEF Tx, Phase
  <2>2. Begin(w, t)
    BY <1>4 DEF Cancel
  <2> HIDE DEF t
  <2> QED BY <2>1, <2>2, BeginKeepsInv
<1>5. ASSUME NEW w \in Worker, SettleItems(w) PROVE LockInv'
  <2> DEFINE t == [tx[w] EXCEPT !.phase = "last", !.shares = ItemsOf(tx[w].order)]
  <2>1. t \in Tx /\ t.writes = tx[w].writes
    BY DEF Tx, Phase, ItemsOf, LockInv, TypeOK
  <2>2. Proceed(w, t)
    BY <1>5 DEF SettleItems
  <2> HIDE DEF t
  <2> QED BY <2>1, <2>2, SameWritesKeepInv
<1>6. ASSUME NEW w \in Worker, CancelTargets(w) PROVE LockInv'
  <2> DEFINE t == [tx[w] EXCEPT !.phase = "marking",
                     !.targets = {i \in ItemsOf(tx[w].order) : station[i] # "packed"}]
  <2>1. t \in Tx /\ t.writes = tx[w].writes
    BY DEF Tx, Phase, ItemsOf, LockInv, TypeOK
  <2>2. Proceed(w, t)
    BY <1>6 DEF CancelTargets
  <2> HIDE DEF t
  <2> QED BY <2>1, <2>2, SameWritesKeepInv
<1>7. ASSUME NEW w \in Worker, CancelMark(w) PROVE LockInv'
  <2> DEFINE marked == {i \in tx[w].targets : station[i] # "packed"}
             t == [tx[w] EXCEPT
                     !.phase = IF marked = {} THEN "last" ELSE "written",
                     !.writes = [i \in Item |-> IF i \in marked THEN "cancelled" ELSE Keep]]
  <2>1. "cancelled" \in Station /\ \A s : "cancelled" \in Allowed(s)
    BY StationNames DEF Allowed
  <2>2. t \in Tx /\ \A j \in Item : t.writes[j] = IF j \in marked THEN "cancelled" ELSE Keep
    BY <2>1 DEF Tx, Phase, LockInv, TypeOK
  <2>3. \A j \in Item : j \in marked => \A v \in Others(w) : tx[v].writes[j] = Keep
    BY <1>7 DEF CancelMark, BlocksUpdate, Locked
  <2>4. Proceed(w, t)
    BY <1>7 DEF CancelMark
  <2> HIDE DEF t, marked
  <2> QED BY <2>1, <2>2, <2>3, <2>4, ProceedKeepsInv
<1>8. ASSUME NEW w \in Worker, RollUp(w) PROVE LockInv'
  <2> DEFINE rolled == LeastAdvanced({View(w, i) : i \in ItemsOf(tx[w].order)})
             t == [tx[w] EXCEPT !.phase = "last", !.holds = LocksBeforeCounting(w),
                                !.count = rolled]
  <2>1. rolled \in Station \cup {NoStation} /\ LocksBeforeCounting(w) \in BOOLEAN
    BY RollupIsStation DEF LocksBeforeCounting, LockInv, TypeOK, Tx
  <2>2. t \in Tx /\ t.writes = tx[w].writes
    <3> HIDE DEF rolled
    <3> QED BY <2>1 DEF Tx, Phase, LockInv, TypeOK
  <2>3. Proceed(w, t)
    BY <1>8 DEF RollUp
  <2> HIDE DEF t
  <2> QED BY <2>2, <2>3, SameWritesKeepInv
<1>9. ASSUME NEW w \in Worker, DeadlockVictim(w) \/ Crash(w) PROVE LockInv'
  <2>1. Proceed(w, NoTx)
    BY <1>9 DEF DeadlockVictim, Crash
  <2> QED BY <2>1, ProceedKeepsInv
<1>10. CASE UNCHANGED vars
  BY <1>10 DEF vars, LockInv, TypeOK, OneWriter, WritesLegal
<1> QED
  BY <1>1, <1>2, <1>3, <1>4, <1>5, <1>6, <1>7, <1>8, <1>9, <1>10, CommitKeepsInv
  DEF Next, Step

(* Every item has one writer at most, and what it will commit is legal     *)
(* from the committed status (db/repo/admin.py, advance_item).             *)
THEOREM LocksHold == Spec => []LockInv
<1> QED BY InitLockInv, NextKeepsInv, PTL DEF Spec

(* Every variable keeps its type, for any number of orders and workers.    *)
THEOREM ProductionTypes == Spec => []TypeOK
<1>1. LockInv => TypeOK
  BY DEF LockInv
<1> QED BY <1>1, LocksHold, PTL

(* No interleaving of advances, cancellations, refunds and settlements     *)
(* commits a move that advance_item would have refused: the row lock taken *)
(* by SELECT ... FOR UPDATE is held until the status is committed.         *)
THEOREM CommittedMovesAreLegal == Spec => LegalMoves
<1>1. LockInv /\ [Next]_vars =>
        [\A i \in Item : station'[i] # station[i] => station'[i] \in Allowed(station[i])]_vars
  <2> SUFFICES ASSUME LockInv, Next, NEW i \in Item, station'[i] # station[i]
               PROVE  station'[i] \in Allowed(station[i])
    OBVIOUS
  <2>1. \E w \in Worker : Commit(w)
    BY DEF Next, Step, Advance, Refund, Settle, Cancel, SettleItems, CancelTargets,
           CancelMark, RollUp, DeadlockVictim, Crash, Begin, Proceed
  <2> QED BY <2>1, CommitMoves
<1> QED BY <1>1, LocksHold, PTL DEF Spec, LegalMoves

-----------------------------------------------------------------------------
(* The roll-up when no two transactions overlap.                           *)

(* The rollup an order is due when t commits.                              *)
Seen(t, i) == IF t.writes[i] # Keep THEN t.writes[i] ELSE station[i]

Due(t) == LeastAdvanced({Seen(t, i) : i \in ItemsOf(t.order)})

(* A transaction writes only items of its order, and before its last step  *)
(* it has counted what it wrote, unless it changes no status.              *)
Counted(t) ==
  IF t.count = Keep THEN \A i \in Item : t.writes[i] # Keep => t.writes[i] = station[i]
  ELSE t.count = Due(t)

TxFits(t) ==
  /\ \A i \in Item : t.writes[i] # Keep => OrderOf[i] = t.order
  /\ t.targets \subseteq ItemsOf(t.order)
  /\ t.phase \in {"idle", "settling", "targets", "marking"} =>
       t.count = Keep /\ \A i \in Item : t.writes[i] = Keep
  /\ t.phase = "last" => Counted(t)

RollupCounted ==
  \A o \in Order : rollup[o] = LeastAdvanced({station[i] : i \in ItemsOf(o)})

AloneInv ==
  ~overlapped =>
    /\ \A v, w \in Worker : tx[v].phase # "idle" /\ tx[w].phase # "idle" => v = w
    /\ RollupCounted
    /\ \A w \in Worker : TxFits(tx[w])

(* LeastAdvanced computes what the comment of the column asks for.         *)
LEMMA LeastAdvancedIsLeast ==
  ASSUME NEW S \in SUBSET Station
  PROVE  IsLeast(LeastAdvanced(S), S)
<1> DEFINE ranks == {k \in 1 .. Len(prod_status) : prod_status[k] \in S \ {"cancelled"}}
           least == CHOOSE k \in ranks : \A n \in ranks : k <= n
<1>1. Len(prod_status) = 10 /\ DOMAIN prod_status = 1 .. 10
  BY DEF prod_status
<1>2. \A t \in S \ {"cancelled"} : \E n \in ranks : prod_status[n] = t
  BY <1>1 DEF Station, Range
<1>3. CASE ranks = {}
  <2>1. S \ {"cancelled"} = {}
    BY <1>2, <1>3
  <2> QED BY <1>3, <2>1 DEF IsLeast, LeastAdvanced
<1>4. CASE ranks # {}
  <2>1. least \in ranks /\ \A n \in ranks : least <= n
    <3> HIDE DEF ranks
    <3> QED BY <1>1, <1>4, LeastRank DEF ranks
  <2>2. LeastAdvanced(S) = prod_status[least]
    BY <1>4 DEF LeastAdvanced
  <2> HIDE DEF least
  <2> QED BY <1>1, <1>2, <2>1, <2>2 DEF IsLeast
<1> QED BY <1>3, <1>4

LEMMA NoTxFits == TxFits(NoTx)
  BY DEF TxFits, NoTx

(* A new or continued transaction t of w that fits keeps the invariant.    *)
LEMMA FittingTxKeepsAlone ==
  ASSUME LockInv, AloneInv, NEW w \in Worker, NEW t, TxFits(t),
         tx' = [tx EXCEPT ![w] = t], UNCHANGED <<station, rollup>>,
         ~overlapped' => ~overlapped /\ \A v \in Others(w) : tx[v].phase = "idle"
  PROVE  AloneInv'
<1> SUFFICES ASSUME ~overlapped'
             PROVE  /\ \A u, v \in Worker :
                         tx'[u].phase # "idle" /\ tx'[v].phase # "idle" => u = v
                    /\ RollupCounted'
                    /\ \A v \in Worker : TxFits(tx[v])'
  BY DEF AloneInv
<1>1. tx'[w] = t /\ \A v \in Others(w) : tx'[v] = tx[v] /\ tx[v].phase = "idle"
  BY DEF LockInv, TypeOK, Others
<1>2. RollupCounted'
  BY DEF AloneInv, RollupCounted
<1>3. \A v \in Worker : TxFits(tx[v])'
  <2>1. \A v \in Worker : TxFits(tx'[v])
    BY <1>1 DEF AloneInv, Others
  <2> QED BY <2>1 DEF TxFits, Counted, Due, Seen
<1> QED BY <1>1, <1>2, <1>3 DEF Others

LEMMA BeginKeepsAlone ==
  ASSUME LockInv, AloneInv, NEW w \in Worker, NEW t, Begin(w, t), TxFits(t)
  PROVE  AloneInv'
  BY FittingTxKeepsAlone DEF Begin

LEMMA ProceedKeepsAlone ==
  ASSUME LockInv, AloneInv, NEW w \in Worker, NEW t, Proceed(w, t),
         tx[w].phase # "idle", ~overlapped => TxFits(t)
  PROVE  AloneInv'
<1>1. CASE overlapped
  BY <1>1 DEF Proceed, AloneInv
<1>2. CASE ~overlapped
  <2>1. \A v \in Others(w) : tx[v].phase = "idle"
    BY <1>2 DEF AloneInv, Others
  <2> QED BY <1>2, <2>1, FittingTxKeepsAlone DEF Proceed
<1> QED BY <1>1, <1>2

LEMMA CommitKeepsAlone ==
  ASSUME LockInv, AloneInv, NEW w \in Worker, Commit(w)
  PROVE  AloneInv'
<1> SUFFICES ASSUME ~overlapped'
             PROVE  /\ \A u, v \in Worker :
                         tx'[u].phase # "idle" /\ tx'[v].phase # "idle" => u = v
                    /\ RollupCounted'
                    /\ \A v \in Worker : TxFits(tx[v])'
  BY DEF AloneInv
<1>1. ~overlapped /\ tx[w].phase = "last" /\ TxFits(tx[w]) /\ RollupCounted
  BY DEF Commit, AloneInv
<1>2. tx'[w] = NoTx /\ \A v \in Others(w) : tx'[v] = tx[v] /\ tx[v].phase = "idle"
  BY <1>1 DEF Commit, LockInv, TypeOK, AloneInv, Others
<1>3. \A i \in Item : station'[i] = Seen(tx[w], i)
  BY DEF Commit, View, Seen
<1>4. RollupCounted'
  <2> SUFFICES ASSUME NEW o \in Order
               PROVE  rollup'[o] = LeastAdvanced({station'[i] : i \in ItemsOf(o)})
    BY DEF RollupCounted
  <2>1. CASE tx[w].count = Keep
    <3>1. \A i \in Item : station'[i] = station[i]
      BY <1>1, <1>3, <2>1 DEF TxFits, Counted, Seen
    <3>2. {station'[i] : i \in ItemsOf(o)} = {station[i] : i \in ItemsOf(o)}
      BY <3>1 DEF ItemsOf
    <3>3. rollup' = rollup
      BY <2>1 DEF Commit
    <3> QED BY <1>1, <3>2, <3>3 DEF RollupCounted
  <2>2. CASE tx[w].count # Keep /\ o = tx[w].order
    <3>1. {station'[i] : i \in ItemsOf(o)} = {Seen(tx[w], i) : i \in ItemsOf(o)}
      BY <1>3 DEF ItemsOf
    <3>2. rollup'[o] = tx[w].count
      BY <2>2 DEF Commit, LockInv, TypeOK
    <3> QED BY <1>1, <2>2, <3>1, <3>2 DEF TxFits, Counted, Due
  <2>3. CASE tx[w].count # Keep /\ o # tx[w].order
    <3>1. \A i \in ItemsOf(o) : station'[i] = station[i]
      BY <1>1, <1>3, <2>3 DEF TxFits, Seen, ItemsOf
    <3>2. {station'[i] : i \in ItemsOf(o)} = {station[i] : i \in ItemsOf(o)}
      BY <3>1
    <3>3. rollup'[o] = rollup[o]
      BY <2>3 DEF Commit, LockInv, TypeOK
    <3> QED BY <1>1, <3>2, <3>3 DEF RollupCounted
  <2> QED BY <2>1, <2>2, <2>3
<1>5. \A v \in Worker : TxFits(tx[v])'
  <2>1. ASSUME NEW v \in Worker PROVE TxFits(tx[v])'
    <3>1. CASE v = w
      BY <1>2, <3>1 DEF TxFits, NoTx
    <3>2. CASE v # w
      <4>1. tx'[v] = tx[v] /\ tx[v].phase = "idle" /\ TxFits(tx[v])
        BY <1>1, <1>2, <3>2 DEF AloneInv, Others
      <4> QED BY <4>1 DEF TxFits
    <3> QED BY <3>1, <3>2
  <2> QED BY <2>1
<1> QED BY <1>2, <1>4, <1>5 DEF Others, NoTx

LEMMA InitAloneInv == Init => AloneInv
<1> SUFFICES ASSUME Init PROVE AloneInv
  OBVIOUS
<1>1. RollupCounted
  BY DEF Init, RollupCounted
<1>2. \A w \in Worker : tx[w] = NoTx
  BY DEF Init
<1> QED BY <1>1, <1>2, NoTxFits DEF AloneInv, NoTx

LEMMA NextKeepsAlone ==
  ASSUME LockInv, AloneInv, [Next]_vars
  PROVE  AloneInv'
<1>1. ASSUME NEW w \in Worker, NEW i \in Item, NEW to \in Station \cup {NoStation},
             Advance(w, i, to)
      PROVE  AloneInv'
  <2> DEFINE t == [NoTx EXCEPT !.phase = "written", !.order = OrderOf[i],
                               !.writes[i] = to, !.exclusive = TRUE]
  <2>1. TxFits(t)
    BY DEF TxFits, NoTx
  <2>2. Begin(w, t)
    BY <1>1 DEF Advance
  <2> HIDE DEF t
  <2> QED BY <2>1, <2>2, BeginKeepsAlone
<1>2. ASSUME NEW w \in Worker, NEW i \in Item, Refund(w, i) PROVE AloneInv'
  <2> DEFINE t == [NoTx EXCEPT !.phase = "last", !.order = OrderOf[i],
                               !.writes[i] = station[i]]
  <2>1. TxFits(t)
    BY DEF TxFits, Counted, NoTx
  <2>2. Begin(w, t)
    BY <1>2 DEF Refund
  <2> HIDE DEF t
  <2> QED BY <2>1, <2>2, BeginKeepsAlone
<1>3. ASSUME NEW w \in Worker, NEW o \in Order, Settle(w, o) PROVE AloneInv'
  <2> DEFINE t == [NoTx EXCEPT !.phase = "settling", !.order = o, !.holds = TRUE]
  <2>1. TxFits(t)
    BY DEF TxFits, NoTx
  <2>2. Begin(w, t)
    BY <1>3 DEF Settle
  <2> HIDE DEF t
  <2> QED BY <2>1, <2>2, BeginKeepsAlone
<1>4. ASSUME NEW w \in Worker, NEW o \in Order, Cancel(w, o) PROVE AloneInv'
  <2> DEFINE t == [NoTx EXCEPT !.phase = "targets", !.order = o,
                               !.holds = ~cancelled[o], !.cancels = TRUE]
  <2>1. TxFits(t)
    BY DEF TxFits, NoTx
  <2>2. Begin(w, t)
    BY <1>4 DEF Cancel
  <2> HIDE DEF t
  <2> QED BY <2>1, <2>2, BeginKeepsAlone
<1>5. ASSUME NEW w \in Worker, SettleItems(w) PROVE AloneInv'
  <2> DEFINE t == [tx[w] EXCEPT !.phase = "last", !.shares = ItemsOf(tx[w].order)]
  <2>1. tx[w] \in Tx /\ tx[w].phase = "settling" /\ Proceed(w, t)
    BY <1>5 DEF SettleItems, LockInv, TypeOK
  <2>2. ~overlapped => TxFits(t)
    BY <2>1 DEF AloneInv, TxFits, Counted, Tx
  <2> HIDE DEF t
  <2> QED BY <2>1, <2>2, ProceedKeepsAlone
<1>6. ASSUME NEW w \in Worker, CancelTargets(w) PROVE AloneInv'
  <2> DEFINE t == [tx[w] EXCEPT !.phase = "marking",
                     !.targets = {i \in ItemsOf(tx[w].order) : station[i] # "packed"}]
  <2>1. tx[w] \in Tx /\ tx[w].phase = "targets" /\ Proceed(w, t)
    BY <1>6 DEF CancelTargets, LockInv, TypeOK
  <2>2. ~overlapped => TxFits(t)
    BY <2>1 DEF AloneInv, TxFits, Tx
  <2> HIDE DEF t
  <2> QED BY <2>1, <2>2, ProceedKeepsAlone
<1>7. ASSUME NEW w \in Worker, CancelMark(w) PROVE AloneInv'
  <2> DEFINE marked == {i \in tx[w].targets : station[i] # "packed"}
             t == [tx[w] EXCEPT
                     !.phase = IF marked = {} THEN "last" ELSE "written",
                     !.writes = [i \in Item |-> IF i \in marked THEN "cancelled" ELSE Keep]]
  <2>1. tx[w] \in Tx /\ tx[w].phase = "marking" /\ Proceed(w, t)
    BY <1>7 DEF CancelMark, LockInv, TypeOK
  <2>2. /\ t.order = tx[w].order /\ t.targets = tx[w].targets /\ t.count = tx[w].count
        /\ t.phase = IF marked = {} THEN "last" ELSE "written"
        /\ \A i \in Item : t.writes[i] = IF i \in marked THEN "cancelled" ELSE Keep
    BY <2>1 DEF Tx
  <2>3. ~overlapped => TxFits(t)
    <3> SUFFICES ASSUME ~overlapped PROVE TxFits(t)
      OBVIOUS
    <3>1. TxFits(tx[w])
      BY DEF AloneInv
    <3>2. tx[w].count = Keep /\ marked \subseteq ItemsOf(tx[w].order)
      BY <2>1, <3>1 DEF TxFits
    <3>3. \A i \in Item : t.writes[i] # Keep => OrderOf[i] = t.order
      BY <2>2, <3>2 DEF ItemsOf
    <3>4. t.phase = "last" => Counted(t)
      <4> SUFFICES ASSUME t.phase = "last" PROVE Counted(t)
        OBVIOUS
      <4>1. marked = {}
        BY <2>2
      <4>2. \A i \in Item : t.writes[i] = Keep
        BY <2>2, <4>1
      <4> HIDE DEF t, marked
      <4> QED BY <2>2, <3>2, <4>2 DEF Counted
    <3> HIDE DEF t, marked
    <3> QED BY <2>2, <3>1, <3>3, <3>4 DEF TxFits
  <2> HIDE DEF t, marked
  <2> QED BY <2>1, <2>3, ProceedKeepsAlone
<1>8. ASSUME NEW w \in Worker, RollUp(w) PROVE AloneInv'
  <2> DEFINE rolled == LeastAdvanced({View(w, i) : i \in ItemsOf(tx[w].order)})
             t == [tx[w] EXCEPT !.phase = "last", !.holds = LocksBeforeCounting(w),
                                !.count = rolled]
  <2>1. tx[w] \in Tx /\ tx[w].phase = "written" /\ Proceed(w, t)
    BY <1>8 DEF RollUp, LockInv, TypeOK
  <2>2. rolled = Due(tx[w])
    BY DEF Due, View, Seen
  <2> HIDE DEF rolled
  <2>3. /\ t.order = tx[w].order /\ t.targets = tx[w].targets /\ t.count = rolled
        /\ t.phase = "last" /\ t.writes = tx[w].writes
    BY <2>1 DEF Tx
  <2> HIDE DEF t
  <2>4. rolled # Keep
    BY <2>2, RollupIsStation, StationNames DEF Due, Keep, NoStation
  <2>5. Counted(t)
    BY <2>2, <2>3, <2>4 DEF Counted, Due, Seen
  <2>6. ~overlapped => TxFits(t)
    BY <2>3, <2>5 DEF AloneInv, TxFits
  <2> QED BY <2>1, <2>6, ProceedKeepsAlone
<1>9. ASSUME NEW w \in Worker, DeadlockVictim(w) \/ Crash(w) PROVE AloneInv'
  <2>1. Proceed(w, NoTx)
    BY <1>9 DEF DeadlockVictim, Crash
  <2>2. tx[w].phase # "idle"
    BY <1>9 DEF DeadlockVictim, Crash, Deadlocked, WaitsFor
  <2> QED BY <2>1, <2>2, NoTxFits, ProceedKeepsAlone
<1>10. CASE UNCHANGED vars
  <2>1. UNCHANGED <<overlapped, rollup, station, tx>>
    BY <1>10 DEF vars
  <2>2. RollupCounted' <=> RollupCounted
    BY <2>1 DEF RollupCounted
  <2>3. \A w \in Worker : TxFits(tx[w])' <=> TxFits(tx[w])
    BY <2>1 DEF TxFits, Counted, Due, Seen
  <2> QED BY <2>1, <2>2, <2>3 DEF AloneInv
<1> QED
  BY <1>1, <1>2, <1>3, <1>4, <1>5, <1>6, <1>7, <1>8, <1>9, <1>10, CommitKeepsAlone
  DEF Next, Step

(* The trigger is right as long as transactions do not overlap: whatever   *)
(* is advanced, cancelled, refunded, settled, killed or rolled back, the   *)
(* rollup of every order is its least-advanced non-cancelled item.         *)
THEOREM RollupExactWhenAlone == Spec => []RollupExactAlone
<1>1. LockInv /\ AloneInv => RollupExactAlone
  <2> SUFFICES ASSUME LockInv, AloneInv, ~overlapped, NEW o \in Order
               PROVE  IsLeast(rollup[o], {station[i] : i \in ItemsOf(o)})
    BY DEF RollupExactAlone, RollupExact
  <2>1. {station[i] : i \in ItemsOf(o)} \in SUBSET Station
    BY DEF LockInv, TypeOK, ItemsOf
  <2>2. rollup[o] = LeastAdvanced({station[i] : i \in ItemsOf(o)})
    BY DEF AloneInv, RollupCounted
  <2> QED BY <2>1, <2>2, LeastAdvancedIsLeast
<1>2. LockInv /\ AloneInv /\ [Next]_vars => AloneInv'
  BY NextKeepsAlone
<1> QED BY InitAloneInv, <1>1, <1>2, LocksHold, PTL DEF Spec
=============================================================================
