-------------------------- MODULE OutboxRelayProofs --------------------------
(***************************************************************************)
(* Proofs about the outbox relay, for every number of relays and rows and  *)
(* every batch size: a row is marked exactly when it is copied, no two     *)
(* relays copy one row, and copies keep the causal order while one relay   *)
(* runs at a time.                                                         *)
(***************************************************************************)
EXTENDS OutboxRelay, FiniteSetTheorems, TLAPS

(* Ids still open are not committed, and both were drawn.                  *)
IdsDrawn ==
  /\ open \cup outbox \subseteq 1 .. lastId
  /\ \A n \in RowId : before[n] \subseteq outbox
  /\ \A n \in RowId : n > lastId => before[n] = {}
  /\ \A n \in RowId : \A m \in before[n] : m < n

(* What a relay holds is committed, unpublished and nobody else's.         *)
Held == \A r \in Relay : batch[r] \subseteq outbox \ published

(* FOR UPDATE SKIP LOCKED: no row is in the batches of two relays.         *)
OneRelayPerRow == \A q, r \in Relay : q # r => batch[q] \cap batch[r] = {}

OneBatch == ~overlapped => \A q, r \in Relay : batch[q] # {} /\ batch[r] # {} => q = r

(* Whatever was visible when a held or copied row was written is copied    *)
(* already, or held with it.                                               *)
HeldClosed ==
  ~overlapped => \A r \in Relay : \A n \in batch[r] : before[n] \subseteq published \cup batch[r]
CopiedClosed == ~overlapped => \A n \in published : before[n] \subseteq published

IInv == /\ TypeOK /\ PublishedIffRelayed /\ OneRelayPerRow /\ CausalOrder
        /\ IdsDrawn /\ Held /\ OneBatch /\ HeldClosed /\ CopiedClosed

-----------------------------------------------------------------------------
(* The sequence that "order by id" makes of a set of rows.                 *)
LEMMA AscendingIsSeq ==
  ASSUME NEW S \in SUBSET RowId, NEW s \in Ascending(S)
  PROVE  /\ s \in Seq(S) /\ Range(s) = S
         /\ \A i, j \in 1 .. Len(s) : i < j => s[i] < s[j]
<1>1. Cardinality(S) \in Nat
  <2>1. IsFiniteSet(RowId)
    BY FS_Interval, MaxRowsAssumption DEF RowId
  <2>2. IsFiniteSet(S)
    BY <2>1, FS_Subset
  <2> QED  BY <2>2, FS_CardinalityType
<1> QED  BY <1>1 DEF Ascending

(* Copying adds the rows of the set behind what is there.                  *)
LEMMA CopiedAppends ==
  ASSUME NEW d \in Seq(RowId), NEW S \in SUBSET RowId, NEW s \in Seq(S), Range(s) = S
  PROVE  /\ d \o s \in Seq(RowId)
         /\ Len(d \o s) = Len(d) + Len(s)
         /\ \A k \in 1 .. Len(d) : (d \o s)[k] = d[k]
         /\ \A k \in Len(d) + 1 .. Len(d) + Len(s) :
              k - Len(d) \in 1 .. Len(s) /\ (d \o s)[k] = s[k - Len(d)]
         /\ Range(d \o s) = Range(d) \cup S
<1>1. s \in Seq(RowId)
  OBVIOUS
<1>2. /\ d \o s \in Seq(RowId) /\ Len(d \o s) = Len(d) + Len(s)
      /\ \A k \in 1 .. Len(d) : (d \o s)[k] = d[k]
      /\ \A k \in Len(d) + 1 .. Len(d) + Len(s) :
           k - Len(d) \in 1 .. Len(s) /\ (d \o s)[k] = s[k - Len(d)]
  BY <1>1
<1>3. /\ Len(d) \in Nat /\ Len(s) \in Nat
      /\ DOMAIN d = 1 .. Len(d) /\ DOMAIN s = 1 .. Len(s)
      /\ DOMAIN (d \o s) = 1 .. Len(d) + Len(s)
  BY <1>1, <1>2
<1> DEFINE t == d \o s
<1> HIDE DEF t
<1>4. ASSUME NEW n \in Range(t) PROVE n \in Range(d) \cup Range(s)
  <2>1. PICK k \in 1 .. Len(d) + Len(s) : t[k] = n
    BY <1>3 DEF t, Range
  <2>2. CASE k \in 1 .. Len(d)
    BY <1>2, <1>3, <2>1, <2>2 DEF t, Range
  <2>3. CASE k \in Len(d) + 1 .. Len(d) + Len(s)
    BY <1>2, <1>3, <2>1, <2>3 DEF t, Range
  <2> QED  BY <1>3, <2>2, <2>3
<1>5. ASSUME NEW n \in Range(d) PROVE n \in Range(t)
  BY <1>2, <1>3 DEF t, Range
<1>6. ASSUME NEW n \in Range(s) PROVE n \in Range(t)
  <2>1. PICK j \in 1 .. Len(s) : s[j] = n
    BY <1>3 DEF Range
  <2>2. /\ Len(d) + j \in Len(d) + 1 .. Len(d) + Len(s)
        /\ Len(d) + j \in 1 .. Len(d) + Len(s)
        /\ (Len(d) + j) - Len(d) = j
    BY <1>3
  <2>3. t[Len(d) + j] = n
    BY <1>2, <2>1, <2>2 DEF t
  <2> QED  BY <1>3, <2>2, <2>3 DEF t, Range
<1> QED  BY <1>2, <1>4, <1>5, <1>6 DEF t

-----------------------------------------------------------------------------
(* The writers' steps: nothing a relay holds or has copied is touched.     *)
LEMMA WriteKeeps == ASSUME IInv, Write PROVE IInv'
<1>1. lastId \in Nat /\ lastId < MaxRows /\ lastId' = lastId + 1 /\ lastId' \in RowId
  BY MaxRowsAssumption DEF IInv, TypeOK, Write, RowId
<1>2. /\ before'[lastId'] = outbox /\ before' \in [RowId -> SUBSET RowId]
      /\ \A n \in RowId \ {lastId'} : before'[n] = before[n]
      /\ open' = open \cup {lastId'}
      /\ UNCHANGED <<outbox, published, domain_events, batch, overlapped>>
  BY <1>1 DEF IInv, TypeOK, Write
<1>3. TypeOK'
  BY <1>1, <1>2, MaxRowsAssumption DEF IInv, TypeOK
<1>4. IdsDrawn'
  <2>1. open' \cup outbox' \subseteq 1 .. lastId'
    BY <1>1, <1>2 DEF IInv, IdsDrawn
  <2>2. ASSUME NEW n \in RowId
        PROVE  /\ before'[n] \subseteq outbox' /\ (n > lastId' => before'[n] = {})
               /\ \A m \in before'[n] : m < n
    <3>1. n \in Nat
      BY DEF RowId
    <3>2. CASE n = lastId'
      BY <1>1, <1>2, <3>2 DEF IInv, IdsDrawn
    <3>3. CASE n # lastId'
      BY <1>1, <1>2, <3>1, <3>3 DEF IInv, IdsDrawn
    <3> QED  BY <3>2, <3>3
  <2> QED  BY <2>1, <2>2 DEF IdsDrawn
<1>5. \A n \in outbox : n \in RowId /\ before'[n] = before[n]
  <2>1. ASSUME NEW n \in outbox PROVE n \in RowId /\ n # lastId'
    BY <1>1 DEF IInv, TypeOK, IdsDrawn
  <2> QED  BY <1>2, <2>1
<1>6. HeldClosed' /\ CopiedClosed'
  BY <1>2, <1>5 DEF IInv, TypeOK, HeldClosed, CopiedClosed, Held
<1>7. CausalOrder'
  <2>1. \A m \in DOMAIN domain_events : before'[domain_events[m]] = before[domain_events[m]]
    BY <1>5 DEF IInv, PublishedIffRelayed, TypeOK, Range
  <2> QED  BY <1>2, <2>1 DEF IInv, CausalOrder
<1> QED  BY <1>2, <1>3, <1>4, <1>6, <1>7
         DEF IInv, PublishedIffRelayed, OneRelayPerRow, Held, OneBatch

LEMMA EndKeeps ==
  ASSUME IInv, NEW n \in RowId, Commit(n) \/ Rollback(n)
  PROVE  IInv'
<1>1. /\ n \in open /\ open' = open \ {n} /\ outbox \subseteq outbox'
      /\ outbox' \subseteq outbox \cup {n}
      /\ UNCHANGED <<published, domain_events, batch, lastId, before, overlapped>>
  BY DEF Commit, Rollback
<1>2. TypeOK' /\ IdsDrawn'
  BY <1>1 DEF IInv, TypeOK, IdsDrawn
<1>3. Held'
  BY <1>1 DEF IInv, Held
<1> QED  BY <1>1, <1>2, <1>3
         DEF IInv, PublishedIffRelayed, OneRelayPerRow, CausalOrder, OneBatch, HeldClosed,
             CopiedClosed

(* The oldest of the rows nobody holds.  If nobody else holds any, rows    *)
(* written before one of them are older, hence taken too or published.     *)
LEMMA SelectKeeps ==
  ASSUME IInv, NEW r \in Relay, Select(r)
  PROVE  IInv'
<1>1. PICK rows \in Oldest(Waiting \ Locked) : batch' = [batch EXCEPT ![r] = rows]
  BY DEF Select
<1>2. /\ batch' = [batch EXCEPT ![r] = rows]
      /\ overlapped' = (overlapped \/ Locked # {})
      /\ UNCHANGED <<open, outbox, published, domain_events, lastId, before>>
  BY <1>1 DEF Select
<1>3. /\ rows \subseteq Waiting \ Locked
      /\ \A m \in rows, n \in (Waiting \ Locked) \ rows : m < n
  BY DEF Oldest, Batches, kSubset
<1>4. /\ rows \subseteq outbox \ published
      /\ \A q \in Relay : rows \cap batch[q] = {}
  BY <1>3 DEF Waiting, Locked
<1>5. batch'[r] = rows /\ \A q \in Relay \ {r} : batch'[q] = batch[q]
  BY <1>2 DEF IInv, TypeOK
<1>6. TypeOK'
  BY <1>2, <1>4 DEF IInv, TypeOK
<1>7. OneRelayPerRow' /\ Held'
  <2>1. OneRelayPerRow'
    BY <1>4, <1>5 DEF IInv, OneRelayPerRow
  <2>2. Held'
    BY <1>2, <1>4, <1>5 DEF IInv, Held
  <2> QED  BY <2>1, <2>2
<1>8. ASSUME ~overlapped' PROVE ~overlapped /\ \A q \in Relay : batch[q] = {}
  BY <1>2, <1>8 DEF Locked
<1>9. OneBatch'
  BY <1>5, <1>8 DEF OneBatch
<1>10. HeldClosed'
  <2> SUFFICES ASSUME ~overlapped', NEW n \in rows, NEW m \in before[n]
               PROVE  m \in published \cup rows
    BY <1>2, <1>5, <1>8 DEF HeldClosed
  <2>1. n \in RowId /\ m < n /\ m \in outbox
    BY <1>4 DEF IInv, IdsDrawn, TypeOK
  <2>2. m \in Nat /\ n \in Nat
    BY <2>1 DEF IInv, TypeOK, RowId
  <2>3. Locked = {}
    BY <1>8 DEF Locked
  <2>4. CASE m \notin published /\ m \notin rows
    <3>1. m \in (Waiting \ Locked) \ rows
      BY <2>1, <2>3, <2>4 DEF Waiting
    <3> QED  BY <1>3, <2>1, <2>2, <3>1
  <2> QED  BY <2>4
<1>11. CausalOrder' /\ CopiedClosed'
  BY <1>2, <1>8 DEF IInv, CausalOrder, CopiedClosed
<1> QED  BY <1>2, <1>6, <1>7, <1>9, <1>10, <1>11 DEF IInv, PublishedIffRelayed, IdsDrawn

LEMMA AbortKeeps ==
  ASSUME IInv, NEW r \in Relay, Abort(r)
  PROVE  IInv'
<1>1. /\ batch' = [batch EXCEPT ![r] = {}]
      /\ UNCHANGED <<open, outbox, published, domain_events, lastId, before, overlapped>>
  BY DEF Abort
<1>2. batch'[r] = {} /\ \A q \in Relay \ {r} : batch'[q] = batch[q]
  BY <1>1 DEF IInv, TypeOK
<1>3. TypeOK'
  BY <1>1 DEF IInv, TypeOK
<1>4. OneRelayPerRow' /\ Held' /\ OneBatch' /\ HeldClosed'
  BY <1>1, <1>2 DEF IInv, OneRelayPerRow, Held, OneBatch, HeldClosed
<1> QED  BY <1>1, <1>3, <1>4 DEF IInv, PublishedIffRelayed, IdsDrawn, CausalOrder, CopiedClosed

(* The commit of a batch.  Its rows go behind the old ones in the order of *)
(* their ids; what was visible before one of them is old, or a smaller id. *)
LEMMA PublishKeeps ==
  ASSUME IInv, NEW r \in Relay, Publish(r)
  PROVE  IInv'
<1> DEFINE d == domain_events
           S == batch[r]
<1>1. /\ d \in Seq(RowId) /\ published = Range(d)
      /\ S \in SUBSET RowId /\ S \cap Range(d) = {} /\ S \subseteq outbox
  BY DEF IInv, TypeOK, PublishedIffRelayed, Held
<1>2. /\ published' = published \cup S /\ S # {}
      /\ batch' = [batch EXCEPT ![r] = {}]
      /\ UNCHANGED <<open, outbox, lastId, before, overlapped>>
  BY DEF Publish
<1>3. S \ Range(d) = S
  BY <1>1
<1>4. PICK s \in Ascending(S) : domain_events' = d \o s
  BY <1>3 DEF Publish, Copied
<1>5. s \in Seq(S) /\ Range(s) = S /\ \A i, j \in 1 .. Len(s) : i < j => s[i] < s[j]
  BY <1>1, AscendingIsSeq
<1> DEFINE t == d \o s
<1>6. /\ t \in Seq(RowId) /\ Len(t) = Len(d) + Len(s)
      /\ \A k \in 1 .. Len(d) : t[k] = d[k]
      /\ \A k \in Len(d) + 1 .. Len(d) + Len(s) :
           k - Len(d) \in 1 .. Len(s) /\ t[k] = s[k - Len(d)]
      /\ Range(t) = Range(d) \cup S
  BY <1>1, <1>5, CopiedAppends
<1>7. domain_events' = t
  BY <1>4
<1>8. batch'[r] = {} /\ \A q \in Relay \ {r} : batch'[q] = batch[q]
  BY <1>2 DEF IInv, TypeOK
<1> HIDE DEF t, d, S
<1>9. TypeOK' /\ PublishedIffRelayed'
  BY <1>1, <1>2, <1>6, <1>7 DEF IInv, TypeOK, PublishedIffRelayed
<1>10. OneRelayPerRow' /\ OneBatch'
  BY <1>2, <1>8 DEF IInv, OneRelayPerRow, OneBatch
<1>11. Held'
  <2> SUFFICES ASSUME NEW q \in Relay, q # r PROVE batch[q] \cap S = {}
    BY <1>2, <1>8 DEF IInv, Held
  <2> QED  BY DEF IInv, OneRelayPerRow, S
<1>12. HeldClosed' /\ CopiedClosed'
  BY <1>2, <1>8 DEF IInv, HeldClosed, CopiedClosed, OneBatch, S
<1>13. CausalOrder'
  <2> SUFFICES ASSUME ~overlapped, NEW k \in DOMAIN t, NEW m \in DOMAIN t, t[k] \in before[t[m]]
               PROVE  k < m
    BY <1>2, <1>7 DEF CausalOrder
  <2>1. /\ k \in 1 .. Len(d) + Len(s) /\ m \in 1 .. Len(d) + Len(s)
        /\ Len(d) \in Nat /\ Len(s) \in Nat /\ DOMAIN d = 1 .. Len(d) /\ DOMAIN s = 1 .. Len(s)
    BY <1>1, <1>5, <1>6
  <2>2. CASE k \in 1 .. Len(d) /\ m \in 1 .. Len(d)
    <3>1. d[k] \in before[d[m]]
      BY <1>6, <2>2
    <3> QED  BY <2>1, <2>2, <3>1 DEF IInv, CausalOrder, d
  <2>3. CASE k \in 1 .. Len(d) /\ m \in Len(d) + 1 .. Len(d) + Len(s)
    BY <2>1, <2>3
  <2>4. CASE k \in Len(d) + 1 .. Len(d) + Len(s) /\ m \in 1 .. Len(d)
    <3>1. t[k] \in S /\ t[m] \in Range(d)
      BY <1>5, <1>6, <2>1, <2>4 DEF Range
    <3>2. before[t[m]] \subseteq Range(d)
      BY <1>1, <3>1 DEF IInv, CopiedClosed
    <3> QED  BY <1>1, <3>1, <3>2
  <2>5. CASE k \in Len(d) + 1 .. Len(d) + Len(s) /\ m \in Len(d) + 1 .. Len(d) + Len(s)
    <3> DEFINE i == k - Len(d)
               j == m - Len(d)
    <3>1. i \in 1 .. Len(s) /\ j \in 1 .. Len(s) /\ t[k] = s[i] /\ t[m] = s[j]
      BY <1>6, <2>5
    <3>2. s[i] \in RowId /\ s[j] \in RowId
      BY <1>1, <1>5, <3>1
    <3>3. s[i] < s[j]
      BY <3>1, <3>2 DEF IInv, IdsDrawn
    <3>4. ~(j < i) /\ i # j
      <4>1. s[i] \in Nat /\ s[j] \in Nat
        BY <3>2 DEF RowId
      <4> QED  BY <1>5, <3>1, <3>3, <4>1
    <3> QED  BY <2>1, <2>5, <3>4
  <2> QED  BY <2>1, <2>2, <2>3, <2>4, <2>5
<1> QED  BY <1>2, <1>9, <1>10, <1>11, <1>12, <1>13 DEF IInv, IdsDrawn

LEMMA InitHolds == Init => IInv
<1> SUFFICES ASSUME Init PROVE IInv
  OBVIOUS
<1>1. DOMAIN domain_events = {} /\ domain_events \in Seq(RowId) /\ Range(domain_events) = {}
  BY DEF Init, Range
<1>2. TypeOK /\ PublishedIffRelayed /\ CausalOrder
  <2>1. TypeOK
    <3>1. 0 \in 0 .. MaxRows
      BY MaxRowsAssumption
    <3> QED  BY <1>1, <3>1 DEF Init, TypeOK
  <2>2. PublishedIffRelayed
    BY <1>1 DEF Init, PublishedIffRelayed
  <2>3. CausalOrder
    BY <1>1 DEF CausalOrder
  <2> QED  BY <2>1, <2>2, <2>3
<1> QED  BY <1>2
         DEF Init, IInv, OneRelayPerRow, IdsDrawn, Held, OneBatch, HeldClosed, CopiedClosed

LEMMA NextKeeps == IInv /\ [Next]_vars => IInv'
<1> SUFFICES ASSUME IInv, [Next]_vars PROVE IInv'
  OBVIOUS
<1>1. CASE UNCHANGED vars
  BY <1>1 DEF vars, IInv, TypeOK, PublishedIffRelayed, OneRelayPerRow, CausalOrder, IdsDrawn,
              Held, OneBatch, HeldClosed, CopiedClosed
<1>2. CASE Next
  BY <1>2, WriteKeeps, EndKeeps, SelectKeeps, PublishKeeps, AbortKeeps DEF Next
<1> QED  BY <1>1, <1>2

(* Rows, marks, copies and batches agree in every state, through crashes,  *)
(* late commits and overlapping relays (worker/main.py, relay_once).       *)
THEOREM Invariance == Spec => []IInv
BY InitHolds, NextKeeps, PTL DEF Spec

(* The rows, batches and copies keep their types, and only committed rows  *)
(* are marked (worker/main.py, relay_once).                                *)
THEOREM OutboxTyped == Spec => []TypeOK
<1>1. IInv => TypeOK
  BY DEF IInv
<1> QED  BY <1>1, Invariance, PTL

(* published_at is set exactly for the rows raw.domain_events has, through *)
(* every crash and however many relays run at once.                        *)
THEOREM MarkedExactlyWhenCopied == Spec => []PublishedIffRelayed
<1>1. IInv => PublishedIffRelayed
  BY DEF IInv
<1> QED  BY <1>1, Invariance, PTL

(* FOR UPDATE SKIP LOCKED: no row is in the batches of two relays.         *)
THEOREM RowsAreHeldOnce == Spec => []OneRelayPerRow
<1>1. IInv => OneRelayPerRow
  BY DEF IInv
<1> QED  BY <1>1, Invariance, PTL

(* Until two relays overlap, a fact visible when another was written is    *)
(* copied before it, whatever transactions commit late and whatever the    *)
(* size of the batches.                                                    *)
THEOREM CopiesKeepCausalOrder == Spec => []CausalOrder
<1>1. IInv => CausalOrder
  BY DEF IInv
<1> QED  BY <1>1, Invariance, PTL
=============================================================================
