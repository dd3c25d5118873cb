------------------------ MODULE EventPipelineProofs ------------------------
(***************************************************************************)
(* The loader never acknowledges an entry it has not stored, for any       *)
(* number of loaders, events and deliveries, whatever the collector made   *)
(* of the browsers' clocks.                                                *)
(***************************************************************************)
EXTENDS EventPipeline, TLAPS

(* What a loader holds was delivered to it, and is in the table once its   *)
(* transaction is committed.                                               *)
InHand ==
  \A l \in Loader :
    /\ reading[l] \subseteq 1 .. delivered
    /\ stored[l] => reading[l] # {}
    /\ stored[l] => \A k \in reading[l] : IsStored(k)

(* Nothing was delivered before there was a group.                         *)
GroupFirst == ~group => delivered = 0

Inv == TypeOK /\ InHand /\ GroupFirst /\ AckedWereStored

-----------------------------------------------------------------------------
LEMMA MaxOfTwo ==
  ASSUME NEW a \in Int, NEW b \in Int
  PROVE  Max({a, b}) \in {a, b} /\ Max({a, b}) >= a /\ Max({a, b}) >= b
<1>1. \E x \in {a, b} : \A y \in {a, b} : x >= y
  OBVIOUS
<1> QED BY <1>1 DEF Max

LEMMA MinOfTwo ==
  ASSUME NEW a \in Int, NEW b \in Int
  PROVE  Min({a, b}) \in {a, b} /\ Min({a, b}) <= a /\ Min({a, b}) <= b
<1>1. \E x \in {a, b} : \A y \in {a, b} : x <= y
  OBVIOUS
<1> QED BY <1>1 DEF Min

LEMMA CleanIsRow ==
  ASSUME NEW e \in Event, NEW n \in 0 .. MaxSends, NEW believed \in BOOLEAN
  PROVE  Clean(e, n, believed) \in Row
  BY BoundsAssumption DEF Clean, Row

LEMMA InitInv == Init => Inv
<1> SUFFICES ASSUME Init PROVE Inv
  OBVIOUS
<1>1. 1 .. 0 = {} /\ 0 \in 0 .. MaxSends /\ Len(<<>>) = 0
  BY BoundsAssumption
<1>2. TypeOK
  <2>1. stream \in Seq(Row) /\ Len(stream) = 0
    BY DEF Init
  <2>2. trimmed \in 0 .. Len(stream) /\ delivered \in 0 .. Len(stream)
    BY <2>1 DEF Init
  <2>3. pending \subseteq 1 .. delivered /\ reading \in [Loader -> SUBSET Entry]
    BY DEF Init
  <2> QED BY <1>1, <2>1, <2>2, <2>3 DEF Init, TypeOK
<1>3. InHand /\ GroupFirst /\ AckedWereStored
  BY <1>1 DEF Init, InHand, GroupFirst, AckedWereStored
<1> QED BY <1>2, <1>3 DEF Inv

(* The entries a loader asks for are new and in the stream.                *)
LEMMA ReadBounds ==
  ASSUME TypeOK, NEW first, NEW last,
         first = Max({delivered, trimmed}) + 1,
         last = Min({first + Batch - 1, Len(stream)}),
         first <= last
  PROVE  /\ first \in Nat /\ last \in Nat
         /\ delivered < first /\ trimmed < first /\ last <= Len(stream)
         /\ \A k \in delivered + 1 .. last : k <= trimmed \/ k \in first .. last
<1>1. /\ Len(stream) \in Nat /\ delivered \in Nat /\ trimmed \in Nat /\ Batch \in Nat
      /\ Len(stream) \in Int /\ delivered \in Int /\ trimmed \in Int
  BY BoundsAssumption DEF TypeOK
<1>2. Max({delivered, trimmed}) \in {delivered, trimmed}
      /\ Max({delivered, trimmed}) >= delivered /\ Max({delivered, trimmed}) >= trimmed
  BY <1>1, MaxOfTwo
<1>3. first \in Nat /\ delivered < first /\ trimmed < first
      /\ (first = delivered + 1 \/ first = trimmed + 1)
  BY <1>1, <1>2
<1>4. first + Batch - 1 \in Int /\ first + Batch - 1 \in Nat
  BY <1>1, <1>3, BoundsAssumption
<1>5. last \in {first + Batch - 1, Len(stream)} /\ last <= Len(stream)
  BY <1>1, <1>4, MinOfTwo
<1>6. last \in Nat
  BY <1>1, <1>4, <1>5
<1>7. \A k \in delivered + 1 .. last : k <= trimmed \/ k \in first .. last
  BY <1>1, <1>3, <1>6
<1> QED BY <1>1, <1>3, <1>5, <1>6, <1>7

LEMMA CollectKeepsInv ==
  ASSUME Inv, NEW e \in Event, NEW believed \in BOOLEAN, Collect(e, believed)
  PROVE  Inv'
<1>1. stream \in Seq(Row) /\ Len(stream) \in Nat /\ trimmed \in 0 .. Len(stream)
      /\ delivered \in 0 .. Len(stream)
  BY DEF Inv, TypeOK
<1>2. sends' \in [Event -> 0 .. MaxSends] /\ sends'[e] \in 0 .. MaxSends
  BY BoundsAssumption DEF Inv, TypeOK, Collect
<1>3. stream' \in Seq(Row) /\ Len(stream') = Len(stream) + 1
      /\ \A k \in 1 .. Len(stream) : stream'[k] = stream[k]
  BY <1>1, <1>2, CleanIsRow DEF Collect
<1>4. trimmed' \in 0 .. Len(stream') /\ trimmed' >= trimmed
  <2>1. trimmed \in Int /\ Len(stream') - MaxLen \in Int
    BY <1>1, <1>3, BoundsAssumption
  <2>2. Max({trimmed, Len(stream') - MaxLen}) \in {trimmed, Len(stream') - MaxLen}
    BY <2>1, MaxOfTwo
  <2>3. trimmed' \in trimmed .. Max({trimmed, Len(stream') - MaxLen})
    BY DEF Collect
  <2> QED BY <1>1, <1>3, <2>1, <2>2, <2>3, BoundsAssumption
<1>5. TypeOK'
  BY <1>1, <1>2, <1>3, <1>4 DEF Inv, TypeOK, Collect, Entry
<1>6. \A k : IsStored(k) => IsStored(k)'
  BY <1>1, <1>3 DEF Collect, IsStored, Entry
<1>7. InHand'
  BY <1>6 DEF Inv, InHand, Collect
<1>8. AckedWereStored'
  BY <1>1, <1>4, <1>6 DEF Inv, AckedWereStored, Collect
<1> QED BY <1>5, <1>7, <1>8 DEF Inv, GroupFirst, Collect

LEMMA ReadKeepsInv ==
  ASSUME Inv, NEW l \in Loader, Read(l)
  PROVE  Inv'
<1> DEFINE first == Max({delivered, trimmed}) + 1
           last  == Min({first + Batch - 1, Len(stream)})
<1>1. /\ first \in Nat /\ last \in Nat
      /\ delivered < first /\ trimmed < first /\ last <= Len(stream) /\ first <= last
      /\ \A k \in delivered + 1 .. last : k <= trimmed \/ k \in first .. last
  BY ReadBounds DEF Read, Inv
<1>2. /\ reading' = [reading EXCEPT ![l] = first .. last]
      /\ pending' = pending \cup first .. last
      /\ delivered' = last
      /\ UNCHANGED <<sends, stream, trimmed, group, stored, events>>
      /\ reading[l] = {}
  BY DEF Read
<1> HIDE DEF first, last
<1>3. delivered \in Nat /\ Len(stream) \in Nat
  BY DEF Inv, TypeOK
<1>4. TypeOK'
  BY <1>1, <1>2, <1>3 DEF Inv, TypeOK, Entry
<1>5. InHand' /\ GroupFirst'
  <2>1. ASSUME NEW m \in Loader PROVE reading'[m] \subseteq 1 .. delivered'
    BY <1>1, <1>2, <1>3 DEF Inv, TypeOK, InHand
  <2>2. ASSUME NEW m \in Loader, stored'[m]
        PROVE  reading'[m] # {} /\ \A k \in reading'[m] : IsStored(k)'
    BY <1>2, <2>2 DEF Inv, TypeOK, InHand, IsStored, Entry
  <2>3. GroupFirst'
    BY <1>2 DEF GroupFirst, Read
  <2> QED BY <2>1, <2>2, <2>3 DEF InHand
<1>6. AckedWereStored'
  <2> SUFFICES ASSUME NEW k \in 1 .. last, k \notin pending', ~(k <= trimmed)
               PROVE  IsStored(k)
    BY <1>2 DEF AckedWereStored, IsStored, Entry
  <2>1. k \in 1 .. delivered
    BY <1>1, <1>2, <1>3
  <2> QED BY <2>1, <1>2 DEF Inv, AckedWereStored
<1> QED BY <1>4, <1>5, <1>6 DEF Inv

(* An empty-handed loader keeps the invariant if it gives up nothing that  *)
(* is not stored.                                                          *)
LEMMA ForgetKeepsInv ==
  ASSUME Inv, NEW l \in Loader, Forget(l), pending' \subseteq pending,
         \A k \in pending \ pending' : IsStored(k)
  PROVE  Inv'
<1>1. TypeOK'
  BY DEF Inv, TypeOK, Forget, Entry
<1>2. InHand'
  BY DEF Inv, TypeOK, InHand, Forget, IsStored, Entry
<1>3. AckedWereStored'
  BY DEF Inv, AckedWereStored, Forget, IsStored, Entry
<1> QED BY <1>1, <1>2, <1>3 DEF Inv, GroupFirst, Forget

LEMMA LoadKeepsInv ==
  ASSUME Inv, NEW l \in Loader, Load(l)
  PROVE  Inv'
<1>1. RowsOf(reading[l]) \subseteq Row
  BY DEF Inv, TypeOK, RowsOf, Entry
<1>2. TypeOK'
  BY <1>1 DEF Inv, TypeOK, Load, Entry
<1>3. \A k : IsStored(k) => IsStored(k)'
  BY DEF Load, IsStored, Entry
<1>4. \A k \in reading[l] : IsStored(k)'
  BY DEF Inv, TypeOK, Load, IsStored, Entry, RowsOf
<1>5. InHand'
  BY <1>3, <1>4 DEF Inv, TypeOK, InHand, Load
<1>6. AckedWereStored'
  BY <1>3 DEF Inv, AckedWereStored, Load
<1> QED BY <1>2, <1>5, <1>6 DEF Inv, GroupFirst, Load

LEMMA NextKeepsInv == Inv /\ [Next]_vars => Inv'
<1> SUFFICES ASSUME Inv, [Next]_vars PROVE Inv'
  OBVIOUS
<1>1. ASSUME NEW e \in Event, Drop(e) PROVE Inv'
  BY <1>1, BoundsAssumption
  DEF Drop, Inv, TypeOK, InHand, GroupFirst, AckedWereStored, IsStored, Entry
<1>2. CASE EnsureGroup
  <2>1. delivered = 0 /\ delivered' = delivered
    BY <1>2 DEF Inv, GroupFirst, EnsureGroup
  <2> QED BY <1>2, <2>1
       DEF EnsureGroup, Inv, TypeOK, InHand, GroupFirst, AckedWereStored, IsStored, Entry
<1>3. CASE Reclaim
  <2>1. TypeOK' /\ InHand' /\ GroupFirst'
    BY <1>3 DEF Reclaim, Inv, TypeOK, InHand, GroupFirst, IsStored, Entry
  <2>2. AckedWereStored'
    BY <1>3 DEF Reclaim, Inv, TypeOK, AckedWereStored, IsStored, Entry
  <2> QED BY <2>1, <2>2 DEF Inv
<1>4. ASSUME NEW l \in Loader, Ack(l) PROVE Inv'
  <2>1. \A k \in pending \ pending' : IsStored(k)
    BY <1>4 DEF Ack, Inv, InHand
  <2> QED BY <1>4, <2>1, ForgetKeepsInv DEF Ack
<1>5. ASSUME NEW l \in Loader, Fail(l) PROVE Inv'
  BY <1>5, ForgetKeepsInv DEF Fail
<1>6. CASE UNCHANGED vars
  BY <1>6 DEF vars, Inv, TypeOK, InHand, GroupFirst, AckedWereStored, IsStored, Entry
<1> QED
  BY <1>1, <1>2, <1>3, <1>4, <1>5, <1>6, CollectKeepsInv, ReadKeepsInv, LoadKeepsInv DEF Next

(* The pipeline's variables keep their types.                              *)
THEOREM PipelineTypes == Spec => []TypeOK
<1>1. Inv => TypeOK
  BY DEF Inv
<1> QED BY <1>1, InitInv, NextKeepsInv, PTL DEF Spec

(* "XACK only after the commit" is enough: no crash, failure, redelivery   *)
(* or trimming makes the loader acknowledge an entry that is not stored.   *)
THEOREM AcknowledgedIsStored == Spec => []AckedWereStored
<1>1. Inv => AckedWereStored
  BY DEF Inv
<1> QED BY <1>1, InitInv, NextKeepsInv, PTL DEF Spec
=============================================================================
