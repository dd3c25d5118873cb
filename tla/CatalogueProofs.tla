-------------------------- MODULE CatalogueProofs --------------------------
(***************************************************************************)
(* Proofs about the price list, for any catalogue, any files and any       *)
(* number of staff and orders: imports that overlap take effect one after  *)
(* the other and each as a whole, what the table holds is sane, and an     *)
(* order has the prices of the list.  And about one cart whose products    *)
(* change (CartPage): its positions hold, and it gets nothing that was     *)
(* archived before the request began.                                      *)
(***************************************************************************)
EXTENDS Catalogue, CartPage, FiniteSetTheorems, TLAPS

(* What an import has written: rows for some of the variants.              *)
Written == UNION {[vs -> Row] : vs \in SUBSET Variant}

Job == [file : Files \cup {NoFile}, next : Nat, new : Written]
Placement == [items : Seq(Variant), units : Seq(Nat), moved : SUBSET Variant]

JobOK(j) ==
  /\ j \in Job
  /\ j.next \in 1 .. Len(j.file) + 1
  /\ j.file = NoFile => DOMAIN j.new = {}
  /\ \A v \in DOMAIN j.new : SaneRow(j.new[v])
PlacementOK(p) == p \in Placement /\ Len(p.units) <= Len(p.items)

Typed ==
  /\ variant \in [Variant -> Row] /\ \A v \in Variant : SaneRow(variant[v])
  /\ archived \subseteq Variant
  /\ job \in [Staff -> Job] /\ \A s \in Staff : JobOK(job[s])
  /\ placing \in [Request -> Placement] /\ \A r \in Request : PlacementOK(placing[r])

LEMMA WrittenIs ==
  ASSUME NEW f
  PROVE  f \in Written <=> /\ DOMAIN f \subseteq Variant
                           /\ f = [v \in DOMAIN f |-> f[v]]
                           /\ \A v \in DOMAIN f : f[v] \in Row
BY DEF Written

LEMMA RestIsOK == JobOK(Rest) /\ Rest \in Job
<1>1. <<>> \in Written
  <2>1. DOMAIN <<>> = {} /\ <<>> = [v \in {} |-> <<>>[v]]
    OBVIOUS
  <2> QED  BY <2>1, WrittenIs
<1> QED  BY <1>1 DEF JobOK, Rest, Job, NoFile

LEMMA NoOrderIsOK == NoOrder \in Placement /\ PlacementOK(NoOrder)
BY DEF NoOrder, Placement, PlacementOK

LEMMA FileLines ==
  ASSUME NEW j, JobOK(j)
  PROVE  /\ Len(j.file) \in Nat /\ DOMAIN j.file = 1 .. Len(j.file) /\ j.next \in Nat
         /\ \A n \in DOMAIN j.file : /\ j.file[n].price \in Int \cup {Blank, Text}
                                     /\ j.file[n].sale  \in Int \cup {Blank, Text}
<1>1. j.file \in Files \cup {NoFile} /\ j.next \in Nat
  BY DEF JobOK, Job
<1>2. CASE j.file = NoFile
  BY <1>1, <1>2 DEF NoFile
<1>3. CASE j.file \in Files
  <2>1. j.file \in Seq(Range(j.file))
    BY <1>3, FileAssumption
  <2> QED  BY <1>1, <1>3, <2>1, FileAssumption
<1> QED  BY <1>1, <1>2, <1>3

(* A line that sets the prices of a sane row to something sane.            *)
LEMMA ChangedIsRow ==
  ASSUME NEW row \in Row, NEW line, line.price \in Int \cup {Blank, Text},
         line.sale \in Int \cup {Blank, Text}, ~Refused(line), SaneRow(Changed(row, line))
  PROVE  Changed(row, line) \in Row
<1>1. SetsPrice(line) => line.price \in Nat
  BY DEF SetsPrice, Refused
<1>2. Changed(row, line).sale \in Int
  BY DEF Changed, SetsSale, SaleOf, NoSale, Row
<1> QED  BY <1>1, <1>2 DEF Changed, Row, SaneRow

-----------------------------------------------------------------------------
(* Types.                                                                  *)
LEMMA JobTyped ==
  ASSUME Typed, NEW s \in Staff, NEW j, JobOK(j), job' = [job EXCEPT ![s] = j]
  PROVE  job' \in [Staff -> Job] /\ \A t \in Staff : JobOK(job'[t])
BY DEF Typed, JobOK

LEMMA PlacingTyped ==
  ASSUME Typed, NEW r \in Request, NEW p, PlacementOK(p), placing' = [placing EXCEPT ![r] = p]
  PROVE  placing' \in [Request -> Placement] /\ \A q \in Request : PlacementOK(placing'[q])
BY DEF Typed, PlacementOK

LEMMA PublishTyped ==
  ASSUME Typed, NEW prices, Publish(prices)
  PROVE  placing' \in [Request -> Placement] /\ \A r \in Request : PlacementOK(placing'[r])
<1>1. ASSUME NEW r \in Request PROVE placing'[r] \in Placement /\ PlacementOK(placing'[r])
  BY NoOrderIsOK DEF Publish, Typed, Placement, PlacementOK
<1> QED  BY <1>1 DEF Publish

LEMMA UnitIsNat == ASSUME Typed, NEW v \in Variant PROVE Unit(v) \in Nat
BY DEF Typed, Unit, Row

LEMMA MineIsRow ==
  ASSUME Typed, NEW s \in Staff, NEW v \in Variant
  PROVE  Mine(s, v) \in Row /\ SaneRow(Mine(s, v))
<1>1. JobOK(job[s]) /\ job[s].new \in Written
  BY DEF Typed, JobOK, Job
<1>2. \A w \in DOMAIN job[s].new : job[s].new[w] \in Row /\ SaneRow(job[s].new[w])
  BY <1>1, WrittenIs DEF JobOK
<1> QED  BY <1>2 DEF Mine, Typed

(* After a row: one line further, and the row among those written.         *)
NewRow(s) == Changed(Mine(s, Line(s).sku), Line(s))

LEMMA AfterRow ==
  ASSUME Typed, NEW s \in Staff, ImportRow(s)
  PROVE  /\ Line(s).sku \in Variant \ archived /\ Free(Line(s).sku, s)
         /\ Updates(Line(s), archived) /\ job[s].next \in DOMAIN job[s].file
         /\ NewRow(s) \in Row /\ SaneRow(NewRow(s))
         /\ JobOK(job'[s]) /\ job' = [job EXCEPT ![s] = job'[s]]
         /\ job'[s].file = job[s].file /\ job'[s].next = job[s].next + 1
         /\ DOMAIN job'[s].new = DOMAIN job[s].new \cup {Line(s).sku}
         /\ \A w \in DOMAIN job'[s].new :
              job'[s].new[w] = IF w = Line(s).sku THEN NewRow(s) ELSE job[s].new[w]
<1> DEFINE v == Line(s).sku
           new == [w \in DOMAIN job[s].new \cup {v} |-> IF w = v THEN NewRow(s) ELSE job[s].new[w]]
<1>1. /\ Busy(s) /\ job[s].next <= Len(job[s].file) /\ Updates(Line(s), archived)
      /\ Free(v, s) /\ SaneRow(NewRow(s))
      /\ job' = [job EXCEPT ![s].next = @ + 1, ![s].new = new]
  BY DEF ImportRow, Reading, NewRow
<1>2. job[s] \in Job /\ JobOK(job[s]) /\ job \in [Staff -> Job]
  BY DEF Typed
<1>3. v \in Variant \ archived /\ ~Refused(Line(s))
  BY <1>1 DEF Updates
<1>4. /\ Len(job[s].file) \in Nat /\ job[s].next \in DOMAIN job[s].file
      /\ Line(s).price \in Int \cup {Blank, Text} /\ Line(s).sale \in Int \cup {Blank, Text}
  <2>1. job[s].next \in DOMAIN job[s].file /\ Len(job[s].file) \in Nat
    BY <1>1, <1>2, FileLines DEF JobOK
  <2> QED  BY <1>2, <2>1, FileLines DEF Line
<1>5. NewRow(s) \in Row
  BY <1>1, <1>3, <1>4, MineIsRow, ChangedIsRow DEF NewRow
<1>6. job[s].new \in Written
  BY <1>2 DEF Job
<1>7. /\ DOMAIN new = DOMAIN job[s].new \cup {v}
      /\ \A w \in DOMAIN new : new[w] = IF w = v THEN NewRow(s) ELSE job[s].new[w]
  OBVIOUS
<1>8. new \in Written
  <2>1. DOMAIN new \subseteq Variant /\ \A w \in DOMAIN new : new[w] \in Row
    BY <1>3, <1>5, <1>6, <1>7, WrittenIs
  <2>2. new = [w \in DOMAIN new |-> new[w]]
    OBVIOUS
  <2> HIDE DEF new
  <2> QED  BY <2>1, <2>2, WrittenIs
<1>9. \A w \in DOMAIN new : SaneRow(new[w])
  BY <1>1, <1>2, <1>7 DEF JobOK
<1> HIDE DEF new
<1>10. job'[s] = [job[s] EXCEPT !.next = @ + 1, !.new = new] /\ job' = [job EXCEPT ![s] = job'[s]]
  BY <1>1, <1>2
<1>11. PICK k : k = job'[s]
  OBVIOUS
<1>12. k \in Job /\ k.file = job[s].file /\ k.next = job[s].next + 1 /\ k.new = new
  <2>1. PICK u \in Job : u = job[s]
    BY <1>2
  <2>2. PICK f \in Written : f = new
    BY <1>8
  <2>3. k = [u EXCEPT !.next = @ + 1, !.new = f]
    BY <1>10, <1>11, <2>1, <2>2
  <2>4. k.file = u.file /\ k.new = f
    BY <2>3 DEF Job
  <2>5. k.next = u.next + 1
    BY <2>3 DEF Job
  <2>6. k \in Job
    <3>1. u.next + 1 \in Nat
      BY DEF Job
    <3> QED  BY <2>3, <3>1 DEF Job
  <2> QED  BY <2>1, <2>2, <2>4, <2>5, <2>6
<1>13. JobOK(k)
  BY <1>1, <1>2, <1>4, <1>9, <1>12 DEF JobOK, Busy
<1> QED  BY <1>1, <1>3, <1>4, <1>5, <1>7, <1>10, <1>11, <1>12, <1>13

LEMMA NextTyped == Typed /\ [Next]_vars => Typed'
<1> SUFFICES ASSUME Typed, [Next]_vars PROVE Typed'
  OBVIOUS
<1>1. ASSUME NEW s \in Staff, ImportBegin(s) PROVE Typed'
  <2>1. PICK file \in Files : job' = [job EXCEPT ![s].file = file]
    BY <1>1 DEF ImportBegin
  <2> DEFINE j == [job[s] EXCEPT !.file = file]
  <2>2. JobOK(job[s]) /\ job[s] \in Job /\ job[s].file = NoFile /\ job \in [Staff -> Job]
    BY <1>1 DEF Typed, ImportBegin, Busy
  <2>3. j \in Job /\ j.file = file /\ j.next = job[s].next /\ j.new = job[s].new
        /\ job' = [job EXCEPT ![s] = j]
    BY <2>1, <2>2 DEF Job
  <2>4. Len(file) \in Nat
    BY FileAssumption
  <2>5. job[s].next = 1
    BY <2>2 DEF JobOK, NoFile
  <2> HIDE DEF j
  <2>6. JobOK(j)
    BY <2>2, <2>3, <2>4, <2>5 DEF JobOK
  <2> QED  BY <1>1, <2>3, <2>6, JobTyped DEF ImportBegin, Typed
<1>2. ASSUME NEW s \in Staff, ImportPass(s) PROVE Typed'
  <2> DEFINE j == [job[s] EXCEPT !.next = @ + 1]
  <2>1. JobOK(job[s]) /\ job[s] \in Job /\ job \in [Staff -> Job]
        /\ job[s].next <= Len(job[s].file) /\ Len(job[s].file) \in Nat
    BY <1>2, FileLines DEF Typed, ImportPass, Reading
  <2>2. j \in Job /\ j.file = job[s].file /\ j.next = job[s].next + 1 /\ j.new = job[s].new
        /\ job' = [job EXCEPT ![s] = j]
    BY <1>2, <2>1 DEF Job, ImportPass
  <2> HIDE DEF j
  <2>3. JobOK(j)
    BY <2>1, <2>2 DEF JobOK
  <2> QED  BY <1>2, <2>2, <2>3, JobTyped DEF ImportPass, Typed
<1>3. ASSUME NEW s \in Staff, ImportRow(s) PROVE Typed'
  <2>1. PICK j : j = job'[s]
    OBVIOUS
  <2>2. JobOK(j) /\ job' = [job EXCEPT ![s] = j]
    BY <1>3, <2>1, AfterRow
  <2> QED  BY <1>3, <2>2, JobTyped DEF ImportRow, Typed
<1>4. ASSUME NEW s \in Staff, ImportCommit(s) PROVE Typed'
  <2>1. job' \in [Staff -> Job] /\ \A t \in Staff : JobOK(job'[t])
    BY <1>4, RestIsOK, JobTyped DEF ImportCommit
  <2>2. variant' = [v \in Variant |-> Mine(s, v)]
    BY <1>4 DEF ImportCommit, Publish
  <2>3. variant' \in [Variant -> Row] /\ \A v \in Variant : SaneRow(variant'[v])
    BY <2>2, MineIsRow
  <2>4. placing' \in [Request -> Placement] /\ \A r \in Request : PlacementOK(placing'[r])
    BY <1>4, PublishTyped DEF ImportCommit
  <2> QED  BY <1>4, <2>1, <2>3, <2>4 DEF ImportCommit, Typed
<1>5. ASSUME NEW s \in Staff, ImportFails(s) PROVE Typed'
  BY <1>5, RestIsOK, JobTyped DEF ImportFails, Typed
<1>6. ASSUME NEW v \in Variant, UpdateVariant(v) PROVE Typed'
  <2>1. PICK row \in [price : 0 .. MaxPrice, sale : 0 .. MaxPrice] :
          SaneRow(row) /\ Publish([variant EXCEPT ![v] = row])
    BY <1>6 DEF UpdateVariant, Accepts
  <2>2. row \in Row
    BY CatalogueAssumption DEF Row
  <2>3. placing' \in [Request -> Placement] /\ \A r \in Request : PlacementOK(placing'[r])
    BY <2>1, PublishTyped
  <2> QED  BY <1>6, <2>1, <2>2, <2>3 DEF UpdateVariant, Publish, Typed
<1>7. ASSUME NEW vs \in Family, ArchiveProduct(vs) PROVE Typed'
  BY <1>7, CatalogueAssumption DEF ArchiveProduct, Typed
<1>8. ASSUME NEW r \in Request, PlaceBegin(r) PROVE Typed'
  <2>1. PICK vs \in (SUBSET Variant) \ {{}} : \E items \in SetToSeqs(vs) :
          placing' = [placing EXCEPT ![r].items = items]
    BY <1>8 DEF PlaceBegin
  <2>2. PICK items \in SetToSeqs(vs) : placing' = [placing EXCEPT ![r].items = items]
    BY <2>1
  <2>3. Cardinality(vs) \in Nat
    BY FinitenessAssumption, FS_Subset, FS_CardinalityType
  <2>4. items \in Seq(Variant)
    BY <2>3 DEF SetToSeqs
  <2> DEFINE p == [placing[r] EXCEPT !.items = items]
  <2>5. placing[r] = NoOrder /\ placing[r] \in Placement /\ placing \in [Request -> Placement]
    BY <1>8 DEF PlaceBegin, Typed
  <2>6. p \in Placement /\ p.units = <<>> /\ p.items = items /\ placing' = [placing EXCEPT ![r] = p]
    BY <2>2, <2>4, <2>5 DEF Placement, NoOrder
  <2> HIDE DEF p
  <2>7. PlacementOK(p)
    BY <2>4, <2>6 DEF PlacementOK
  <2> QED  BY <1>8, <2>6, <2>7, PlacingTyped DEF PlaceBegin, Typed
<1>9. ASSUME NEW r \in Request, PriceLine(r) PROVE Typed'
  <2> DEFINE n == Len(placing[r].units) + 1
             p == [placing[r] EXCEPT !.units = Append(@, Unit(placing[r].items[n]))]
  <2>1. placing[r] \in Placement /\ placing \in [Request -> Placement]
        /\ Len(placing[r].units) < Len(placing[r].items)
    BY <1>9 DEF PriceLine, Typed
  <2>2. n \in DOMAIN placing[r].items /\ placing[r].items[n] \in Variant
    BY <2>1 DEF Placement
  <2>3. Unit(placing[r].items[n]) \in Nat
    BY <2>2, UnitIsNat
  <2>4. /\ p \in Placement /\ p.items = placing[r].items /\ Len(p.units) = n
        /\ placing' = [placing EXCEPT ![r] = p]
    <3>1. placing' = [placing EXCEPT ![r].units = Append(@, Unit(placing[r].items[n]))]
      BY <1>9 DEF PriceLine
    <3>2. PICK u \in Nat : u = Unit(placing[r].items[n])
      BY <2>3
    <3>3. p = [placing[r] EXCEPT !.units = Append(@, u)]
      BY <3>2
    <3>4. placing[r].units \in Seq(Nat)
      BY <2>1 DEF Placement
    <3>5. Append(placing[r].units, u) \in Seq(Nat) /\ Len(Append(placing[r].units, u)) = n
      BY <3>4
    <3>6. p \in Placement /\ p.items = placing[r].items /\ p.units = Append(placing[r].units, u)
      BY <2>1, <3>3, <3>5 DEF Placement
    <3>7. placing' = [placing EXCEPT ![r] = p]
      BY <2>1, <3>1
    <3> QED  BY <3>5, <3>6, <3>7
  <2>5. PlacementOK(p)
    <3> HIDE DEF p
    <3> QED  BY <2>1, <2>4 DEF PlacementOK, Placement
  <2> QED  BY <1>9, <2>4, <2>5, PlacingTyped DEF PriceLine, Typed
<1>10. ASSUME NEW r \in Request, PlaceEnd(r) PROVE Typed'
  BY <1>10, NoOrderIsOK, PlacingTyped DEF PlaceEnd, Typed
<1>11. CASE UNCHANGED vars
  BY <1>11 DEF vars, Typed
<1> QED  BY <1>1, <1>2, <1>3, <1>4, <1>5, <1>6, <1>7, <1>8, <1>9, <1>10, <1>11 DEF Next

LEMMA InitTyped == Init => Typed
BY CatalogueAssumption, RestIsOK, NoOrderIsOK DEF Init, Typed

LEMMA AlwaysTyped == Spec => []Typed
BY InitTyped, NextTyped, PTL DEF Spec

(* The list and what an import is about to write obey the CHECKs of        *)
(* store.variants, and every variable keeps its type.                      *)
THEOREM CatalogueTyped == Spec => []TypeOK
<1>1. Typed => TypeOK
  <2> SUFFICES ASSUME Typed PROVE TypeOK
    OBVIOUS
  <2>1. ASSUME NEW s \in Staff
        PROVE  /\ job[s].file \in Files \cup {NoFile}
               /\ job[s].next \in 1 .. Len(job[s].file) + 1
               /\ DOMAIN job[s].new \subseteq Variant
               /\ \A v \in DOMAIN job[s].new : job[s].new[v] \in Row /\ SaneRow(job[s].new[v])
    <3>1. JobOK(job[s]) /\ job[s].new \in Written /\ job[s].file \in Files \cup {NoFile}
      BY DEF Typed, JobOK, Job
    <3> QED  BY <3>1, WrittenIs DEF JobOK
  <2>2. ASSUME NEW r \in Request
        PROVE  /\ Range(placing[r].items) \subseteq Variant
               /\ Len(placing[r].units) <= Len(placing[r].items)
               /\ placing[r].moved \subseteq Variant
    BY DEF Typed, PlacementOK, Placement, Range
  <2> QED  BY <2>1, <2>2 DEF Typed, TypeOK
<1> QED  BY <1>1, AlwaysTyped, PTL
-----------------------------------------------------------------------------
(* The prices of an order being placed.                                    *)

(* An order line keeps the price it has, or its variant's price moved.     *)
LEMMA OrderKept ==
  ASSUME Typed, OrderIsPriced, NEW prices, Publish(prices)
  PROVE  OrderIsPriced'
<1>1. ASSUME NEW r \in Request, NEW i \in DOMAIN placing'[r].units,
             placing'[r].items[i] \notin placing'[r].moved
      PROVE  (placing[r].units[i] = Unit(placing[r].items[i]))'
  <2>1. placing[r] \in Placement /\ Len(placing[r].units) <= Len(placing[r].items)
    BY DEF Typed, PlacementOK
  <2>2. placing[r] # NoOrder
    BY <1>1 DEF Publish, NoOrder
  <2>3. /\ placing'[r].units = placing[r].units /\ placing'[r].items = placing[r].items
        /\ placing'[r].moved = placing[r].moved \cup {v \in Variant : prices[v] # variant[v]}
    BY <2>1, <2>2 DEF Publish, Placement
  <2>4. PICK v \in Variant : v = placing[r].items[i]
    BY <1>1, <2>1, <2>3 DEF Placement
  <2>5. v \notin placing[r].moved /\ prices[v] = variant[v] /\ i \in DOMAIN placing[r].units
    BY <1>1, <2>3, <2>4
  <2>6. placing[r].units[i] = Unit(v)
    BY <2>4, <2>5 DEF OrderIsPriced
  <2>7. Unit(v)' = Unit(v)
    BY <2>5 DEF Publish, Unit
  <2>8. placing'[r].items[i] = v
    BY <2>3, <2>4
  <2> QED  BY <2>3, <2>6, <2>7, <2>8 DEF Unit
<1> QED  BY <1>1 DEF OrderIsPriced

(* One order moves on to p, at the same prices.                            *)
LEMMA OrderMovesOn ==
  ASSUME Typed, OrderIsPriced, NEW r \in Request, NEW p, UNCHANGED variant,
         placing' = [placing EXCEPT ![r] = p],
         \A i \in DOMAIN p.units : p.items[i] \notin p.moved => p.units[i] = Unit(p.items[i])
  PROVE  OrderIsPriced'
BY DEF Typed, OrderIsPriced, Unit

LEMMA NextOrder == Typed /\ OrderIsPriced /\ [Next]_vars => OrderIsPriced'
<1> SUFFICES ASSUME Typed, OrderIsPriced, [Next]_vars PROVE OrderIsPriced'
  OBVIOUS
<1>1. ASSUME UNCHANGED <<variant, placing>> PROVE OrderIsPriced'
  BY <1>1 DEF OrderIsPriced, Unit
<1>2. ASSUME NEW s \in Staff, ImportCommit(s) PROVE OrderIsPriced'
  BY <1>2, OrderKept DEF ImportCommit
<1>3. ASSUME NEW v \in Variant, UpdateVariant(v) PROVE OrderIsPriced'
  BY <1>3, OrderKept DEF UpdateVariant
<1>4. ASSUME NEW r \in Request, PlaceBegin(r) PROVE OrderIsPriced'
  <2>1. PICK items : placing' = [placing EXCEPT ![r].items = items]
    BY <1>4 DEF PlaceBegin
  <2>2. placing[r] = NoOrder /\ placing \in [Request -> Placement] /\ variant' = variant
    BY <1>4 DEF PlaceBegin, Typed
  <2>3. PICK p : p = [placing[r] EXCEPT !.items = items]
    OBVIOUS
  <2>4. p.units = <<>> /\ placing' = [placing EXCEPT ![r] = p]
    BY <2>1, <2>2, <2>3 DEF NoOrder
  <2>5. \A i \in DOMAIN p.units : p.items[i] \notin p.moved => p.units[i] = Unit(p.items[i])
    BY <2>4
  <2> QED  BY <2>2, <2>4, <2>5, OrderMovesOn
<1>5. ASSUME NEW r \in Request, PriceLine(r) PROVE OrderIsPriced'
  <2>1. placing[r] \in Placement /\ placing \in [Request -> Placement] /\ variant' = variant
    BY <1>5 DEF PriceLine, Typed
  <2>2. PICK us \in Seq(Nat) : us = placing[r].units
    BY <2>1 DEF Placement
  <2>3. Len(us) + 1 \in DOMAIN placing[r].items
    BY <1>5, <2>1, <2>2 DEF PriceLine, Placement
  <2>4. placing[r].items[Len(us) + 1] \in Variant
    BY <2>1, <2>3 DEF Placement
  <2>5. PICK u \in Nat : u = Unit(placing[r].items[Len(us) + 1])
    BY <2>4, UnitIsNat
  <2>6. PICK p : p = [placing[r] EXCEPT !.units = Append(us, u)]
    OBVIOUS
  <2>7. /\ p.units = Append(us, u) /\ p.items = placing[r].items /\ p.moved = placing[r].moved
        /\ placing' = [placing EXCEPT ![r] = p]
    BY <1>5, <2>1, <2>2, <2>5, <2>6 DEF PriceLine, Placement
  <2>8. ASSUME NEW i \in DOMAIN p.units, p.items[i] \notin p.moved
        PROVE  p.units[i] = Unit(p.items[i])
    <3>1. CASE i \in DOMAIN us
      <4>1. p.units[i] = placing[r].units[i]
        BY <2>2, <2>7, <3>1
      <4> QED  BY <2>2, <2>7, <2>8, <3>1, <4>1 DEF OrderIsPriced
    <3>2. CASE i = Len(us) + 1
      BY <2>5, <2>7, <3>2
    <3> QED  BY <2>7, <3>1, <3>2
  <2> QED  BY <2>1, <2>7, <2>8, OrderMovesOn
<1>6. ASSUME NEW r \in Request, PlaceEnd(r) PROVE OrderIsPriced'
  <2>1. PICK p : p = NoOrder
    OBVIOUS
  <2>2. \A i \in DOMAIN p.units : p.items[i] \notin p.moved => p.units[i] = Unit(p.items[i])
    BY <2>1 DEF NoOrder
  <2>3. placing' = [placing EXCEPT ![r] = p] /\ UNCHANGED variant
    BY <1>6, <2>1 DEF PlaceEnd
  <2> QED  BY <2>2, <2>3, OrderMovesOn
<1> QED  BY <1>1, <1>2, <1>3, <1>4, <1>5, <1>6
         DEF Next, vars, ImportBegin, ImportPass, ImportRow, ImportFails, ArchiveProduct

(* "Prices are re-derived from store.variants inside the transaction"      *)
(* (place_order): whatever imports, edits and archiving run between its    *)
(* statements, an order has the list's price for every variant whose price *)
(* did not change under it.                                                *)
THEOREM OrdersHaveListPrices == Spec => []OrderIsPriced
<1>1. Init => OrderIsPriced
  BY DEF Init, NoOrder, OrderIsPriced
<1> QED  BY <1>1, NextOrder, AlwaysTyped, PTL DEF Spec

-----------------------------------------------------------------------------
(* Imports take effect as a whole.                                         *)

(* No row is written by two imports.                                       *)
Locked == \A s, t \in Staff : s # t => DOMAIN job[s].new \cap DOMAIN job[t].new = {}

(* The lines an import has behind it that set a cell of v.                 *)
Behind(s, v) ==
  {n \in 1 .. job[s].next - 1 : job[s].file[n].sku = v /\ Updates(job[s].file[n], archived)}
Priced(s, v) == {n \in Behind(s, v) : SetsPrice(job[s].file[n])}
OnSale(s, v) == {n \in Behind(s, v) : SetsSale(job[s].file[n])}

(* A row is locked, and on sale, from the first line that writes it, and   *)
(* what is written is what the last lines ask for on the committed list.   *)
SoFar(s, v) ==
  IF v \in DOMAIN job[s].new
  THEN /\ v \notin archived
       /\ job[s].new[v].price = IF Priced(s, v) = {} THEN variant[v].price
                                ELSE job[s].file[Max(Priced(s, v))].price
       /\ job[s].new[v].sale = IF OnSale(s, v) = {} THEN variant[v].sale
                               ELSE SaleOf(job[s].file[Max(OnSale(s, v))])
  ELSE Behind(s, v) = {}

ImportsSoFar == \A s \in Staff, v \in Variant : SoFar(s, v)

ImportInv == Locked /\ ImportsSoFar

LEMMA MaxOfMore ==
  ASSUME NEW n \in Nat, NEW S, S \subseteq 1 .. n - 1
  PROVE  Max(S \cup {n}) = n
<1>1. n \in S \cup {n} /\ \A m \in S \cup {n} : n >= m
  OBVIOUS
<1>2. \A k \in S \cup {n} : (\A m \in S \cup {n} : k >= m) => k = n
  OBVIOUS
<1> QED  BY <1>1, <1>2 DEF Max

(* An import is not disturbed by a change to rows it has not written.      *)
LEMMA SoFarKept ==
  ASSUME NEW s, NEW v \in Variant, SoFar(s, v), job'[s] = job[s],
         archived \subseteq archived',
         v \in DOMAIN job[s].new => v \notin archived' /\ variant'[v] = variant[v]
  PROVE  SoFar(s, v)'
<1>1. CASE v \in DOMAIN job[s].new
  <2>1. Behind(s, v)' = Behind(s, v)
    BY <1>1 DEF SoFar, Behind, Updates
  <2>2. Priced(s, v)' = Priced(s, v) /\ OnSale(s, v)' = OnSale(s, v)
    BY <2>1 DEF Priced, OnSale
  <2> QED  BY <1>1, <2>2 DEF SoFar
<1>2. CASE v \notin DOMAIN job[s].new
  <2>1. Behind(s, v)' \subseteq Behind(s, v)
    BY DEF Behind, Updates
  <2> QED  BY <1>2, <2>1 DEF SoFar
<1> QED  BY <1>1, <1>2

(* The lines behind an import after one line more.                         *)
LEMMA OneLineMore ==
  ASSUME Typed, NEW s \in Staff, NEW v, job[s].next \in Nat \ {0}, UNCHANGED archived,
         job'[s].file = job[s].file, job'[s].next = job[s].next + 1
  PROVE  Behind(s, v)' = Behind(s, v) \cup
           (IF Line(s).sku = v /\ Updates(Line(s), archived) THEN {job[s].next} ELSE {})
BY DEF Behind, Line

LEMMA RowSoFar ==
  ASSUME Typed, ImportInv, NEW s \in Staff, ImportRow(s), NEW v \in Variant
  PROVE  SoFar(s, v)'
<1>1. /\ Line(s).sku \in Variant \ archived /\ Updates(Line(s), archived)
      /\ job'[s].file = job[s].file /\ job'[s].next = job[s].next + 1
      /\ DOMAIN job'[s].new = DOMAIN job[s].new \cup {Line(s).sku}
      /\ \A w \in DOMAIN job'[s].new :
           job'[s].new[w] = IF w = Line(s).sku THEN NewRow(s) ELSE job[s].new[w]
      /\ UNCHANGED <<variant, archived>>
  BY AfterRow DEF ImportRow
<1>2. job[s].next \in Nat \ {0} /\ SoFar(s, v)
  <2>1. JobOK(job[s])
    BY DEF Typed
  <2> QED  BY <2>1, FileLines DEF JobOK, ImportInv, ImportsSoFar
<1>3. Behind(s, v)' = Behind(s, v) \cup
           (IF Line(s).sku = v /\ Updates(Line(s), archived) THEN {job[s].next} ELSE {})
  BY <1>1, <1>2, OneLineMore
<1>4. CASE Line(s).sku # v
  <2>1. Behind(s, v)' = Behind(s, v)
    BY <1>3, <1>4
  <2>2. Priced(s, v)' = Priced(s, v) /\ OnSale(s, v)' = OnSale(s, v)
    BY <1>1, <2>1 DEF Priced, OnSale
  <2>3. v \in DOMAIN job'[s].new <=> v \in DOMAIN job[s].new
    BY <1>1, <1>4
  <2>4. v \in DOMAIN job[s].new => job'[s].new[v] = job[s].new[v]
    BY <1>1, <1>4
  <2> QED  BY <1>1, <1>2, <2>1, <2>2, <2>3, <2>4 DEF SoFar
<1>5. CASE Line(s).sku = v
  <2> DEFINE n == job[s].next
  <2>1. Behind(s, v)' = Behind(s, v) \cup {n}
    BY <1>1, <1>3, <1>5
  <2>2. Behind(s, v) \subseteq 1 .. n - 1
    BY DEF Behind
  <2>3. /\ Priced(s, v)' = IF SetsPrice(Line(s)) THEN Priced(s, v) \cup {n} ELSE Priced(s, v)
        /\ OnSale(s, v)' = IF SetsSale(Line(s)) THEN OnSale(s, v) \cup {n} ELSE OnSale(s, v)
    BY <1>1, <2>1 DEF Priced, OnSale, Line
  <2>4. Priced(s, v) \subseteq 1 .. n - 1 /\ OnSale(s, v) \subseteq 1 .. n - 1
    BY <2>2 DEF Priced, OnSale
  <2>5. v \in DOMAIN job'[s].new /\ v \notin archived' /\ job'[s].new[v] = NewRow(s)
    BY <1>1, <1>5
  <2>6. /\ NewRow(s).price = IF SetsPrice(Line(s)) THEN Line(s).price ELSE Mine(s, v).price
        /\ NewRow(s).sale = IF SetsSale(Line(s)) THEN SaleOf(Line(s)) ELSE Mine(s, v).sale
    BY <1>5 DEF NewRow, Changed
  <2>7. /\ Mine(s, v).price = IF Priced(s, v) = {} THEN variant[v].price
                              ELSE job[s].file[Max(Priced(s, v))].price
        /\ Mine(s, v).sale = IF OnSale(s, v) = {} THEN variant[v].sale
                             ELSE SaleOf(job[s].file[Max(OnSale(s, v))])
    BY <1>2 DEF SoFar, Mine, Priced, OnSale
  <2>8. NewRow(s).price = IF Priced(s, v)' = {} THEN variant'[v].price
                          ELSE job'[s].file[Max(Priced(s, v)')].price
    <3>1. CASE SetsPrice(Line(s))
      <4>1. Max(Priced(s, v)') = n
        BY <1>2, <2>3, <2>4, <3>1, MaxOfMore
      <4>2. job'[s].file[n] = Line(s) /\ Priced(s, v)' # {}
        BY <1>1, <2>3, <3>1 DEF Line
      <4> QED  BY <2>6, <3>1, <4>1, <4>2
    <3>2. CASE ~SetsPrice(Line(s))
      BY <1>1, <2>3, <2>6, <2>7, <3>2
    <3> QED  BY <3>1, <3>2
  <2>9. NewRow(s).sale = IF OnSale(s, v)' = {} THEN variant'[v].sale
                         ELSE SaleOf(job'[s].file[Max(OnSale(s, v)')])
    <3>1. CASE SetsSale(Line(s))
      <4>1. Max(OnSale(s, v)') = n
        BY <1>2, <2>3, <2>4, <3>1, MaxOfMore
      <4>2. job'[s].file[n] = Line(s) /\ OnSale(s, v)' # {}
        BY <1>1, <2>3, <3>1 DEF Line
      <4> QED  BY <2>6, <3>1, <4>1, <4>2
    <3>2. CASE ~SetsSale(Line(s))
      BY <1>1, <2>3, <2>6, <2>7, <3>2
    <3> QED  BY <3>1, <3>2
  <2> QED  BY <2>5, <2>8, <2>9 DEF SoFar
<1> QED  BY <1>4, <1>5

(* An import that has just begun, or is over, has written nothing.         *)
LEMMA NothingSoFar ==
  ASSUME NEW s, NEW v \in Variant, job'[s].next = 1, DOMAIN job'[s].new = {}
  PROVE  SoFar(s, v)'
BY DEF SoFar, Behind

(* A step of one import, at the end of which it has written nothing or as  *)
(* much as before, leaves the others alone.                                *)
LEMMA OneImport ==
  ASSUME Typed, ImportInv, NEW s \in Staff, UNCHANGED archived,
         \A t \in Staff \ {s} : job'[t] = job[t],
         \A v \in Variant : v \notin DOMAIN job[s].new => variant'[v] = variant[v],
         \A t \in Staff \ {s} : DOMAIN job'[s].new \cap DOMAIN job[t].new = {},
         \A v \in Variant : SoFar(s, v)'
  PROVE  ImportInv'
<1>1. Locked'
  <2>1. ASSUME NEW t \in Staff, NEW u \in Staff, t # u
        PROVE  DOMAIN job'[t].new \cap DOMAIN job'[u].new = {}
    BY <2>1 DEF ImportInv, Locked
  <2> QED  BY <2>1 DEF Locked
<1>2. ASSUME NEW t \in Staff, NEW v \in Variant PROVE SoFar(t, v)'
  <2>1. CASE t # s
    <3>1. SoFar(t, v) /\ job'[t] = job[t]
      BY <2>1 DEF ImportInv, ImportsSoFar
    <3>2. v \in DOMAIN job[t].new => v \notin archived' /\ variant'[v] = variant[v]
      BY <2>1, <3>1 DEF ImportInv, Locked, SoFar
    <3> QED  BY <3>1, <3>2, SoFarKept
  <2> QED  BY <2>1
<1> QED  BY <1>1, <1>2 DEF ImportInv, ImportsSoFar

(* A step of no import, which leaves the rows written as they are.         *)
LEMMA NoImport ==
  ASSUME ImportInv, UNCHANGED job, archived \subseteq archived',
         \A s \in Staff : \A v \in DOMAIN job[s].new :
           v \in archived' => v \in archived,
         \A s \in Staff : \A v \in DOMAIN job[s].new : variant'[v] = variant[v]
  PROVE  ImportInv'
<1>1. Locked'
  BY DEF ImportInv, Locked
<1>2. ASSUME NEW t \in Staff, NEW v \in Variant PROVE SoFar(t, v)'
  <2>1. SoFar(t, v)
    BY DEF ImportInv, ImportsSoFar
  <2>2. v \in DOMAIN job[t].new => v \notin archived' /\ variant'[v] = variant[v]
    BY <2>1 DEF SoFar
  <2> QED  BY <2>1, <2>2, SoFarKept
<1> QED  BY <1>1, <1>2 DEF ImportInv, ImportsSoFar

LEMMA CommitWrites ==
  ASSUME Typed, NEW s \in Staff, ImportCommit(s)
  PROVE  variant' = [v \in Variant |-> Mine(s, v)]
BY DEF ImportCommit, Publish

LEMMA NextImport == Typed /\ ImportInv /\ [Next]_vars => ImportInv'
<1> SUFFICES ASSUME Typed, ImportInv, [Next]_vars PROVE ImportInv'
  OBVIOUS
<1>0. job \in [Staff -> Job] /\ variant \in [Variant -> Row] /\ DOMAIN Rest.new = {} /\ Rest.next = 1
  BY DEF Typed, Rest
<1>1. ASSUME NEW s \in Staff, ImportBegin(s) PROVE ImportInv'
  <2>1. PICK file : job' = [job EXCEPT ![s].file = file]
    BY <1>1 DEF ImportBegin
  <2>2. JobOK(job[s]) /\ job[s] \in Job /\ job[s].file = NoFile
    BY <1>1 DEF ImportBegin, Busy, Typed
  <2>3. job[s].next = 1 /\ DOMAIN job[s].new = {}
    BY <2>2 DEF JobOK, NoFile
  <2>4. job'[s].next = 1 /\ DOMAIN job'[s].new = {} /\ \A t \in Staff \ {s} : job'[t] = job[t]
    BY <1>0, <2>1, <2>2, <2>3 DEF Job
  <2>5. \A v \in Variant : SoFar(s, v)'
    BY <2>4, NothingSoFar
  <2> QED  BY <1>1, <2>4, <2>5, OneImport DEF ImportBegin
<1>2. ASSUME NEW s \in Staff, ImportPass(s) PROVE ImportInv'
  <2>1. job[s] \in Job /\ job[s].next \in Nat \ {0}
    <3>1. JobOK(job[s]) /\ job[s] \in Job
      BY DEF Typed
    <3> QED  BY <3>1, FileLines DEF JobOK
  <2>2. job'[s] = [job[s] EXCEPT !.next = @ + 1] /\ \A t \in Staff \ {s} : job'[t] = job[t]
    BY <1>0, <1>2 DEF ImportPass
  <2>3. job'[s].file = job[s].file /\ job'[s].next = job[s].next + 1 /\ job'[s].new = job[s].new
    BY <2>1, <2>2 DEF Job
  <2>4. ASSUME NEW v \in Variant PROVE SoFar(s, v)'
    <3>1. Behind(s, v)' = Behind(s, v)
      BY <1>2, <2>1, <2>3, OneLineMore DEF ImportPass
    <3>2. Priced(s, v)' = Priced(s, v) /\ OnSale(s, v)' = OnSale(s, v)
      BY <2>3, <3>1 DEF Priced, OnSale
    <3>3. SoFar(s, v) /\ UNCHANGED <<variant, archived>>
      BY <1>2 DEF ImportInv, ImportsSoFar, ImportPass
    <3> QED  BY <2>3, <3>1, <3>2, <3>3 DEF SoFar
  <2>5. \A t \in Staff \ {s} : DOMAIN job'[s].new \cap DOMAIN job[t].new = {}
    BY <2>3 DEF ImportInv, Locked
  <2> QED  BY <1>2, <2>2, <2>4, <2>5, OneImport DEF ImportPass
<1>3. ASSUME NEW s \in Staff, ImportRow(s) PROVE ImportInv'
  <2>1. \A v \in Variant : SoFar(s, v)'
    BY <1>3, RowSoFar
  <2>2. /\ Free(Line(s).sku, s) /\ \A t \in Staff \ {s} : job'[t] = job[t]
        /\ DOMAIN job'[s].new = DOMAIN job[s].new \cup {Line(s).sku}
    BY <1>0, <1>3, AfterRow
  <2>3. \A t \in Staff \ {s} : DOMAIN job'[s].new \cap DOMAIN job[t].new = {}
    BY <2>2 DEF ImportInv, Locked, Free
  <2> QED  BY <1>3, <2>1, <2>2, <2>3, OneImport DEF ImportRow
<1>4. ASSUME NEW s \in Staff, ImportCommit(s) \/ ImportFails(s) PROVE ImportInv'
  <2>1. job'[s] = Rest /\ \A t \in Staff \ {s} : job'[t] = job[t]
    BY <1>0, <1>4 DEF ImportCommit, ImportFails
  <2>2. job'[s].next = 1 /\ DOMAIN job'[s].new = {}
    BY <1>0, <2>1
  <2>3. \A v \in Variant : SoFar(s, v)'
    BY <2>2, NothingSoFar
  <2>4. \A v \in Variant : v \notin DOMAIN job[s].new => variant'[v] = variant[v]
    <3>1. CASE ImportCommit(s)
      BY <3>1, CommitWrites DEF Mine
    <3>2. CASE ImportFails(s)
      BY <3>2 DEF ImportFails
    <3> QED  BY <1>4, <3>1, <3>2
  <2>5. UNCHANGED archived
    BY <1>4 DEF ImportCommit, ImportFails
  <2> QED  BY <2>1, <2>2, <2>3, <2>4, <2>5, OneImport
<1>5. ASSUME NEW v \in Variant, UpdateVariant(v) PROVE ImportInv'
  <2>1. PICK row : variant' = [variant EXCEPT ![v] = row]
    BY <1>5 DEF UpdateVariant, Publish
  <2>2. \A s \in Staff : \A w \in DOMAIN job[s].new : variant'[w] = variant[w]
    BY <1>0, <1>5, <2>1 DEF UpdateVariant
  <2> QED  BY <1>5, <2>2, NoImport DEF UpdateVariant
<1>6. ASSUME NEW vs \in Family, ArchiveProduct(vs) PROVE ImportInv'
  BY <1>6, NoImport DEF ArchiveProduct
<1>7. CASE UNCHANGED <<variant, archived, job>>
  BY <1>7, NoImport
<1> QED  BY <1>1, <1>2, <1>3, <1>4, <1>5, <1>6, <1>7
         DEF Next, vars, PlaceBegin, PriceLine, PlaceEnd

LEMMA InitImport == Init => ImportInv
<1> SUFFICES ASSUME Init PROVE ImportInv
  OBVIOUS
<1>1. \A s \in Staff : job[s].next = 1 /\ DOMAIN job[s].new = {}
  BY DEF Init, Rest
<1> QED  BY <1>1 DEF ImportInv, Locked, ImportsSoFar, SoFar, Behind

(* A commit changes the list as the whole file does.                       *)
LEMMA CommitIsWhole ==
  ASSUME Typed, ImportInv, NEW s \in Staff, ImportCommit(s)
  PROVE  job[s].file \in Files /\ Prices!ImportWhole(job[s].file)
<1>1. JobOK(job[s]) /\ job[s].file \in Files
  BY DEF Typed, JobOK, Job, ImportCommit, Busy
<1>2. 1 .. job[s].next - 1 = DOMAIN job[s].file
  <2>1. ~(job[s].next <= Len(job[s].file)) /\ job[s].next \in 1 .. Len(job[s].file) + 1
    BY <1>1 DEF ImportCommit, Reading, JobOK
  <2> QED  BY <1>1, <2>1, FileLines
<1>3. ASSUME NEW v \in Variant PROVE Mine(s, v) = Prices!After(job[s].file, v)
  <2>1. /\ Prices!PriceLines(job[s].file, v) = Priced(s, v)
        /\ Prices!SaleLines(job[s].file, v) = OnSale(s, v)
    BY <1>2 DEF Prices!PriceLines, Prices!SaleLines, Prices!Updates, Prices!SetsPrice,
                Prices!SetsSale, Prices!Refused, Prices!SetsNothing, Priced, OnSale, Behind,
                Updates, SetsPrice, SetsSale, Refused, SetsNothing
  <2>2. SoFar(s, v) /\ Mine(s, v) \in Row
    BY MineIsRow DEF ImportInv, ImportsSoFar
  <2>3. /\ Mine(s, v).price = IF Priced(s, v) = {} THEN variant[v].price
                              ELSE job[s].file[Max(Priced(s, v))].price
        /\ Mine(s, v).sale = IF OnSale(s, v) = {} THEN variant[v].sale
                             ELSE SaleOf(job[s].file[Max(OnSale(s, v))])
    BY <2>2 DEF SoFar, Mine, Priced, OnSale
  <2>4. Mine(s, v) = [price |-> Mine(s, v).price, sale |-> Mine(s, v).sale]
    BY <2>2 DEF Row
  <2> QED  BY <2>1, <2>3, <2>4
           DEF Prices!After, Prices!SaleOf, Prices!NoSale, SaleOf, NoSale, Prices!Max, Max
<1>4. variant' = [v \in Variant |-> Prices!After(job[s].file, v)]
  BY <1>3, CommitWrites
<1> QED  BY <1>1, <1>4 DEF Prices!ImportWhole, ImportCommit

LEMMA NextIsPrices == Typed /\ ImportInv /\ [Next]_vars => [Prices!Next]_(Prices!pvars)
<1> SUFFICES ASSUME Typed, ImportInv, [Next]_vars
             PROVE  Prices!Next \/ UNCHANGED <<variant, archived>>
  BY DEF Prices!pvars
<1>1. ASSUME NEW s \in Staff, ImportCommit(s) PROVE Prices!Next
  BY <1>1, CommitIsWhole DEF Prices!Next
<1>2. ASSUME NEW v \in Variant, UpdateVariant(v) PROVE Prices!Next
  <2>1. Prices!EditOne(v)
    BY <1>2 DEF UpdateVariant, Publish, Accepts, SaneRow, Prices!EditOne, Prices!SaneRow
  <2> QED  BY <2>1 DEF Prices!Next
<1>3. ASSUME NEW vs \in Family, ArchiveProduct(vs) PROVE Prices!Next
  <2>1. vs \in SUBSET Variant /\ Prices!Archive(vs)
    BY <1>3, CatalogueAssumption DEF ArchiveProduct, Prices!Archive
  <2> QED  BY <2>1 DEF Prices!Next
<1> QED  BY <1>1, <1>2, <1>3
         DEF Next, vars, ImportBegin, ImportPass, ImportRow, ImportFails,
             PlaceBegin, PriceLine, PlaceEnd

(* "A silent no-op on a typo'd SKU is how a price change goes out          *)
(* half-applied" (bulk_update_variants): imports that overlap each other,  *)
(* single edits and archiving change the list as if they had run one after *)
(* the other, each file as a whole or not at all.                          *)
THEOREM ImportsAreWhole == Spec => PricesChangeAtOnce
<1>1. Init => Prices!Init
  BY DEF Init, Prices!Init
<1>2. Spec => []ImportInv
  BY InitImport, NextImport, AlwaysTyped, PTL DEF Spec
<1>3. Spec => Prices!ListSpec
  BY <1>1, <1>2, NextIsPrices, AlwaysTyped, PTL DEF Spec, Prices!ListSpec
<1> QED  BY <1>3 DEF PricesChangeAtOnce
-----------------------------------------------------------------------------
(* A cart, its page and the products that change under it: CartPage.       *)
CartLine == [id : 1 .. MaxId, product : Product]
Shown == [position : Nat, product : Product]
RequestState == [pc : {"idle", "listed", "found", "inserted", "cart"},
                 product : Product \cup {Nothing}, id : 0 .. MaxId,
                 seen : SUBSET Product, live : BOOLEAN]

CartTyped ==
  /\ active \subseteq Product /\ archivedProducts \subseteq Product
  /\ lines \subseteq CartLine /\ IsFiniteSet(lines)
  /\ drawn \in 0 .. MaxId
  /\ page \in [shown : SUBSET Shown, fresh : BOOLEAN]
  /\ req \in [CartRequest -> RequestState]

Adding == {r \in CartRequest : req[r].pc = "inserted"}

(* An id is drawn once, by one insert; at most one line or insert is there *)
(* for a product.                                                          *)
IdsAreDrawn ==
  /\ \A l \in lines : l.id <= drawn
  /\ \A r \in Adding : req[r].id \in 1 .. drawn
OneOfEach ==
  /\ \A l, m \in lines : l.product = m.product => l = m
  /\ \A r \in Adding, l \in lines : req[r].product # l.product
  /\ \A r, q \in Adding : req[r].product = req[q].product => r = q

(* A request that adds a line names its product.                           *)
AddsSomething ==
  \A r \in CartRequest :
    req[r].pc \in {"listed", "found", "inserted"} => req[r].product \in Product

(* What is under way will come after everything the page shows.            *)
ComesAfter ==
  page.fresh => \A e \in page.shown, l \in lines, r \in Adding :
    l.product = e.product => l.id < req[r].id

(* A request that began after its product was archived still will find it  *)
(* archived.                                                               *)
ArchivedForGood ==
  \A r \in CartRequest :
    req[r].pc = "listed" /\ ~req[r].live => req[r].product \in archivedProducts

CartInv ==
  /\ CartTyped /\ IdsAreDrawn /\ OneOfEach /\ AddsSomething /\ ComesAfter
  /\ ArchivedForGood /\ PositionsHold /\ AddSeesArchive

(* The order of the lines that precede l decides its position.             *)
LEMMA SamePosition ==
  ASSUME NEW ls, NEW ms, NEW l, {m \in ls : m.id <= l.id} = {m \in ms : m.id <= l.id}
  PROVE  Position(ls, l) = Position(ms, l)
BY DEF Position

LEMMA PositionIsNat ==
  ASSUME NEW ls, IsFiniteSet(ls), NEW l
  PROVE  Position(ls, l) \in Nat
<1>1. IsFiniteSet({m \in ls : m.id <= l.id})
  BY FS_Subset
<1>2. Cardinality({m \in ls : m.id <= l.id}) \in Nat
  BY <1>1, FS_CardinalityType
<1> QED  BY <1>2 DEF Position

LEMMA IdleRequest ==
  Idle \in RequestState /\ Idle.pc = "idle"
BY CartPageAssumption DEF Idle, Nothing, RequestState

(* A request moves on to t, in the same cart and in front of the same page *)
(* and catalogue, without an insert.                                       *)
LEMMA CartMovesOn ==
  ASSUME CartInv, NEW r \in CartRequest, NEW t \in RequestState, req' = [req EXCEPT ![r] = t],
         t.pc # "inserted",
         t.pc \in {"listed", "found"} => t.product \in Product,
         t.pc = "listed" /\ ~t.live => t.product \in archivedProducts,
         t.pc = "found" => t.live,
         UNCHANGED <<active, archivedProducts, lines, drawn, page>>
  PROVE  CartInv'
<1>1. Adding' \subseteq Adding /\ \A q \in Adding' : req'[q] = req[q]
  BY DEF CartInv, CartTyped, Adding
<1>2. CartTyped'
  BY DEF CartInv, CartTyped
<1>3. IdsAreDrawn' /\ OneOfEach' /\ ComesAfter'
  BY <1>1 DEF CartInv, IdsAreDrawn, OneOfEach, ComesAfter
<1>4. AddsSomething' /\ ArchivedForGood' /\ AddSeesArchive'
  BY DEF CartInv, CartTyped, AddsSomething, ArchivedForGood, AddSeesArchive
<1>5. PositionsHold'
  BY DEF CartInv, PositionsHold, Position
<1> QED  BY <1>2, <1>3, <1>4, <1>5 DEF CartInv

(* The catalogue changes, and archives nothing less.                       *)
LEMMA CatalogueMovesOn ==
  ASSUME CartInv, active' \subseteq Product, archivedProducts' \subseteq Product,
         archivedProducts \subseteq archivedProducts', UNCHANGED <<lines, drawn, page, req>>
  PROVE  CartInv'
<1>1. CartTyped' /\ IdsAreDrawn' /\ OneOfEach' /\ ComesAfter' /\ AddsSomething'
  BY DEF CartInv, CartTyped, Adding, IdsAreDrawn, OneOfEach, ComesAfter, AddsSomething
<1>2. ArchivedForGood' /\ AddSeesArchive'
  BY DEF CartInv, ArchivedForGood, AddSeesArchive
<1>3. PositionsHold'
  BY DEF CartInv, PositionsHold, Position
<1> QED  BY <1>1, <1>2, <1>3 DEF CartInv

(* Lines go, and with them what the page tells.                            *)
LEMMA CartShrinks ==
  ASSUME CartInv, lines' \subseteq lines, page' = [page EXCEPT !.fresh = FALSE],
         UNCHANGED <<active, archivedProducts, drawn, req>>
  PROVE  CartInv'
<1>1. page' \in [shown : SUBSET Shown, fresh : BOOLEAN] /\ page'.fresh = FALSE
  BY DEF CartInv, CartTyped
<1>2. IsFiniteSet(lines')
  BY FS_Subset DEF CartInv, CartTyped
<1>3. CartTyped'
  BY <1>1, <1>2 DEF CartInv, CartTyped
<1>4. IdsAreDrawn' /\ OneOfEach' /\ AddsSomething' /\ ArchivedForGood' /\ AddSeesArchive'
  BY DEF CartInv, IdsAreDrawn, OneOfEach, Adding, AddsSomething, ArchivedForGood,
         AddSeesArchive
<1>5. ComesAfter' /\ PositionsHold'
  BY <1>1 DEF ComesAfter, PositionsHold
<1> QED  BY <1>3, <1>4, <1>5 DEF CartInv

(* An insert draws its id: the last one, after every line of the page.     *)
LEMMA InsertDraws ==
  ASSUME CartInv, NEW r \in CartRequest, AddInsert(r)
  PROVE  CartInv'
<1>1. /\ req[r].pc = "found" /\ ~HasLine(req[r].product) /\ ~Inserting(req[r].product)
      /\ drawn < MaxId /\ drawn' = drawn + 1
      /\ req' = [req EXCEPT ![r].pc = "inserted", ![r].id = drawn + 1]
      /\ UNCHANGED <<active, archivedProducts, lines, page>>
  BY DEF AddInsert, shop
<1>2. drawn \in Nat /\ drawn + 1 \in 1 .. MaxId /\ req[r] \in RequestState
      /\ req \in [CartRequest -> RequestState] /\ req[r].product \in Product /\ req[r].live
  BY <1>1, CartPageAssumption DEF CartInv, CartTyped, AddsSomething, AddSeesArchive
<1>3. PICK id \in 1 .. MaxId : id = drawn + 1
  BY <1>2
<1>4. PICK t : t = [req[r] EXCEPT !.pc = "inserted", !.id = id]
  OBVIOUS
<1>5. /\ t \in RequestState /\ t.pc = "inserted" /\ t.id = id
      /\ t.product = req[r].product /\ t.live = req[r].live
  <2>1. id \in 0 .. MaxId /\ id \in 1 .. MaxId
    BY <1>3, CartPageAssumption
  <2>2. t \in RequestState
    BY <1>2, <1>4, <2>1 DEF RequestState
  <2>3. t.pc = "inserted" /\ t.id = id
    BY <1>2, <1>4 DEF RequestState
  <2>4. t.product = req[r].product /\ t.live = req[r].live
    BY <1>2, <1>4 DEF RequestState
  <2> QED  BY <2>2, <2>3, <2>4
<1>6. req'[r] = t /\ \A q \in CartRequest \ {r} : req'[q] = req[q]
  BY <1>1, <1>2, <1>3, <1>4
<1>7. Adding' = Adding \cup {r}
  BY <1>5, <1>6 DEF Adding
<1>8. CartTyped'
  <2>1. req' \in [CartRequest -> RequestState]
    BY <1>1, <1>2, <1>5, <1>6
  <2> QED  BY <1>1, <1>2, <2>1 DEF CartInv, CartTyped
<1>9. IdsAreDrawn'
  <2>1. \A l \in lines : l.id \in Int /\ l.id <= drawn
    BY DEF CartInv, CartTyped, CartLine, IdsAreDrawn
  <2>2. \A q \in Adding : req[q].id \in 1 .. drawn
    BY DEF CartInv, IdsAreDrawn
  <2> QED  BY <1>1, <1>2, <1>3, <1>5, <1>6, <1>7, <2>1, <2>2 DEF IdsAreDrawn, Adding
<1>10. OneOfEach'
  <2>1. \A l \in lines : l.product # t.product
    BY <1>1, <1>5 DEF HasLine
  <2>2. \A q \in Adding : req[q].product # t.product
    BY <1>1, <1>5 DEF Inserting, Adding
  <2>3. r \notin Adding
    BY <1>1 DEF Adding
  <2>4. \A q \in Adding : req'[q] = req[q]
    BY <1>6, <2>3 DEF Adding
  <2>5. OneOfEach
    BY DEF CartInv
  <2>6. lines' = lines /\ req'[r] = t
    BY <1>1, <1>6
  <2>7. \A q \in Adding', l \in lines : req'[q].product # l.product
    BY <1>7, <2>1, <2>4, <2>5, <2>6 DEF OneOfEach
  <2>8. ASSUME NEW p \in Adding', NEW q \in Adding', req'[p].product = req'[q].product
        PROVE  p = q
    <3>1. CASE p \in Adding /\ q \in Adding
      BY <2>4, <2>5, <2>8, <3>1 DEF OneOfEach
    <3>2. CASE p = r \/ q = r
      BY <1>7, <2>2, <2>4, <2>6, <2>8, <3>2
    <3> QED  BY <1>7, <3>1, <3>2
  <2> QED  BY <2>5, <2>6, <2>7, <2>8 DEF OneOfEach
<1>11. AddsSomething' /\ ArchivedForGood' /\ AddSeesArchive'
  BY <1>1, <1>2, <1>5, <1>6 DEF CartInv, AddsSomething, ArchivedForGood, AddSeesArchive
<1>12. ComesAfter'
  <2>1. \A l \in lines : l.id < id
    BY <1>2, <1>3 DEF CartInv, CartTyped, CartLine, IdsAreDrawn
  <2>2. ComesAfter /\ r \notin Adding /\ \A q \in Adding : q \in CartRequest
    BY <1>1 DEF CartInv, Adding
  <2>3. \A q \in Adding : req'[q].id = req[q].id
    BY <1>6, <2>2
  <2>4. page' = page /\ lines' = lines /\ req'[r].id = id
    BY <1>1, <1>5, <1>6
  <2>5. ASSUME page.fresh, NEW e \in page.shown, NEW l \in lines, NEW q \in Adding',
               l.product = e.product
        PROVE  l.id < req'[q].id
    BY <1>7, <2>1, <2>2, <2>3, <2>4, <2>5 DEF ComesAfter
  <2> QED  BY <2>4, <2>5 DEF ComesAfter
<1>13. PositionsHold'
  BY <1>1 DEF CartInv, PositionsHold, Position
<1> QED  BY <1>8, <1>9, <1>10, <1>11, <1>12, <1>13 DEF CartInv

(* A line comes: after those the page shows, whose positions stay.         *)
LEMMA LineComes ==
  ASSUME CartInv, NEW r \in CartRequest, AddCommit(r)
  PROVE  CartInv'
<1>1. PICK new : new = [id |-> req[r].id, product |-> req[r].product]
  OBVIOUS
<1>2. /\ req[r].pc = "inserted" /\ lines' = lines \cup {new}
      /\ req' = [req EXCEPT ![r] = Idle]
      /\ UNCHANGED <<active, archivedProducts, drawn, page>>
  BY <1>1 DEF AddCommit, shop
<1>3. r \in Adding /\ req[r].product \in Product /\ req[r].id \in 1 .. drawn
  BY <1>2 DEF Adding, CartInv, AddsSomething, IdsAreDrawn
<1>4. drawn \in 0 .. MaxId /\ req \in [CartRequest -> RequestState]
      /\ lines \subseteq CartLine /\ IsFiniteSet(lines)
  BY DEF CartInv, CartTyped
<1>5. new \in CartLine /\ new.id = req[r].id /\ new.product = req[r].product
  BY <1>1, <1>3, <1>4, CartPageAssumption DEF CartLine
<1>6. Adding' = Adding \ {r} /\ \A q \in CartRequest \ {r} : req'[q] = req[q]
  BY <1>2, <1>4, IdleRequest DEF Adding
<1>7. req'[r] = Idle /\ Idle.pc = "idle" /\ Idle \in RequestState
  BY <1>2, <1>4, IdleRequest
<1>8. CartTyped'
  <2>1. IsFiniteSet(lines')
    BY <1>2, <1>4, FS_AddElement
  <2>2. req' \in [CartRequest -> RequestState]
    BY <1>2, <1>4, <1>7
  <2> QED  BY <1>2, <1>4, <1>5, <2>1, <2>2 DEF CartInv, CartTyped
<1>9. IdsAreDrawn'
  BY <1>2, <1>3, <1>5, <1>6 DEF CartInv, IdsAreDrawn, Adding
<1>10. OneOfEach'
  BY <1>2, <1>3, <1>5, <1>6 DEF CartInv, OneOfEach, Adding
<1>11. AddsSomething' /\ ArchivedForGood' /\ AddSeesArchive'
  BY <1>2, <1>6, <1>7 DEF CartInv, AddsSomething, ArchivedForGood, AddSeesArchive
<1>12. ASSUME page.fresh, NEW e \in page.shown
       PROVE  \E l \in lines : /\ l.product = e.product /\ l.id < new.id
                               /\ Position(lines, l) = e.position
                               /\ Position(lines', l) = e.position
  <2>1. PICK l \in lines : l.product = e.product /\ Position(lines, l) = e.position
    BY <1>12 DEF CartInv, PositionsHold
  <2>2. l.id < new.id
    BY <1>3, <1>5, <1>12, <2>1 DEF CartInv, ComesAfter
  <2>3. l.id \in Int /\ new.id \in Int
    BY <1>4, <1>5 DEF CartLine
  <2>4. {m \in lines' : m.id <= l.id} = {m \in lines : m.id <= l.id}
    BY <1>2, <2>2, <2>3
  <2>5. Position(lines', l) = Position(lines, l)
    BY <2>4, SamePosition
  <2> QED  BY <2>1, <2>2, <2>5
<1>13. ComesAfter'
  <2>1. ASSUME page.fresh, NEW e \in page.shown, NEW l \in lines', NEW q \in Adding \ {r},
               l.product = e.product
        PROVE  l.id < req[q].id
    <3>1. l # new
      BY <1>3, <1>5, <1>12, <2>1 DEF CartInv, OneOfEach
    <3> QED  BY <1>2, <2>1, <3>1 DEF CartInv, ComesAfter
  <2> QED  BY <1>2, <1>6, <2>1 DEF ComesAfter, Adding
<1>14. PositionsHold'
  <2>1. ASSUME page'.fresh, NEW e \in page'.shown
        PROVE  \E l \in lines' : l.product = e.product /\ Position(lines', l) = e.position
    BY <1>2, <1>12, <2>1
  <2> QED  BY <2>1 DEF PositionsHold, Position
<1> QED  BY <1>8, <1>9, <1>10, <1>11, <1>13, <1>14 DEF CartInv

(* The page shows every line, and no insert is under way, or it is stale.  *)
LEMMA PageIsMade ==
  ASSUME CartInv, NEW r \in CartRequest, CartRender(r)
  PROVE  CartInv'
<1>1. PICK hydrated : hydrated = {l \in lines : l.product \in req[r].seen}
  OBVIOUS
<1>2. /\ req[r].pc = "cart" /\ req' = [req EXCEPT ![r] = Idle]
      /\ page' = [shown |-> {[position |-> Position(hydrated, l), product |-> l.product] :
                               l \in hydrated},
                  fresh |-> hydrated = lines /\ \A q \in CartRequest : req[q].pc # "inserted"]
      /\ UNCHANGED <<active, archivedProducts, lines, drawn>>
  BY <1>1 DEF CartRender, shop
<1>3. IsFiniteSet(lines) /\ lines \subseteq CartLine /\ req \in [CartRequest -> RequestState]
  BY DEF CartInv, CartTyped
<1>4. hydrated \subseteq lines /\ IsFiniteSet(hydrated)
  BY <1>1, <1>3, FS_Subset
<1>5. req'[r] = Idle /\ Idle.pc = "idle" /\ Idle \in RequestState
      /\ \A q \in CartRequest \ {r} : req'[q] = req[q]
  BY <1>2, <1>3, IdleRequest
<1>6. Adding' = Adding
  BY <1>2, <1>5 DEF Adding
<1>7. CartTyped'
  <2>1. \A l \in hydrated :
          [position |-> Position(hydrated, l), product |-> l.product] \in Shown
    BY <1>3, <1>4, PositionIsNat DEF Shown, CartLine
  <2>2. page' \in [shown : SUBSET Shown, fresh : BOOLEAN]
    BY <1>2, <2>1
  <2>3. req' \in [CartRequest -> RequestState]
    BY <1>2, <1>3, <1>5
  <2> QED  BY <1>2, <2>2, <2>3 DEF CartInv, CartTyped
<1>8. IdsAreDrawn' /\ OneOfEach'
  BY <1>2, <1>5, <1>6 DEF CartInv, IdsAreDrawn, OneOfEach, Adding
<1>9. AddsSomething' /\ ArchivedForGood' /\ AddSeesArchive'
  BY <1>2, <1>5 DEF CartInv, AddsSomething, ArchivedForGood, AddSeesArchive
<1>10. page'.fresh => hydrated = lines /\ Adding = {}
  BY <1>2 DEF Adding
<1>11. ComesAfter'
  BY <1>6, <1>10 DEF ComesAfter
<1>12. PositionsHold'
  <2>1. ASSUME page'.fresh, NEW e \in page'.shown
        PROVE  \E l \in lines' : l.product = e.product /\ Position(lines', l) = e.position
    <3>1. PICK l \in hydrated :
            e = [position |-> Position(hydrated, l), product |-> l.product]
      BY <1>2, <2>1
    <3>2. hydrated = lines'
      BY <1>2, <1>10, <2>1
    <3> QED  BY <3>1, <3>2
  <2> QED  BY <2>1 DEF PositionsHold, Position
<1> QED  BY <1>7, <1>8, <1>9, <1>11, <1>12 DEF CartInv

LEMMA NextCart == CartInv /\ [PageNext]_pageVars => CartInv'
<1> SUFFICES ASSUME CartInv, [PageNext]_pageVars PROVE CartInv'
  OBVIOUS
<1>0. /\ active \subseteq Product /\ archivedProducts \subseteq Product
      /\ req \in [CartRequest -> RequestState]
      /\ Idle \in RequestState /\ Idle.pc = "idle"
  BY IdleRequest DEF CartInv, CartTyped
<1>1. ASSUME NEW ps \in SUBSET Product, NEW status, SetStatus(ps, status),
             archivedProducts' \subseteq Product, archivedProducts \subseteq archivedProducts',
             UNCHANGED <<lines, drawn, page, req>>
      PROVE  CartInv'
  BY <1>0, <1>1, CatalogueMovesOn DEF SetStatus
<1>2. ASSUME NEW p \in Product, NEW status, UpdateProduct(p, status) PROVE CartInv'
  BY <1>0, <1>1, <1>2 DEF UpdateProduct
<1>3. ASSUME NEW ps \in SUBSET Product, NEW status, BulkUpdateProducts(ps, status)
      PROVE  CartInv'
  BY <1>0, <1>1, <1>3 DEF BulkUpdateProducts
<1>4. ASSUME NEW p \in Product, ArchiveOne(p) PROVE CartInv'
  BY <1>0, <1>1, <1>4 DEF ArchiveOne
<1>5. ASSUME NEW r \in CartRequest, req' = [req EXCEPT ![r] = Idle],
             UNCHANGED <<active, archivedProducts, lines, drawn, page>>
      PROVE  CartInv'
  BY <1>0, <1>5, CartMovesOn
<1>6. ASSUME NEW r \in CartRequest, CartAdd(r) PROVE CartInv'
  <2>1. PICK products \in LoadProducts : \E p \in products :
          req' = [req EXCEPT ![r] = [Idle EXCEPT !.pc = "listed", !.product = p,
                                                      !.live = p \notin archivedProducts]]
    BY <1>6 DEF CartAdd
  <2>0. PICK p \in products :
          req' = [req EXCEPT ![r] = [Idle EXCEPT !.pc = "listed", !.product = p,
                                                      !.live = p \notin archivedProducts]]
    BY <2>1
  <2>2. p \in Product
    BY <1>0, <2>1, <2>0, CartPageAssumption DEF LoadProducts, Listed
  <2>3. PICK live \in BOOLEAN : live = (p \notin archivedProducts)
    OBVIOUS
  <2>4. PICK t : t = [Idle EXCEPT !.pc = "listed", !.product = p, !.live = live]
    OBVIOUS
  <2>5. t \in RequestState /\ t.pc = "listed" /\ t.product = p /\ t.live = live
    BY <1>0, <2>2, <2>4 DEF RequestState
  <2>6. req' = [req EXCEPT ![r] = t]
    BY <2>0, <2>3, <2>4
  <2>7. UNCHANGED <<active, archivedProducts, lines, drawn, page>>
    BY <1>6 DEF CartAdd, shop
  <2> QED  BY <2>2, <2>3, <2>5, <2>6, <2>7, CartMovesOn
<1>7. ASSUME NEW r \in CartRequest, AddLookUp(r) PROVE CartInv'
  <2>1. UNCHANGED <<active, archivedProducts, lines, drawn, page>> /\ req[r].pc = "listed"
    BY <1>7 DEF AddLookUp, shop
  <2>2. CASE req[r].product \in archivedProducts
    BY <1>5, <1>7, <2>1, <2>2 DEF AddLookUp, Sellable
  <2>3. CASE req[r].product \notin archivedProducts
    <3>1. PICK t : t = [req[r] EXCEPT !.pc = "found"]
      OBVIOUS
    <3>2. t \in RequestState /\ t.pc = "found" /\ t.product = req[r].product /\ t.live = req[r].live
      BY <1>0, <3>1 DEF RequestState
    <3>3. req' = [req EXCEPT ![r] = t]
      BY <1>7, <2>3, <3>1 DEF AddLookUp, Sellable
    <3>4. t.live /\ t.product \in Product
      BY <2>1, <2>3, <3>2 DEF CartInv, ArchivedForGood, AddsSomething
    <3> QED  BY <2>1, <3>2, <3>3, <3>4, CartMovesOn
  <2> QED  BY <2>2, <2>3
<1>8. ASSUME NEW r \in CartRequest, AddToLine(r) \/ Dies(r) PROVE CartInv'
  BY <1>5, <1>8 DEF AddToLine, Dies, shop
<1>9. ASSUME NEW r \in CartRequest, CartLoad(r) PROVE CartInv'
  <2>1. PICK products \in LoadProducts :
          req' = [req EXCEPT ![r] = [Idle EXCEPT !.pc = "cart", !.seen = products]]
    BY <1>9 DEF CartLoad
  <2>2. products \subseteq Product
    BY <1>0, <2>1, CartPageAssumption DEF LoadProducts, Listed
  <2>3. PICK t : t = [Idle EXCEPT !.pc = "cart", !.seen = products]
    OBVIOUS
  <2>4. t \in RequestState /\ t.pc = "cart" /\ req' = [req EXCEPT ![r] = t]
    BY <1>0, <2>1, <2>2, <2>3 DEF RequestState
  <2>5. UNCHANGED <<active, archivedProducts, lines, drawn, page>>
    BY <1>9 DEF CartLoad, shop
  <2> QED  BY <2>4, <2>5, CartMovesOn
<1>10. ASSUME NEW i, RemoveByIndex(i) PROVE CartInv'
  BY <1>10, CartShrinks DEF RemoveByIndex, shop
<1>11. CASE CartClear
  BY <1>11, CartShrinks DEF CartClear, shop
<1>12. CASE UNCHANGED pageVars
  BY <1>0, <1>12, CatalogueMovesOn DEF pageVars, shop
<1> QED  BY <1>2, <1>3, <1>4, <1>6, <1>7, <1>8, <1>9, <1>10, <1>11, <1>12,
            InsertDraws, LineComes, PageIsMade DEF PageNext

LEMMA InitCart == PageInit => CartInv
<1> SUFFICES ASSUME PageInit PROVE CartInv
  OBVIOUS
<1>1. lines = {} /\ page.shown = {} /\ Adding = {} /\ \A r \in CartRequest : req[r].pc = "idle"
  BY IdleRequest DEF PageInit, Adding
<1>2. CartTyped
  BY <1>1, IdleRequest, FS_EmptySet, CartPageAssumption DEF PageInit, CartTyped
<1> QED  BY <1>1, <1>2 DEF CartInv, IdsAreDrawn, OneOfEach, AddsSomething, ComesAfter,
            ArchivedForGood, PositionsHold, AddSeesArchive

(* The cart's inductive invariant holds for any products, fallback list    *)
(* and number of requests.                                                 *)
THEOREM CartInvariant == PageSpec => []CartInv
<1>1. PageInit => CartInv
  BY InitCart
<1>2. CartInv /\ [PageNext]_pageVars => CartInv'
  BY NextCart
<1> QED  BY <1>1, <1>2, PTL DEF PageSpec

(* Types, and one line for a product (cart_line_unique), however many      *)
(* inserts of it overlap.                                                  *)
THEOREM CartPageTyped == PageSpec => []PageTypeOK
<1>1. CartInv => PageTypeOK
  BY DEF CartInv, CartTyped, OneOfEach, CartLine, Shown, RequestState, PageTypeOK
<1> QED  BY <1>1, CartInvariant, PTL

(* "cart.html posts a positional index; ordering is by id, same as         *)
(* items()": positions hold under every addition and catalogue change.     *)
THEOREM CartPositionsHold == PageSpec => []PositionsHold
<1>1. CartInv => PositionsHold
  BY DEF CartInv
<1> QED  BY <1>1, CartInvariant, PTL

(* An add that begins after the product was archived never gets through,   *)
(* even when the shop lists it from data/products.json.                    *)
THEOREM NothingArchivedIsAdded == PageSpec => []AddSeesArchive
<1>1. CartInv => AddSeesArchive
  BY DEF CartInv
<1> QED  BY <1>1, CartInvariant, PTL
=============================================================================
