----------------------------- MODULE Catalogue -----------------------------
(***************************************************************************)
(* The prices and those who change and read them at the same time: the     *)
(* catalogue pages of the admin panel (admin/views.py, db/repo/admin.py)   *)
(* and place_order, which prices an order line by line (web/orders.py).    *)
(*                                                                         *)
(* An import is one transaction of one UPDATE for each row of the file.    *)
(* What it has written is seen by nobody and locked for everybody until it *)
(* commits.  Any of its statements may fail: a CHECK, a deadlock (two      *)
(* files that list the SKUs in different orders), a lost connection.       *)
(***************************************************************************)
EXTENDS PriceFile, Sequences, SequencesExt, FiniteSets

CONSTANTS Staff, Request,
          Family,     \* the products, each the set of its variants
          Files,      \* the files there are to import
          Sold,       \* the prices the catalogue is seeded with
          MaxPrice    \* bound: prices entered in a form

ASSUME CatalogueAssumption ==
  /\ Sold \in [Variant -> Row]
  /\ \A v \in Variant : SaneRow(Sold[v])
  /\ Family \subseteq SUBSET Variant
  /\ MaxPrice \in Nat

ASSUME FinitenessAssumption == IsFiniteSet(Variant)

(* Files are sequences of lines, whose price cells hold numbers, nothing,  *)
(* or text; anything may stand in the other cells.                         *)
ASSUME FileAssumption ==
  \A file \in Files :
    /\ file \in Seq(Range(file))
    /\ \A n \in DOMAIN file : /\ file[n].price \in Int \cup {Blank, Text}
                             /\ file[n].sale  \in Int \cup {Blank, Text}

VARIABLES variant,    \* store.variants, committed: price and sale price
          archived,   \* variants with archived_at
          job,        \* the import each member of staff has running
          placing     \* the orders being placed

vars == <<variant, archived, job, placing>>

NoFile == <<>>
Rest == [file |-> NoFile, next |-> 1, new |-> <<>>]
NoOrder == [items |-> <<>>, units |-> <<>>, moved |-> {}]

TypeOK ==
  /\ variant \in [Variant -> Row] /\ \A v \in Variant : SaneRow(variant[v])
  /\ archived \subseteq Variant
  /\ \A s \in Staff :
       /\ job[s].file \in Files \cup {NoFile}
       /\ job[s].next \in 1 .. Len(job[s].file) + 1
       /\ DOMAIN job[s].new \subseteq Variant
       /\ \A v \in DOMAIN job[s].new : job[s].new[v] \in Row /\ SaneRow(job[s].new[v])
  /\ \A r \in Request :
       /\ Range(placing[r].items) \subseteq Variant
       /\ Len(placing[r].units) <= Len(placing[r].items)
       /\ placing[r].moved \subseteq Variant

Init ==
  /\ variant = Sold /\ archived = {}
  /\ job = [s \in Staff |-> Rest]
  /\ placing = [r \in Request |-> NoOrder]

-----------------------------------------------------------------------------
Busy(s) == job[s].file # NoFile

(* The new prices are committed; moved remembers it for orders under way.  *)
Publish(prices) ==
  /\ variant' = prices
  /\ placing' = [r \in Request |->
       IF placing[r] = NoOrder THEN NoOrder
       ELSE [placing[r] EXCEPT !.moved = @ \cup {v \in Variant : prices[v] # variant[v]}]]

(* Faulty variant: rows are not locked.                                    *)
BugFree(v, s) == TRUE

(* A writer waits until nobody else holds the row.                         *)
Free(v, s) == \A t \in Staff \ {s} : v \notin DOMAIN job[t].new

(* import_csv: the file is read, bulk_update_variants begins.              *)
ImportBegin(s) ==
  /\ ~Busy(s)
  /\ \E file \in Files : job' = [job EXCEPT ![s].file = file]
  /\ UNCHANGED <<variant, archived, placing>>

Line(s) == job[s].file[job[s].next]
Mine(s, v) == IF v \in DOMAIN job[s].new THEN job[s].new[v] ELSE variant[v]
Reading(s) == Busy(s) /\ job[s].next <= Len(job[s].file)

ImportPass(s) ==         \* skipped, rejected or unknown
  /\ Reading(s) /\ ~Updates(Line(s), archived)
  /\ job' = [job EXCEPT ![s].next = @ + 1]
  /\ UNCHANGED <<variant, archived, placing>>

ImportRow(s) ==
  /\ Reading(s) /\ Updates(Line(s), archived)
  /\ LET v == Line(s).sku
         row == Changed(Mine(s, v), Line(s))
     IN /\ Free(v, s) /\ SaneRow(row)
        /\ job' = [job EXCEPT ![s].next = @ + 1,
                     ![s].new = [w \in DOMAIN @ \cup {v} |-> IF w = v THEN row ELSE @[w]]]
  /\ UNCHANGED <<variant, archived, placing>>

ImportCommit(s) ==
  /\ Busy(s) /\ ~Reading(s)
  /\ Publish([v \in Variant |-> Mine(s, v)])
  /\ job' = [job EXCEPT ![s] = Rest]
  /\ UNCHANGED archived

ImportFails(s) ==        \* rolled back, whatever it was that failed
  /\ Busy(s)
  /\ job' = [job EXCEPT ![s] = Rest]
  /\ UNCHANGED <<variant, archived, placing>>

-----------------------------------------------------------------------------
(* Faulty variant: the table has no CHECK.                                 *)
BugAccepts(row) == TRUE

(* update_variant: the form's prices, whatever has become of the row since *)
(* the form was shown.  What the CHECK refuses is an error page.           *)
Accepts(row) == SaneRow(row)

UpdateVariant(v) ==
  /\ \A s \in Staff : v \notin DOMAIN job[s].new
  /\ \E row \in [price : 0 .. MaxPrice, sale : 0 .. MaxPrice] :
       Accepts(row) /\ Publish([variant EXCEPT ![v] = row])
  /\ UNCHANGED <<archived, job>>

(* archive_product: all its variants in one transaction.                   *)
ArchiveProduct(vs) ==
  /\ \A v \in vs, s \in Staff : v \notin DOMAIN job[s].new
  /\ archived' = archived \cup vs
  /\ UNCHANGED <<variant, job, placing>>

-----------------------------------------------------------------------------
(* place_order: the items the view has read, in a transaction that reads   *)
(* every variant with a statement (and a snapshot) of its own.             *)
PlaceBegin(r) ==
  /\ placing[r] = NoOrder
  /\ \E vs \in (SUBSET Variant) \ {{}} : \E items \in SetToSeqs(vs) :
       placing' = [placing EXCEPT ![r].items = items]
  /\ UNCHANGED <<variant, archived, job>>

Unit(v) == IF variant[v].sale # NoSale THEN variant[v].sale ELSE variant[v].price

(* Faulty variant: the price the cart was filled at.                       *)
BugPriceLine(r) ==
  /\ Len(placing[r].units) < Len(placing[r].items)
  /\ placing' = [placing EXCEPT ![r].units =
       Append(@, Sold[placing[r].items[Len(placing[r].units) + 1]].price)]
  /\ UNCHANGED <<variant, archived, job>>

PriceLine(r) ==
  /\ Len(placing[r].units) < Len(placing[r].items)
  /\ placing' = [placing EXCEPT ![r].units =
       Append(@, Unit(placing[r].items[Len(placing[r].units) + 1]))]
  /\ UNCHANGED <<variant, archived, job>>

PlaceEnd(r) ==           \* the order and its lines are committed, or rolled back
  /\ placing[r] # NoOrder
  /\ placing' = [placing EXCEPT ![r] = NoOrder]
  /\ UNCHANGED <<variant, archived, job>>

Next ==
  \/ \E s \in Staff : ImportBegin(s) \/ ImportPass(s) \/ ImportRow(s)
                      \/ ImportCommit(s) \/ ImportFails(s)
  \/ \E v \in Variant : UpdateVariant(v)
  \/ \E vs \in Family : ArchiveProduct(vs)
  \/ \E r \in Request : PlaceBegin(r) \/ PriceLine(r) \/ PlaceEnd(r)

Spec == Init /\ [][Next]_vars

-----------------------------------------------------------------------------
(* Imports that overlap each other, single edits and archiving change the  *)
(* price list as if they had run one after the other: each file as a       *)
(* whole, on the list as it was at its commit, or not at all.              *)
Prices == INSTANCE PriceList WITH list <- variant
PricesChangeAtOnce == Prices!ListSpec

(* "Prices are re-derived from store.variants inside the transaction":     *)
(* every line of an order has the price its variant has on the list,       *)
(* unless that price changed after the order was begun.  (Lines of one     *)
(* order may lie on both sides of one import.)                             *)
OrderIsPriced ==
  \A r \in Request : \A i \in DOMAIN placing[r].units :
    placing[r].items[i] \notin placing[r].moved =>
      placing[r].units[i] = Unit(placing[r].items[i])
=============================================================================
