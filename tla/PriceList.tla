----------------------------- MODULE PriceList -----------------------------
(***************************************************************************)
(* What the admin panel promises of the prices: everybody sees one list,   *)
(* and every edit changes it at once.  A file of the bulk import counts as *)
(* a whole, on the list as it is when it takes effect, or not at all ("a   *)
(* silent no-op on a typo'd SKU is how a price change goes out             *)
(* half-applied", bulk_update_variants).  Catalogue implements it.         *)
(***************************************************************************)
EXTENDS PriceFile, Sequences, SequencesExt

CONSTANTS Files, Sold, MaxPrice

VARIABLES list,      \* the prices of each variant
          archived   \* variants taken off sale

pvars == <<list, archived>>

Init == list = Sold /\ archived = {}

EditOne(v) ==
  /\ \E row \in [price : 0 .. MaxPrice, sale : 0 .. MaxPrice] :
       SaneRow(row) /\ list' = [list EXCEPT ![v] = row]
  /\ UNCHANGED archived

(* The lines of the file that set the price of v, and those that set its   *)
(* sale price.                                                             *)
PriceLines(file, v) ==
  {n \in DOMAIN file : file[n].sku = v /\ Updates(file[n], archived) /\ SetsPrice(file[n])}
SaleLines(file, v) ==
  {n \in DOMAIN file : file[n].sku = v /\ Updates(file[n], archived) /\ SetsSale(file[n])}

(* The last line that sets a cell counts; a cell no line sets stays.       *)
After(file, v) ==
  LET p == PriceLines(file, v)
      q == SaleLines(file, v)
  IN [price |-> IF p = {} THEN list[v].price ELSE file[Max(p)].price,
      sale  |-> IF q = {} THEN list[v].sale ELSE SaleOf(file[Max(q)])]

ImportWhole(file) ==
  /\ list' = [v \in Variant |-> After(file, v)]
  /\ UNCHANGED archived

Archive(vs) == archived' = archived \cup vs /\ UNCHANGED list

Next == \/ \E v \in Variant : EditOne(v)
        \/ \E file \in Files : ImportWhole(file)
        \/ \E vs \in SUBSET Variant : Archive(vs)

ListSpec == Init /\ [][Next]_pvars
=============================================================================
