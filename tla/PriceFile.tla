----------------------------- MODULE PriceFile -----------------------------
(***************************************************************************)
(* What one row of the bulk price file asks for: import_csv                *)
(* (admin/views.py) and the loop of bulk_update_variants                   *)
(* (db/repo/admin.py).                                                     *)
(***************************************************************************)
EXTENDS Integers

CONSTANTS Variant,
          Blank, Text    \* an empty cell and one that is no number

ASSUME CellAssumption == Blank \notin Int /\ Text \notin Int /\ Blank # Text

NoSale == 0              \* sale_price_cents is null, or 0, which `or` skips

(* store.variants: prices, with the CHECKs of the table.                   *)
Row == [price : Nat, sale : Nat]
SaneRow(row) == row.price >= 0 /\ row.sale >= 0 /\ row.sale <= row.price

(* An unreadable price counts as an empty cell; an unreadable sale price   *)
(* takes the sale away.                                                    *)
SetsPrice(line) == line.price \notin {Blank, Text}
SetsSale(line) == line.sale # Blank
SaleOf(line) == IF line.sale = Text THEN NoSale ELSE line.sale

Refused(line) == (SetsPrice(line) /\ line.price < 0) \/ line.status = "unknown"
SetsNothing(line) == ~SetsPrice(line) /\ ~SetsSale(line) /\ line.status = ""

(* The UPDATE runs, and finds a row unless the SKU is unknown or archived. *)
Updates(line, archived) ==
  ~Refused(line) /\ ~SetsNothing(line) /\ line.sku \in Variant \ archived

Changed(row, line) ==
  [price |-> IF SetsPrice(line) THEN line.price ELSE row.price,
   sale |-> IF SetsSale(line) THEN SaleOf(line) ELSE row.sale]
=============================================================================
