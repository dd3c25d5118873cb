------------------------------ MODULE CartPage ------------------------------
(***************************************************************************)
(* One customer's cart against a catalogue that changes: what the shop     *)
(* lists (web/catalog.py), cart_add, the cart page and cart_update         *)
(* (web/app.py, web/carts.py), and the product pages of the admin panel    *)
(* (db/repo/admin.py).                                                     *)
(*                                                                         *)
(* The page posts the position of a line.  Lines are ordered by id; an id  *)
(* is drawn when the line is inserted, the line is seen when that          *)
(* transaction commits.  A product stands for one of its variants, with    *)
(* one theme.  Quantities are in Checkout: here a line is there or not.    *)
(***************************************************************************)
EXTENDS Integers, FiniteSets

CONSTANTS Product,
          Fallback,   \* products of data/products.json
          CartRequest,  \* requests being served at once
          MaxId       \* bound: lines ever inserted

ASSUME CartPageAssumption == Fallback \subseteq Product /\ MaxId \in Nat

VARIABLES active,     \* products with status 'active'
          archivedProducts,  \* those with archived_at; their variants have it too
          lines,      \* store.cart_items of the cart
          drawn,      \* ids drawn so far
          page,       \* the cart page in the browser
          req         \* the requests

pageVars == <<active, archivedProducts, lines, drawn, page, req>>
shop == <<active, archivedProducts>>

Nothing == "nothing"
Idle == [pc |-> "idle", product |-> Nothing, id |-> 0, seen |-> {}, live |-> FALSE]

PageTypeOK ==
  /\ active \subseteq Product /\ archivedProducts \subseteq Product
  /\ lines \subseteq [id : 1 .. MaxId, product : Product] /\ drawn \in 0 .. MaxId
  /\ \A l, m \in lines : l.product = m.product => l = m
  /\ page.shown \subseteq [position : Nat, product : Product] /\ page.fresh \in BOOLEAN
  /\ req \in [CartRequest -> [pc : {"idle", "listed", "found", "inserted", "cart"},
                          product : Product \cup {Nothing}, id : 0 .. MaxId,
                          seen : SUBSET Product, live : BOOLEAN]]

PageInit ==
  /\ active = Product /\ archivedProducts = {}
  /\ lines = {} /\ drawn = 0
  /\ page = [shown |-> {}, fresh |-> TRUE]
  /\ req = [r \in CartRequest |-> Idle]

-----------------------------------------------------------------------------
(* The admin panel.  The form of a product writes every field it shows,    *)
(* also to a product that was archived in the meantime.                    *)
SetStatus(ps, status) == active' = IF status = "active" THEN active \cup ps ELSE active \ ps

UpdateProduct(p, status) ==
  SetStatus({p}, status) /\ UNCHANGED <<archivedProducts, lines, drawn, page, req>>

BulkUpdateProducts(ps, status) ==
  /\ SetStatus(ps \ archivedProducts, status)
  /\ UNCHANGED <<archivedProducts, lines, drawn, page, req>>

ArchiveOne(p) ==
  /\ archivedProducts' = archivedProducts \cup {p}
  /\ SetStatus({p}, "archived")
  /\ UNCHANGED <<lines, drawn, page, req>>

-----------------------------------------------------------------------------
(* products(): what is on sale.  load_products serves the file instead     *)
(* when the database does not answer.                                      *)
Listed == active \ archivedProducts
LoadProducts == {Listed, Fallback}

(* cart_add: the product has to be on the list ...                         *)
CartAdd(r) ==
  /\ req[r].pc = "idle"
  /\ \E products \in LoadProducts : \E p \in products :
       req' = [req EXCEPT ![r] = [Idle EXCEPT !.pc = "listed", !.product = p,
                                              !.live = p \notin archivedProducts]]
  /\ UNCHANGED <<shop, lines, drawn, page>>

(* ... and carts.add, in its transaction, looks the variant up again.      *)
BugSellable(p) == TRUE
Sellable(p) == p \notin archivedProducts

AddLookUp(r) ==
  /\ req[r].pc = "listed"
  /\ req' = [req EXCEPT ![r] = IF Sellable(req[r].product) THEN [@ EXCEPT !.pc = "found"] ELSE Idle]
  /\ UNCHANGED <<shop, lines, drawn, page>>

HasLine(p) == \E l \in lines : l.product = p
BugInserting(p) == FALSE
Inserting(p) == \E r \in CartRequest : req[r].pc = "inserted" /\ req[r].product = p

(* on conflict do update: the line keeps its id and gets the quantity.  An *)
(* insert of the same line that has not committed is waited for.           *)
AddToLine(r) ==
  /\ req[r].pc = "found" /\ HasLine(req[r].product)
  /\ req' = [req EXCEPT ![r] = Idle]
  /\ UNCHANGED <<shop, lines, drawn, page>>

AddInsert(r) ==
  LET p == req[r].product IN
  /\ req[r].pc = "found" /\ ~HasLine(p) /\ ~Inserting(p)
  /\ drawn < MaxId /\ drawn' = drawn + 1
  /\ req' = [req EXCEPT ![r].pc = "inserted", ![r].id = drawn + 1]
  /\ UNCHANGED <<shop, lines, page>>

AddCommit(r) ==
  /\ req[r].pc = "inserted"
  /\ lines' = lines \cup {[id |-> req[r].id, product |-> req[r].product]}
  /\ req' = [req EXCEPT ![r] = Idle]
  /\ UNCHANGED <<shop, drawn, page>>

Dies(r) ==               \* rolled back, with the worker or the connection
  /\ req[r].pc # "idle"
  /\ req' = [req EXCEPT ![r] = Idle]
  /\ UNCHANGED <<shop, lines, drawn, page>>

-----------------------------------------------------------------------------
(* Faulty variant: the newest line first.                                  *)
BugPosition(ls, l) == Cardinality({m \in ls : m.id >= l.id})

(* order by ci.id: the position of line l among the lines ls.              *)
Position(ls, l) == Cardinality({m \in ls : m.id <= l.id})

(* cart(): the products, then the items; a line whose product is not among *)
(* them is left out.  page.fresh is history: nothing was left out, no      *)
(* insert was under way, and since then no line was taken away.            *)
CartLoad(r) ==
  /\ req[r].pc = "idle"
  /\ \E products \in LoadProducts :
       req' = [req EXCEPT ![r] = [Idle EXCEPT !.pc = "cart", !.seen = products]]
  /\ UNCHANGED <<shop, lines, drawn, page>>

CartRender(r) ==
  LET hydrated == {l \in lines : l.product \in req[r].seen} IN
  /\ req[r].pc = "cart"
  /\ page' = [shown |-> {[position |-> Position(hydrated, l), product |-> l.product] : l \in hydrated},
              fresh |-> hydrated = lines /\ \A q \in CartRequest : req[q].pc # "inserted"]
  /\ req' = [req EXCEPT ![r] = Idle]
  /\ UNCHANGED <<shop, lines, drawn>>

(* update_by_index with a quantity of 0; clear.  Any tab may post any      *)
(* position.                                                               *)
RemoveByIndex(i) ==
  /\ \E l \in lines : Position(lines, l) = i /\ lines' = lines \ {l}
  /\ page' = [page EXCEPT !.fresh = FALSE]
  /\ UNCHANGED <<shop, drawn, req>>

CartClear ==
  /\ lines # {} /\ lines' = {}
  /\ page' = [page EXCEPT !.fresh = FALSE]
  /\ UNCHANGED <<shop, drawn, req>>

PageNext ==
  \/ \E status \in {"active", "draft"} :
       \/ \E p \in Product : UpdateProduct(p, status)
       \/ \E ps \in SUBSET Product : BulkUpdateProducts(ps, status)
  \/ \E p \in Product : ArchiveOne(p)
  \/ \E r \in CartRequest : CartAdd(r) \/ AddLookUp(r) \/ AddToLine(r) \/ AddInsert(r)
                        \/ AddCommit(r) \/ Dies(r) \/ CartLoad(r) \/ CartRender(r)
  \/ \E i \in 1 .. MaxId : RemoveByIndex(i)
  \/ CartClear

PageSpec == PageInit /\ [][PageNext]_pageVars

-----------------------------------------------------------------------------
(* "cart.html posts a positional index; ordering is by id, same as         *)
(* items()": position i of the page is line i of the cart, whatever is     *)
(* added to the cart or done to the catalogue after the page was made.     *)
(* Only a line taken away, one the page left out because its product is    *)
(* not listed, and an insert that overlaps the page shift the positions.   *)
PositionsHold ==
  page.fresh => \A e \in page.shown : \E l \in lines :
    l.product = e.product /\ Position(lines, l) = e.position

(* No request that begins after a product was archived puts it in a cart,  *)
(* even when the shop still shows it from data/products.json.              *)
AddSeesArchive ==
  \A r \in CartRequest : req[r].pc \in {"found", "inserted"} => req[r].live
=============================================================================
