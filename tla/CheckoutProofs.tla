--------------------------- MODULE CheckoutProofs ---------------------------
(***************************************************************************)
(* Proofs about the way from the cart to the paid order, for any number of *)
(* browsers, carts, workers and orders, with either gateway: a sale stays  *)
(* a sale, only a payment makes a Stripe order paid, money taken is never  *)
(* forgotten, a checkout that fails leaves the customer the cart, and what *)
(* is reserved is what the paid orders need.                               *)
(***************************************************************************)
EXTENDS Checkout, FiniteSetTheorems, WellFoundedInduction, TLAPS

Task == [phase : Phase, browser : Browser \cup {Nobody},
         cart : Cart \cup {NoCart}, lines : Lines, order : 0 .. MaxOrders]
Order == [cart : Cart, lines : Lines, paid : BOOLEAN]

Placing == {w \in Worker : work[w].phase = "placing"}

(* The orders placed and those about to be fit the bound.                  *)
Room == Len(orders) + Cardinality(Placing) <= MaxOrders

(* A browser's cart is its own.                                            *)
Baskets == /\ \A b \in Browser : cookie[b] \in Cart => owner[cookie[b]] = b
           /\ \A c \in given : owner[c] \in Browser

(* Unless first requests of a browser overlapped, one that is creating a   *)
(* cart is alone, and the browser has none while a first request runs.     *)
Alone ==
  \A v, w \in Worker :
    /\ work[v].phase \in First /\ work[w].phase \in First
    /\ work[v].browser = work[w].browser
    => \/ v = w \/ work[v].browser \in overlapped
       \/ work[v].phase = "viewing" /\ work[w].phase = "viewing"

Cartless ==
  \A w \in Worker : work[w].phase \in First =>
    /\ work[w].browser \in overlapped \/ cookie[work[w].browser] \notin Cart
    /\ work[w].phase # "viewing" => cookie[work[w].browser] # NoSession

(* What each worker holds at each phase of a request.                      *)
TaskOK(t) ==
  /\ t.phase \in First \cup {"editing"} => t.browser \in Browser
  /\ t.phase = "viewing" => t.cart = NoCart
  /\ t.phase \in {"filling", "handing", "editing", "placing", "charging", "answering"} =>
       t.cart \in Cart /\ t.browser \in Browser /\ owner[t.cart] = t.browser
  /\ t.phase \in {"charging", "answering"} => t.order \in Placed /\ orders[t.order].cart = t.cart
  /\ t.phase = "charging" => session[t.order] = "none"
  /\ t.phase = "answering" => orders[t.order].paid \/ session[t.order] # "none"
  /\ t.phase \in {"hook", "settling"} => t.order \in Placed
Tasks == \A w \in Worker : TaskOK(work[w])

(* An order is charged by the one request that placed it.                  *)
OneCharge ==
  \A v, w \in Worker :
    /\ work[v].phase = "charging" /\ work[w].phase = "charging"
    /\ work[v].order = work[w].order
    => v = w

(* Stripe knows only of orders there are.                                  *)
StripeKnows ==
  \A n \in OrderId : /\ session[n] # "none" => n \in Placed
                     /\ event[n] # "none" => session[n] # "none"

IInv == /\ Typed /\ Room /\ Baskets /\ Alone /\ Cartless /\ Tasks /\ OneCharge /\ StripeKnows
        /\ ConvertedForGood /\ PaidWasCharged /\ ChargeIsNotForgotten /\ CartIsNotLost

-----------------------------------------------------------------------------
LEMMA MinOfTwo ==
  ASSUME NEW a \in Int, NEW b \in Int
  PROVE  Min({a, b}) \in {a, b} /\ Min({a, b}) <= a /\ Min({a, b}) <= b
<1>1. \E x \in {a, b} : \A y \in {a, b} : x <= y
  OBVIOUS
<1> QED  BY <1>1 DEF Min

LEMMA IdleIsTask ==
  /\ Idle \in Task /\ TaskOK(Idle) /\ Idle.phase = "idle" /\ Empty \in Lines
BY BoundsAssumption DEF Idle, Task, TaskOK, Phase, First, Lines, Empty

LEMMA AnsweringTask ==
  ASSUME NEW u \in Task
  PROVE  \E t \in Task : /\ t = [u EXCEPT !.phase = "answering"]
                         /\ t.phase = "answering" /\ t.order = u.order
                         /\ t.cart = u.cart /\ t.browser = u.browser
<1> DEFINE t == [u EXCEPT !.phase = "answering"]
<1>1. /\ t \in Task /\ t.phase = "answering" /\ t.order = u.order
      /\ t.cart = u.cart /\ t.browser = u.browser
  BY DEF Task, Phase
<1> USE <1>1
<1> WITNESS t \in Task
<1> QED  BY <1>1

LEMMA PlacingIsFinite ==
  IsFiniteSet(Placing) /\ Cardinality(Placing) \in Nat
<1>1. IsFiniteSet(Placing)
  BY FinitenessAssumption, FS_Subset DEF Placing
<1> QED  BY <1>1, FS_CardinalityType

LEMMA PlacedAreIds ==
  ASSUME Typed, Room
  PROVE  Len(orders) \in Nat /\ Placed = 1 .. Len(orders) /\ Placed \subseteq OrderId
<1>1. Len(orders) \in Nat /\ Placed = 1 .. Len(orders)
  BY DEF Typed, Placed
<1>2. Len(orders) <= MaxOrders
  BY <1>1, PlacingIsFinite, BoundsAssumption DEF Room
<1> QED  BY <1>1, <1>2, BoundsAssumption DEF OrderId

LEMMA OrdersTyped ==
  ASSUME Typed, NEW n \in Placed
  PROVE  orders[n] \in Order
<1>1. orders \in Seq(Order)
  BY DEF Typed, Order
<1>2. n \in 1 .. Len(orders)
  BY DEF Typed, Placed
<1> HIDE DEF Order
<1> QED  BY <1>1, <1>2

(* One request moves on to t, which is not the start of a checkout.        *)
LEMMA RoomStays ==
  ASSUME Typed, Room, NEW w \in Worker, NEW t, t.phase # "placing",
         work' = [work EXCEPT ![w] = t], Len(orders') = Len(orders)
  PROVE  Room'
<1>1. Placing' \subseteq Placing
  BY DEF Typed, Placing
<1>2. Cardinality(Placing') <= Cardinality(Placing) /\ Cardinality(Placing') \in Nat
  BY <1>1, PlacingIsFinite, FS_Subset, FS_CardinalityType
<1>3. Len(orders) \in Nat
  BY DEF Typed
<1> QED  BY <1>2, <1>3, PlacingIsFinite, BoundsAssumption DEF Room

(* A step that begins no first request, and gives no browser a cart.       *)
LEMMA FirstsStay ==
  ASSUME IInv, NEW w \in Worker, NEW t \in Task, work' = [work EXCEPT ![w] = t],
         t.phase \in First => /\ work[w].phase \in First \ {"viewing"} /\ t.phase # "viewing"
                             /\ t.browser = work[w].browser,
         overlapped' = overlapped, cookie' = cookie
  PROVE  Alone' /\ Cartless'
<1>1. work'[w] = t /\ \A v \in Worker \ {w} : work'[v] = work[v]
  BY DEF IInv, Typed
<1>2. ASSUME NEW v \in Worker, work'[v].phase \in First
      PROVE  /\ work[v].phase \in First /\ work'[v].browser = work[v].browser
             /\ work'[v].phase = "viewing" <=> work[v].phase = "viewing"
  BY <1>1, <1>2
<1>3. Alone'
  BY <1>2 DEF IInv, Alone
<1>4. Cartless'
  BY <1>2 DEF IInv, Cartless
<1> QED  BY <1>3, <1>4

-----------------------------------------------------------------------------
(* A step of one request, to t, that touches no order and no session.      *)
LEMMA RequestKeeps ==
  ASSUME IInv, NEW w \in Worker, NEW t \in Task, TaskOK(t)', t.phase # "charging",
         work' = [work EXCEPT ![w] = t], Room', Typed', Baskets', Alone', Cartless',
         CartIsNotLost',
         \A c \in Cart : owner[c] \in Browser => owner'[c] = owner[c],
         UNCHANGED <<gateway, state, orders, session, event, oversold>>
  PROVE  IInv'
<1>1. work'[w] = t /\ \A v \in Worker \ {w} : work'[v] = work[v]
  BY DEF IInv, Typed
<1>2. Tasks'
  <2>1. ASSUME NEW v \in Worker, v # w PROVE TaskOK(work[v])'
    <3>1. work'[v] = work[v] /\ TaskOK(work[v])
      BY <1>1, <2>1 DEF IInv, Tasks
    <3> QED  BY <3>1 DEF TaskOK, Placed
  <2>2. TaskOK(work[w])'
    BY <1>1 DEF TaskOK
  <2> QED  BY <2>1, <2>2 DEF Tasks
<1>3. OneCharge'
  BY <1>1 DEF IInv, OneCharge
<1> QED  BY <1>2, <1>3
         DEF IInv, StripeKnows, ConvertedForGood, PaidWasCharged, ChargeIsNotForgotten, Placed

(* And one that leaves the carts alone as well.                            *)
LEMMA WorkOnly ==
  ASSUME IInv, NEW w \in Worker, NEW t \in Task, TaskOK(t), t.phase # "charging", Room',
         work' = [work EXCEPT ![w] = t], recorded' \subseteq OrderId, Alone', Cartless',
         overlapped \subseteq overlapped', overlapped' \subseteq Browser,
         UNCHANGED <<gateway, cookie, owner, given, lines, state, orders, session, event,
                     oversold>>
  PROVE  IInv'
<1>1. Typed'
  BY DEF IInv, Typed, Task
<1>2. TaskOK(t)'
  BY DEF TaskOK, Placed
<1>3. Baskets' /\ CartIsNotLost'
  BY DEF IInv, Baskets, CartIsNotLost, Placed
<1> QED  BY <1>1, <1>2, <1>3, RequestKeeps

-----------------------------------------------------------------------------
(* The cart.                                                               *)
LEMMA ViewKeeps ==
  ASSUME IInv, NEW w \in Worker, NEW b \in Browser, View(w, b)
  PROVE  IInv'
<1> DEFINE t == [Idle EXCEPT !.phase = "viewing", !.browser = b]
<1>1. t \in Task /\ t.phase = "viewing" /\ t.browser = b /\ t.cart = NoCart
  BY IdleIsTask DEF Task, Phase, Idle
<1>2. /\ work' = [work EXCEPT ![w] = t] /\ cookie[b] = NoSession
      /\ UNCHANGED <<gateway, cookie, owner, given, overlapped, lines, state, orders, session,
                     event,
                     oversold, recorded>>
  BY DEF View, cartVars, orderVars, stripeVars
<1> HIDE DEF t
<1>3. work'[w] = t /\ \A v \in Worker \ {w} : work'[v] = work[v]
  BY <1>2 DEF IInv, Typed
<1>4. cookie[b] \notin Cart
  BY <1>2, NamesAssumption
<1>5. TaskOK(t)
  BY <1>1 DEF TaskOK
<1>6. Room'
  BY <1>1, <1>2, RoomStays DEF IInv
<1>7. Cartless'
  BY <1>1, <1>2, <1>3, <1>4 DEF IInv, Cartless
<1>8. ASSUME NEW v \in Worker, work[v].phase \in First, work[v].browser = b
      PROVE  work[v].phase = "viewing"
  BY <1>2, <1>8 DEF IInv, Cartless
<1>9. Alone'
  BY <1>1, <1>2, <1>3, <1>8 DEF IInv, Alone
<1> QED  BY <1>1, <1>2, <1>5, <1>6, <1>7, <1>9, WorkOnly DEF IInv, Typed

LEMMA EditBeginKeeps ==
  ASSUME IInv, NEW w \in Worker, NEW b \in Browser, EditBegin(w, b)
  PROVE  IInv'
<1> DEFINE t == [Idle EXCEPT !.phase = IF cookie[b] = NoCart THEN "creating" ELSE "editing",
                             !.browser = b, !.cart = cookie[b]]
<1>1. cookie[b] \in Cart \cup {NoCart}
  BY DEF EditBegin, IInv, Typed
<1>2. /\ t \in Task /\ t.phase = (IF cookie[b] = NoCart THEN "creating" ELSE "editing")
      /\ t.browser = b /\ t.cart = cookie[b]
  BY <1>1, IdleIsTask DEF Task, Phase, Idle
<1>3. /\ work' = [work EXCEPT ![w] = t] /\ work[w].phase = "idle"
      /\ overlapped' = IF cookie[b] = NoCart /\ InFlight(b) # {}
                       THEN overlapped \cup {b} ELSE overlapped
      /\ UNCHANGED <<gateway, cookie, owner, given, lines, state, orders, session, event,
                     oversold, recorded>>
  BY DEF EditBegin, orderVars, stripeVars
<1> HIDE DEF t
<1>4. work'[w] = t /\ \A v \in Worker \ {w} : work'[v] = work[v]
  BY <1>3 DEF IInv, Typed
<1>5. TaskOK(t)
  BY <1>1, <1>2, NamesAssumption DEF TaskOK, IInv, Baskets, First
<1>6. Room'
  BY <1>2, <1>3, RoomStays DEF IInv
<1>7. overlapped \subseteq overlapped' /\ overlapped' \subseteq Browser
  BY <1>3 DEF IInv, Typed
<1>8. Cartless'
  BY <1>1, <1>2, <1>3, <1>4, <1>7, NamesAssumption DEF IInv, Cartless, First, EditBegin
<1>9. ASSUME NEW v \in Worker, v # w, work[v].phase \in First, work[v].browser = b,
             cookie[b] = NoCart
      PROVE  b \in overlapped'
  BY <1>3, <1>9 DEF InFlight
<1>10. Alone'
  <2>1. CASE cookie[b] = NoCart
    BY <1>2, <1>3, <1>4, <1>7, <1>9, <2>1 DEF IInv, Alone
  <2>2. CASE cookie[b] # NoCart
    BY <1>2, <1>3, <1>4, <1>7, <2>2 DEF IInv, Alone, First
  <2> QED  BY <2>1, <2>2
<1> QED  BY <1>2, <1>3, <1>5, <1>6, <1>7, <1>8, <1>10, WorkOnly DEF IInv, Typed

LEMMA CreateKeeps ==
  ASSUME IInv, NEW w \in Worker, CartCreate(w)
  PROVE  IInv'
<1>1. work[w] \in Task /\ work[w].phase = "creating" /\ TaskOK(work[w])
  BY DEF CartCreate, IInv, Typed, Task, Tasks
<1>2. PICK b \in Browser : b = work[w].browser
  BY <1>1 DEF TaskOK, First
<1>3. PICK c \in Cart : /\ owner[c] = Nobody /\ owner' = [owner EXCEPT ![c] = b]
                        /\ work' = [work EXCEPT ![w].phase = "filling", ![w].cart = c]
  BY <1>2 DEF CartCreate
<1>4. PICK t \in Task : /\ t = [work[w] EXCEPT !.phase = "filling", !.cart = c]
                        /\ t.phase = "filling" /\ t.browser = b /\ t.cart = c
  <2> DEFINE t == [work[w] EXCEPT !.phase = "filling", !.cart = c]
  <2>1. t \in Task /\ t.phase = "filling" /\ t.browser = b /\ t.cart = c
    BY <1>1, <1>2 DEF Task, Phase
  <2> QED  BY <2>1
<1>5. work' = [work EXCEPT ![w] = t]
  BY <1>3, <1>4 DEF IInv, Typed
<1>6. UNCHANGED <<gateway, cookie, given, overlapped, lines, state, orders, session, event,
                  oversold, recorded>>
  BY DEF CartCreate, orderVars, stripeVars
<1>7. /\ owner' \in [Cart -> Browser \cup {Nobody}] /\ owner'[c] = b
      /\ \A k \in Cart : owner[k] \in Browser => owner'[k] = owner[k]
  BY <1>2, <1>3, NamesAssumption DEF IInv, Typed
<1>8. Typed'
  BY <1>4, <1>5, <1>6, <1>7 DEF IInv, Typed, Task
<1>9. TaskOK(t)'
  BY <1>4, <1>7 DEF TaskOK, First
<1>10. Room'
  BY <1>4, <1>5, <1>6, RoomStays DEF IInv
<1>11. Baskets'
  BY <1>6, <1>7 DEF IInv, Typed, Baskets
<1>12. Alone' /\ Cartless'
  <2>1. work[w].phase \in First \ {"viewing"} /\ t.browser = work[w].browser
    BY <1>1, <1>2, <1>4 DEF First
  <2> QED  BY <1>4, <1>5, <1>6, <2>1, FirstsStay
<1>13. CartIsNotLost'
  <2> SUFFICES ASSUME NEW k \in given, cookie[owner'[k]] # k, owner'[k] \notin overlapped
               PROVE  \E n \in Placed : /\ owner'[orders[n].cart] = owner'[k]
                                        /\ orders[n].paid \/ session[n] # "none"
    BY <1>6 DEF CartIsNotLost, Placed
  <2>1. k \in Cart /\ owner[k] \in Browser /\ owner'[k] = owner[k]
    BY <1>7 DEF IInv, Typed, Baskets
  <2>2. PICK n \in Placed : /\ owner[orders[n].cart] = owner[k]
                            /\ orders[n].paid \/ session[n] # "none"
    BY <2>1 DEF IInv, CartIsNotLost
  <2>3. orders[n].cart \in Cart
    BY OrdersTyped DEF IInv, Order
  <2> QED  BY <1>7, <2>1, <2>2, <2>3
<1> QED  BY <1>4, <1>5, <1>6, <1>7, <1>8, <1>9, <1>10, <1>11, <1>12, <1>13, RequestKeeps

(* The lines of a cart change, and the request ends or has a cart to hand. *)
LEMMA EditKeeps ==
  ASSUME IInv, NEW w \in Worker,
         \/ \E v \in Variant, qty \in 0 .. MAX_QTY : CartAdd(w, v, qty) \/ CartUpdate(w, v, qty)
         \/ CartClear(w)
  PROVE  IInv'
<1> DEFINE c == work[w].cart
<1>1. work[w] \in Task /\ TaskOK(work[w]) /\ work[w].phase \in {"editing", "filling"}
  BY DEF CartAdd, CartUpdate, CartClear, IInv, Typed, Task, Tasks
<1>2. c \in Cart /\ lines[c] \in Lines
  BY <1>1 DEF TaskOK, IInv, Typed
<1>3. UNCHANGED <<gateway, cookie, owner, given, overlapped, state, orders, session, event,
                  oversold, recorded>>
  BY DEF CartAdd, CartUpdate, CartClear, orderVars, stripeVars
<1>4. lines' \in [Cart -> Lines]
  <2>1. ASSUME NEW v \in Variant, NEW qty \in 0 .. MAX_QTY, CartAdd(w, v, qty)
        PROVE  lines' \in [Cart -> Lines]
    <3> DEFINE a == lines[c][v] + qty
               m == Min({a, MAX_QTY})
    <3>1. a \in Nat /\ MAX_QTY \in Nat
      BY <1>2, BoundsAssumption DEF Lines
    <3>2. m \in 0 .. MAX_QTY
      <4> HIDE DEF a
      <4>1. Min({a, MAX_QTY}) \in {a, MAX_QTY} /\ Min({a, MAX_QTY}) <= MAX_QTY
        BY <3>1, MinOfTwo
      <4> QED  BY <3>1, <4>1
    <3>3. lines' \in {lines, [lines EXCEPT ![c][v] = m]}
      BY <2>1 DEF CartAdd
    <3> HIDE DEF m, c
    <3>4. [lines[c] EXCEPT ![v] = m] \in Lines
      BY <1>2, <3>2 DEF Lines
    <3>5. [lines EXCEPT ![c][v] = m] = [lines EXCEPT ![c] = [lines[c] EXCEPT ![v] = m]]
      OBVIOUS
    <3>6. [lines EXCEPT ![c][v] = m] \in [Cart -> Lines]
      BY <1>2, <3>4, <3>5 DEF IInv, Typed
    <3> QED  BY <3>3, <3>6 DEF IInv, Typed
  <2>2. ASSUME NEW v \in Variant, NEW qty \in 0 .. MAX_QTY, CartUpdate(w, v, qty)
        PROVE  lines' \in [Cart -> Lines]
    BY <1>2, <2>2 DEF CartUpdate, IInv, Typed, Lines
  <2>3. CASE CartClear(w)
    <3>1. lines' = [lines EXCEPT ![c] = Empty] /\ Empty \in Lines
      BY <2>3, IdleIsTask DEF CartClear
    <3> HIDE DEF c
    <3> QED  BY <1>2, <3>1 DEF IInv, Typed
  <2> QED  BY <2>1, <2>2, <2>3
<1>5. PICK t \in Task :
        /\ work' = [work EXCEPT ![w] = t] /\ TaskOK(t)
        /\ t.phase \in {"idle", "handing"}
        /\ t.phase = "handing" => work[w].phase = "filling" /\ t.browser = work[w].browser
  <2>1. CASE work' = [work EXCEPT ![w] = Idle]
    BY <2>1, IdleIsTask
  <2>2. CASE work' = [work EXCEPT ![w] = [work[w] EXCEPT !.phase = "handing"]]
             /\ work[w].phase = "filling"
    <3> DEFINE t == [work[w] EXCEPT !.phase = "handing"]
    <3>1. t \in Task /\ t.phase = "handing" /\ t.browser = work[w].browser /\ t.cart = c
      BY <1>1 DEF Task, Phase
    <3>2. TaskOK(t)
      BY <1>1, <2>2, <3>1 DEF TaskOK, First
    <3> HIDE DEF t
    <3> QED  BY <2>2, <3>1, <3>2 DEF t
  <2>3. \/ work' = [work EXCEPT ![w] = Idle]
        \/ work' = [work EXCEPT ![w] = [work[w] EXCEPT !.phase = "handing"]]
           /\ work[w].phase = "filling"
    BY DEF CartAdd, CartUpdate, CartClear
  <2> QED  BY <2>1, <2>2, <2>3
<1>6. Typed'
  BY <1>3, <1>4, <1>5 DEF IInv, Typed, Task
<1>7. TaskOK(t)'
  BY <1>3, <1>5 DEF TaskOK, Placed
<1>8. Room'
  BY <1>3, <1>5, RoomStays DEF IInv
<1>9. Alone' /\ Cartless'
  BY <1>3, <1>5, FirstsStay DEF First
<1>10. Baskets' /\ CartIsNotLost'
  BY <1>3 DEF IInv, Baskets, CartIsNotLost, Placed
<1> QED  BY <1>3, <1>5, <1>6, <1>7, <1>8, <1>9, <1>10, RequestKeeps

(* An answer takes the browser's cart away only if first requests          *)
(* overlapped, or an order has it.                                         *)
LEMMA HandKeeps ==
  ASSUME IInv, NEW w \in Worker, Hand(w)
  PROVE  IInv'
<1> DEFINE b == work[w].browser
           c == work[w].cart
<1>1. /\ work[w] \in Task /\ work[w].phase \in {"viewing", "handing"} /\ TaskOK(work[w])
      /\ work[w].phase \in First
  BY DEF Hand, IInv, Typed, Task, Tasks, First
<1>2. /\ b \in Browser /\ c \in Cart \cup {NoCart} /\ c # NoSession
      /\ c \in Cart => work[w].phase = "handing" /\ owner[c] = b
  BY <1>1, NamesAssumption DEF TaskOK, Task, First, NoCart, NoSession
<1>3. b \in overlapped \/ cookie[b] \notin Cart
  BY <1>1 DEF IInv, Cartless
<1>4. \A v \in Worker \ {w} : work[v].phase \in First /\ work[v].browser = b =>
        b \in overlapped \/ c \notin Cart
  BY <1>1, <1>2 DEF IInv, Alone
<1>5. /\ cookie' = [cookie EXCEPT ![b] = c] /\ given' = given \cup ({c} \cap Cart)
      /\ work' = [work EXCEPT ![w] = Idle]
      /\ UNCHANGED <<gateway, owner, overlapped, lines, state, orders, session, event, oversold,
                     recorded>>
  BY DEF Hand, orderVars, stripeVars
<1> HIDE DEF b, c
<1>6. cookie'[b] = c /\ \A a \in Browser \ {b} : cookie'[a] = cookie[a]
  BY <1>2, <1>5 DEF IInv, Typed
<1>7. work'[w] = Idle /\ \A v \in Worker \ {w} : work'[v] = work[v]
  BY <1>5 DEF IInv, Typed
<1>8. Typed'
  BY <1>2, <1>5, IdleIsTask DEF IInv, Typed, Task
<1>9. Room'
  BY <1>5, IdleIsTask, RoomStays DEF IInv
<1>10. TaskOK(Idle)'
  BY IdleIsTask DEF TaskOK, First
<1>11. Baskets'
  <2>1. \A a \in Browser : cookie'[a] \in Cart => owner[cookie'[a]] = a
    BY <1>2, <1>6 DEF IInv, Baskets
  <2>2. \A k \in given' : owner[k] \in Browser
    BY <1>2, <1>5 DEF IInv, Baskets
  <2> QED  BY <1>5, <2>1, <2>2 DEF Baskets
<1>12. \A v \in Worker : work'[v].phase \in First => v # w /\ work'[v] = work[v]
  BY <1>7, IdleIsTask DEF First
<1>13. Alone'
  BY <1>5, <1>12 DEF IInv, Alone
<1>14. Cartless'
  <2> SUFFICES ASSUME NEW v \in Worker, v # w, work[v].phase \in First
               PROVE  /\ work[v].browser \in overlapped \/ cookie'[work[v].browser] \notin Cart
                      /\ work[v].phase # "viewing" => cookie'[work[v].browser] # NoSession
    BY <1>5, <1>12 DEF Cartless
  <2>1. work[v].browser \in Browser
    BY DEF IInv, Tasks, TaskOK
  <2>2. CASE work[v].browser = b
    BY <1>2, <1>4, <1>6, <2>2
  <2>3. CASE work[v].browser # b
    BY <1>6, <2>1, <2>3 DEF IInv, Cartless
  <2> QED  BY <2>2, <2>3
<1>15. CartIsNotLost'
  <2> SUFFICES ASSUME NEW k \in given', cookie'[owner[k]] # k, owner[k] \notin overlapped
               PROVE  \E n \in Placed : /\ owner[orders[n].cart] = owner[k]
                                        /\ orders[n].paid \/ session[n] # "none"
    BY <1>5 DEF CartIsNotLost, Placed
  <2>1. k \in given /\ k \in Cart /\ owner[k] \in Browser
    BY <1>2, <1>5, <1>6 DEF IInv, Typed, Baskets
  <2>2. cookie[owner[k]] # k
    BY <1>3, <1>6, <2>1
  <2> QED  BY <2>1, <2>2 DEF IInv, CartIsNotLost
<1> QED  BY <1>5, <1>8, <1>9, <1>10, <1>11, <1>13, <1>14, <1>15, IdleIsTask, RequestKeeps

(* sweep_abandoned_carts: a converted cart stays one.                      *)
LEMMA SweepKeeps ==
  ASSUME IInv, NEW c \in Cart, Sweep(c)
  PROVE  IInv'
<1>1. UNCHANGED <<gateway, cookie, owner, given, overlapped, lines, orders, session, event,
                  recorded, oversold, work>>
  BY DEF Sweep, orderVars, stripeVars
<1>2. /\ state' \in [Cart -> {"active", "converted", "abandoned"}]
      /\ \A k \in Cart : state[k] = "converted" => state'[k] = "converted"
  BY DEF Sweep, IInv, Typed
<1>3. Typed'
  BY <1>1, <1>2 DEF IInv, Typed
<1>4. ConvertedForGood'
  <2>1. \A n \in Placed : orders[n].cart \in Cart
    BY OrdersTyped DEF IInv, Order
  <2> QED  BY <1>1, <1>2, <2>1 DEF IInv, ConvertedForGood, Placed
<1>5. Tasks'
  BY <1>1 DEF IInv, Tasks, TaskOK, Placed
<1> QED  BY <1>1, <1>3, <1>4, <1>5
         DEF IInv, Room, Placing, Baskets, Alone, Cartless, OneCharge, StripeKnows,
         PaidWasCharged,
             ChargeIsNotForgotten, CartIsNotLost, Placed

-----------------------------------------------------------------------------
(* The checkout and the webhook.  First the steps that write no table.     *)
LEMMA SubmitKeeps ==
  ASSUME IInv, NEW w \in Worker, NEW b \in Browser, Submit(w, b)
  PROVE  IInv'
<1> DEFINE t == [Idle EXCEPT !.phase = "placing", !.browser = b,
                             !.cart = cookie[b], !.lines = lines[cookie[b]]]
<1>1. cookie[b] \in Cart /\ lines[cookie[b]] \in Lines /\ owner[cookie[b]] = b
  BY NamesAssumption DEF Submit, IInv, Typed, Baskets
<1>2. /\ t \in Task /\ t.phase = "placing" /\ t.cart = cookie[b] /\ t.browser = b
  BY <1>1, IdleIsTask DEF Task, Phase, Idle
<1>3. TaskOK(t)
  BY <1>1, <1>2 DEF TaskOK, First
<1>4. /\ work' = [work EXCEPT ![w] = t] /\ work[w].phase = "idle" /\ MayOrder
      /\ UNCHANGED <<gateway, cookie, owner, given, overlapped, lines, state, orders, session,
                     event, oversold,
                     recorded>>
  BY DEF Submit, cartVars, orderVars, stripeVars
<1> HIDE DEF t
<1>5. Room'
  <2>1. Placing' = Placing \cup {w} /\ w \notin Placing
    BY <1>2, <1>4 DEF IInv, Typed, Placing
  <2>2. Cardinality(Placing') = Cardinality(Placing) + 1
    BY <2>1, PlacingIsFinite, FS_AddElement
  <2>3. Len(orders) + Cardinality(Placing) < MaxOrders
    BY <1>4 DEF MayOrder, Placing
  <2>4. Len(orders) \in Nat
    BY DEF IInv, Typed
  <2> QED  BY <1>4, <2>2, <2>3, <2>4, PlacingIsFinite, BoundsAssumption DEF Room
<1>6. Alone' /\ Cartless'
  BY <1>2, <1>4, FirstsStay DEF First
<1> QED  BY <1>2, <1>3, <1>4, <1>5, <1>6, WorkOnly DEF IInv, Typed

LEMMA QuietKeeps ==
  ASSUME IInv, NEW w \in Worker,
         Crash(w) \/ Hook(w) \/ \E n \in OrderId : Deliver(w, n)
  PROVE  IInv'
<1>1. work[w] \in Task /\ TaskOK(work[w])
  BY DEF IInv, Typed, Task, Tasks
<1>2. CASE Crash(w)
  <2>1. /\ work' = [work EXCEPT ![w] = Idle]
        /\ UNCHANGED <<gateway, cookie, owner, given, overlapped, lines, state, orders, session,
                       event, oversold,
                       recorded>>
    BY <1>2 DEF Crash, cartVars, orderVars, stripeVars
  <2>2. Room'
    BY <2>1, IdleIsTask, RoomStays DEF IInv
  <2>3. Alone' /\ Cartless'
    BY <2>1, IdleIsTask, FirstsStay DEF First
  <2> QED  BY <2>1, <2>2, <2>3, IdleIsTask, WorkOnly DEF IInv, Typed
<1>3. CASE Hook(w)
  <2> DEFINE t == [work[w] EXCEPT !.phase = "settling"]
             n == work[w].order
  <2>1. t \in Task /\ t.phase = "settling" /\ t.order = work[w].order
    BY <1>1 DEF Task, Phase
  <2>2. TaskOK(t)
    BY <1>1, <1>3, <2>1 DEF TaskOK, Hook, First
  <2>3. /\ work' = [work EXCEPT ![w] = t]
        /\ UNCHANGED <<gateway, cookie, owner, given, overlapped, lines, state, orders, session,
                       event, oversold>>
    BY <1>3 DEF Hook, cartVars, orderVars, IInv, Typed
  <2>4. recorded' \subseteq OrderId
    BY <1>1, <1>3, PlacedAreIds DEF TaskOK, Hook, IInv, Typed
  <2> HIDE DEF t
  <2>5. Room'
    BY <2>1, <2>3, RoomStays DEF IInv
  <2>6. Alone' /\ Cartless'
    BY <2>1, <2>3, FirstsStay DEF First
  <2> QED  BY <2>1, <2>2, <2>3, <2>4, <2>5, <2>6, WorkOnly DEF IInv, Typed
<1>4. ASSUME NEW n \in OrderId, Deliver(w, n) PROVE IInv'
  <2> DEFINE t == [Idle EXCEPT !.phase = "hook", !.order = n]
  <2>1. n \in Placed /\ n \in 0 .. MaxOrders
    <3>1. n \in Placed
      BY <1>4 DEF Deliver, IInv, StripeKnows
    <3> QED  BY <3>1, BoundsAssumption DEF OrderId
  <2>2. t \in Task /\ t.phase = "hook" /\ t.order = n
    BY <2>1, IdleIsTask DEF Task, Phase, Idle
  <2>3. TaskOK(t)
    BY <2>1, <2>2 DEF TaskOK, First
  <2>4. /\ work' = [work EXCEPT ![w] = t]
        /\ UNCHANGED <<gateway, cookie, owner, given, overlapped, lines, state, orders, session,
                       event, oversold,
                       recorded>>
    BY <1>4 DEF Deliver, cartVars, orderVars, stripeVars
  <2> HIDE DEF t
  <2>5. Room'
    BY <2>2, <2>4, RoomStays DEF IInv
  <2>6. Alone' /\ Cartless'
    BY <2>2, <2>4, FirstsStay DEF First
  <2> QED  BY <2>2, <2>3, <2>4, <2>5, <2>6, WorkOnly DEF IInv, Typed
<1> QED  BY <1>2, <1>3, <1>4

-----------------------------------------------------------------------------
(* place_order: the order is new, so nobody else charges it.               *)
LEMMA PlaceKeeps ==
  ASSUME IInv, NEW w \in Worker, PlaceOrder(w)
  PROVE  IInv'
<1> DEFINE o == [cart |-> work[w].cart, lines |-> work[w].lines, paid |-> FALSE]
           N == Len(orders) + 1
           t == [work[w] EXCEPT !.phase = "charging", !.order = N]
<1>1. work[w] \in Task /\ work[w].phase = "placing" /\ TaskOK(work[w])
  BY DEF PlaceOrder, IInv, Typed, Task, Tasks
<1>2. /\ work[w].cart \in Cart /\ work[w].browser \in Browser
      /\ owner[work[w].cart] = work[w].browser
  BY <1>1 DEF TaskOK
<1>3. orders \in Seq(Order) /\ Len(orders) \in Nat /\ Placed = 1 .. Len(orders)
      /\ Placed \subseteq OrderId
  BY PlacedAreIds DEF IInv, Typed, Order
<1>4. o \in Order /\ o.cart = work[w].cart /\ o.paid = FALSE
  BY <1>1, <1>2 DEF Order, Task
<1>5. /\ orders' = Append(orders, o)
      /\ state' = [state EXCEPT ![work[w].cart] = "converted"]
      /\ UNCHANGED <<gateway, cookie, owner, given, overlapped, lines, reserved, session, event,
                     recorded, oversold>>
  BY DEF PlaceOrder, stripeVars
<1> HIDE DEF o
<1>6. /\ orders' \in Seq(Order) /\ Len(orders') = N /\ Placed' = 1 .. N
      /\ orders'[N] = o /\ \A k \in Placed : orders'[k] = orders[k]
  <2> HIDE DEF Order
  <2> QED  BY <1>3, <1>4, <1>5 DEF Placed
<1>7. Placing' = Placing \ {w} /\ w \in Placing
  BY <1>1 DEF PlaceOrder, IInv, Typed, Placing
<1>8. Cardinality(Placing') = Cardinality(Placing) - 1
  BY <1>7, PlacingIsFinite, FS_RemoveElement
<1>9. Room'
  BY <1>3, <1>6, <1>8, PlacingIsFinite, BoundsAssumption DEF IInv, Room
<1>10. N \in OrderId /\ N \notin Placed /\ Placed' = Placed \cup {N}
  <2>1. Cardinality(Placing) # 0
    BY <1>7, PlacingIsFinite, FS_EmptySet
  <2>2. N <= MaxOrders
    BY <1>3, <2>1, PlacingIsFinite, BoundsAssumption DEF IInv, Room
  <2> QED  BY <1>3, <1>6, <2>2, BoundsAssumption DEF OrderId
<1>11. t \in Task /\ t.phase = "charging" /\ t.order = N /\ t.cart = work[w].cart
       /\ t.browser = work[w].browser
  <2>1. N \in 0 .. MaxOrders
    BY <1>10, BoundsAssumption DEF OrderId
  <2> HIDE DEF N
  <2> QED  BY <1>1, <2>1 DEF Task, Phase
<1>12. work' = [work EXCEPT ![w] = t]
  BY <1>1, <1>6 DEF PlaceOrder, Task, IInv, Typed
<1> HIDE DEF t, N
<1>13. work'[w] = t /\ \A v \in Worker \ {w} : work'[v] = work[v]
  BY <1>12 DEF IInv, Typed
<1>14. session[N] = "none" /\ event[N] = "none"
  BY <1>10 DEF IInv, StripeKnows
<1>15. Typed'
  BY <1>2, <1>5, <1>6, <1>11, <1>12 DEF IInv, Typed, Task, Order
<1>16. Tasks'
  <2>1. ASSUME NEW v \in Worker, v # w PROVE TaskOK(work[v])'
    <3>1. TaskOK(work[v]) /\ work'[v] = work[v]
      BY <1>13, <2>1 DEF IInv, Tasks
    <3> QED  BY <1>5, <1>6, <1>10, <3>1 DEF TaskOK
  <2>2. TaskOK(work[w])'
    BY <1>2, <1>4, <1>5, <1>6, <1>10, <1>11, <1>13, <1>14 DEF TaskOK, First
  <2> QED  BY <2>1, <2>2 DEF Tasks
<1>17. OneCharge'
  <2>1. ASSUME NEW v \in Worker, v # w, work[v].phase = "charging" PROVE work[v].order # N
    BY <1>10, <2>1 DEF IInv, Tasks, TaskOK
  <2> QED  BY <1>11, <1>13, <2>1 DEF IInv, OneCharge
<1>18. StripeKnows'
  BY <1>5, <1>10 DEF IInv, StripeKnows
<1>19. ConvertedForGood'
  <2>1. \A k \in Placed : orders[k].cart \in Cart
    BY OrdersTyped DEF IInv, Order
  <2>2. state'[work[w].cart] = "converted"
        /\ \A c \in Cart : state[c] = "converted" => state'[c] = "converted"
    BY <1>2, <1>5 DEF IInv, Typed
  <2> QED  BY <1>4, <1>6, <1>10, <2>1, <2>2 DEF IInv, ConvertedForGood
<1>20. PaidWasCharged'
  BY <1>4, <1>5, <1>6, <1>10 DEF IInv, PaidWasCharged
<1>21. ChargeIsNotForgotten'
  BY <1>5, <1>6, <1>10 DEF IInv, ChargeIsNotForgotten
<1>22. CartIsNotLost'
  BY <1>5, <1>6, <1>10 DEF IInv, CartIsNotLost
<1>23. Alone' /\ Cartless'
  BY <1>5, <1>11, <1>12, FirstsStay DEF First
<1> QED  BY <1>5, <1>9, <1>15, <1>16, <1>17, <1>18, <1>19, <1>20, <1>21, <1>22, <1>23
         DEF IInv, Baskets

-----------------------------------------------------------------------------
(* mark_paid: orders stay, and what is paid stays paid.                    *)
LEMMA MarkPaidIs ==
  ASSUME Typed, NEW n \in Placed, MarkPaid(n) \/ OutOfStock(n)
  PROVE  /\ orders' \in Seq(Order) /\ Len(orders') = Len(orders) /\ Placed' = Placed
         /\ \A k \in Placed : /\ orders'[k].cart = orders[k].cart
                              /\ orders[k].paid => orders'[k].paid
                              /\ k # n => orders'[k] = orders[k]
         /\ MarkPaid(n) => orders'[n].paid
<1>1. orders \in Seq(Order) /\ orders[n] \in Order /\ n \in 1 .. Len(orders)
      /\ Placed = 1 .. Len(orders)
  BY OrdersTyped DEF Typed, Order, Placed
<1>2. CASE orders' = orders /\ (MarkPaid(n) => orders[n].paid)
  <2> HIDE DEF Order
  <2> QED  BY <1>1, <1>2 DEF Placed
<1>3. CASE orders' = [orders EXCEPT ![n].paid = TRUE] /\ MarkPaid(n)
  <2> DEFINE o == [orders[n] EXCEPT !.paid = TRUE]
  <2>1. o \in Order /\ o.cart = orders[n].cart /\ o.paid = TRUE
    BY <1>1 DEF Order
  <2>2. orders' = [orders EXCEPT ![n] = o]
    BY <1>3
  <2> HIDE DEF o, Order
  <2>3. orders' \in Seq(Order) /\ Len(orders') = Len(orders) /\ orders'[n] = o
        /\ \A k \in 1 .. Len(orders) : k # n => orders'[k] = orders[k]
    BY <1>1, <2>1, <2>2
  <2> QED  BY <1>1, <2>1, <2>3 DEF Placed
<1> QED  BY <1>2, <1>3 DEF MarkPaid, OutOfStock, orderVars

(* A step that may settle order n, ends at t, and leaves the carts and     *)
(* Stripe's sessions alone.                                                *)
LEMMA SettleKeeps ==
  ASSUME IInv, NEW w \in Worker, NEW t \in Task, t.phase \in {"idle", "answering"},
         NEW n \in Placed, TaskOK(t)', work' = [work EXCEPT ![w] = t],
         orders' = orders \/ MarkPaid(n) \/ OutOfStock(n),
         gateway = "stripe" /\ orders' # orders => session[n] = "complete",
         oversold \subseteq oversold', oversold' \subseteq OrderId,
         event' \in [OrderId -> {"none", "completed", "expired"}],
         \A k \in OrderId : event'[k] # event[k] =>
           /\ session[k] # "none"
           /\ session[k] = "complete" => (k \in Placed /\ orders'[k].paid) \/ k \in oversold',
         UNCHANGED <<gateway, cookie, owner, given, overlapped, lines, state, session, recorded>>
  PROVE  IInv'
<1>1. /\ orders' \in Seq(Order) /\ Len(orders') = Len(orders) /\ Placed' = Placed
      /\ \A k \in Placed : /\ orders'[k].cart = orders[k].cart
                           /\ orders[k].paid => orders'[k].paid
                           /\ k # n => orders'[k] = orders[k]
  <2>1. CASE orders' = orders
    BY <2>1 DEF IInv, Typed, Order, Placed
  <2> QED  BY <2>1, MarkPaidIs DEF IInv
<1>2. work'[w] = t /\ \A v \in Worker \ {w} : work'[v] = work[v]
  BY DEF IInv, Typed
<1>3. Room'
  BY <1>1, RoomStays DEF IInv
<1>4. Typed'
  BY <1>1 DEF IInv, Typed, Task, Order
<1>5. Tasks'
  <2>1. ASSUME NEW v \in Worker, v # w PROVE TaskOK(work[v])'
    <3>1. TaskOK(work[v]) /\ work'[v] = work[v]
      BY <1>2, <2>1 DEF IInv, Tasks
    <3> QED  BY <1>1, <3>1 DEF TaskOK
  <2>2. TaskOK(work[w])'
    BY <1>2 DEF TaskOK
  <2> QED  BY <2>1, <2>2 DEF Tasks
<1>6. OneCharge'
  BY <1>2 DEF IInv, OneCharge
<1>7. StripeKnows'
  BY <1>1 DEF IInv, StripeKnows
<1>8. ConvertedForGood' /\ CartIsNotLost'
  BY <1>1 DEF IInv, ConvertedForGood, CartIsNotLost
<1>9. PaidWasCharged'
  BY <1>1 DEF IInv, PaidWasCharged
<1>10. ChargeIsNotForgotten'
  BY <1>1 DEF IInv, ChargeIsNotForgotten
<1>11. Alone' /\ Cartless'
  BY FirstsStay DEF First
<1> QED  BY <1>3, <1>4, <1>5, <1>6, <1>7, <1>8, <1>9, <1>10, <1>11 DEF IInv, Baskets

(* StubGateway.charge and the end of the webhook.                          *)
LEMMA StubKeeps ==
  ASSUME IInv, NEW w \in Worker, ChargeStub(w)
  PROVE  IInv'
<1> DEFINE n == work[w].order
<1>1. work[w] \in Task /\ work[w].phase = "charging" /\ TaskOK(work[w])
  BY DEF ChargeStub, IInv, Typed, Task, Tasks
<1>2. n \in Placed
  BY <1>1 DEF TaskOK
<1>3. /\ gateway = "stub"
      /\ UNCHANGED <<gateway, cookie, owner, given, overlapped, lines, state, session, event,
                     recorded, oversold>>
  BY DEF ChargeStub, cartVars, stripeVars
<1>4. oversold' \subseteq OrderId /\ event' \in [OrderId -> {"none", "completed", "expired"}]
  BY <1>3 DEF IInv, Typed
<1>5. CASE MarkPaid(n) /\ work' = [work EXCEPT ![w].phase = "answering"]
  <2>1. PICK t \in Task : /\ t = [work[w] EXCEPT !.phase = "answering"]
                          /\ t.phase = "answering" /\ t.order = n
                          /\ t.cart = work[w].cart /\ t.browser = work[w].browser
    BY <1>1, AnsweringTask
  <2>2. work' = [work EXCEPT ![w] = t]
    BY <1>5, <2>1
  <2>3. Placed' = Placed /\ orders'[n].cart = orders[n].cart /\ orders'[n].paid
    BY <1>2, <1>5, MarkPaidIs DEF IInv
  <2>4. TaskOK(t)'
    BY <1>1, <1>2, <1>3, <2>1, <2>3 DEF TaskOK, First
  <2> HIDE DEF n
  <2> QED  BY <1>2, <1>3, <1>4, <1>5, <2>1, <2>2, <2>4, SettleKeeps
<1>6. CASE OutOfStock(n) /\ work' = [work EXCEPT ![w] = Idle]
  <2>1. TaskOK(Idle)'
    BY IdleIsTask DEF TaskOK, First
  <2> HIDE DEF n
  <2> QED  BY <1>2, <1>3, <1>4, <1>6, <2>1, IdleIsTask, SettleKeeps
<1> QED  BY <1>5, <1>6 DEF ChargeStub

LEMMA HookSettleKeeps ==
  ASSUME IInv, NEW w \in Worker, HookSettle(w)
  PROVE  IInv'
<1> DEFINE n == work[w].order
<1>1. TaskOK(work[w]) /\ work[w].phase = "settling"
  BY DEF HookSettle, IInv, Tasks
<1>2. n \in Placed /\ n \in OrderId
  BY <1>1, PlacedAreIds DEF TaskOK, IInv
<1>3. /\ work' = [work EXCEPT ![w] = Idle]
      /\ event' \in {event, [event EXCEPT ![n] = "none"]}
      /\ UNCHANGED <<gateway, cookie, owner, given, overlapped, lines, state, session, recorded>>
  BY DEF HookSettle, cartVars
<1>4. TaskOK(Idle)'
  BY IdleIsTask DEF TaskOK, First
<1>5. \/ session[n] = "complete" /\ MarkPaid(n) /\ oversold' = oversold
      \/ session[n] = "complete" /\ OutOfStock(n) /\ oversold' = oversold \cup {n}
      \/ session[n] # "complete" /\ orders' = orders /\ oversold' = oversold
  BY DEF HookSettle, Completes, orderVars
<1> HIDE DEF n
<1>6. /\ event' \in [OrderId -> {"none", "completed", "expired"}]
      /\ \A k \in OrderId : k # n => event'[k] = event[k]
      /\ event'[n] # event[n] => event[n] # "none"
  BY <1>2, <1>3 DEF IInv, Typed
<1>7. orders' = orders \/ MarkPaid(n) \/ OutOfStock(n)
  BY <1>5
<1>8. oversold \subseteq oversold' /\ oversold' \subseteq OrderId
  BY <1>2, <1>5 DEF IInv, Typed
<1>9. gateway = "stripe" /\ orders' # orders => session[n] = "complete"
  BY <1>5 
<1>10. ASSUME NEW k \in OrderId, event'[k] # event[k]
       PROVE  /\ session[k] # "none"
              /\ session[k] = "complete" => (k \in Placed /\ orders'[k].paid) \/ k \in oversold'
  <2>1. k = n /\ event[n] # "none" /\ session[n] # "none"
    BY <1>6, <1>10 DEF IInv, StripeKnows
  <2>2. MarkPaid(n) => orders'[n].paid
    BY <1>2, MarkPaidIs DEF IInv
  <2> QED  BY <1>2, <1>5, <2>1, <2>2
<1> QED  BY <1>2, <1>3, <1>4, <1>6, <1>7, <1>8, <1>9, <1>10, IdleIsTask, SettleKeeps

(* Stripe opens a session for an order nobody else charges, and the        *)
(* customer ends it.                                                       *)
LEMMA SessionKeeps ==
  ASSUME IInv, NEW n \in Placed,
         session' \in [OrderId -> {"none", "open", "complete", "expired"}],
         event' \in [OrderId -> {"none", "completed", "expired"}],
         \A k \in OrderId : k # n => session'[k] = session[k] /\ event'[k] = event[k],
         session'[n] = session[n] \/ session'[n] # "none",
         event'[n] # "none" => session'[n] # "none",
         session[n] = "complete" => session'[n] = "complete" /\ event'[n] = event[n],
         session[n] # "complete" /\ session'[n] = "complete" => event'[n] = "completed",
         Typed', Room', Alone', Cartless', Tasks', OneCharge',
         UNCHANGED <<gateway, cookie, owner, given, overlapped, lines, state, orders, recorded,
                     oversold>>
  PROVE  IInv'
<1>1. n \in OrderId /\ Placed \subseteq OrderId /\ Placed' = Placed
  BY PlacedAreIds DEF IInv, Placed
<1>2. StripeKnows'
  BY <1>1 DEF IInv, StripeKnows
<1>3. PaidWasCharged'
  BY <1>1 DEF IInv, PaidWasCharged
<1>4. ChargeIsNotForgotten'
  BY <1>1 DEF IInv, ChargeIsNotForgotten
<1>5. CartIsNotLost'
  BY <1>1 DEF IInv, CartIsNotLost
<1> QED  BY <1>1, <1>2, <1>3, <1>4, <1>5 DEF IInv, Baskets, ConvertedForGood

LEMMA StripeKeeps ==
  ASSUME IInv, NEW w \in Worker, ChargeStripe(w)
  PROVE  IInv'
<1> DEFINE n == work[w].order
<1>1. work[w] \in Task /\ work[w].phase = "charging" /\ TaskOK(work[w])
  BY DEF ChargeStripe, IInv, Typed, Task, Tasks
<1>2. n \in Placed /\ n \in OrderId /\ session[n] = "none" /\ event[n] = "none"
  BY <1>1, PlacedAreIds DEF TaskOK, IInv, StripeKnows
<1>3. UNCHANGED <<gateway, cookie, owner, given, overlapped, lines, state, orders, event,
                  recorded, oversold>>
  BY DEF ChargeStripe, cartVars, orderVars
<1>4. PICK t \in Task :
        /\ work' = [work EXCEPT ![w] = t] /\ session' \in {session,
         [session EXCEPT ![n] = "open"]}
        /\ \/ t = Idle
           \/ /\ t.phase = "answering" /\ t.order = n /\ session'[n] = "open"
              /\ t.cart = work[w].cart /\ t.browser = work[w].browser
  <2>1. CASE work' = [work EXCEPT ![w] = Idle] /\ session' \in {session,
     [session EXCEPT ![n] = "open"]}
    <3> HIDE DEF n
    <3> QED  BY <2>1, IdleIsTask
  <2>2. CASE work' = [work EXCEPT ![w].phase = "answering"] /\ session' = [session EXCEPT ![n] = "open"]
    <3>1. PICK t \in Task : /\ t = [work[w] EXCEPT !.phase = "answering"]
                            /\ t.phase = "answering" /\ t.order = n
                            /\ t.cart = work[w].cart /\ t.browser = work[w].browser
      BY <1>1, AnsweringTask
    <3>2. work' = [work EXCEPT ![w] = t] /\ session'[n] = "open"
      BY <1>2, <2>2, <3>1 DEF IInv, Typed
    <3> HIDE DEF n
    <3> QED  BY <2>2, <3>1, <3>2
  <2> QED  BY <2>1, <2>2 DEF ChargeStripe
<1> HIDE DEF n
<1>5. /\ session' \in [OrderId -> {"none", "open", "complete", "expired"}]
      /\ \A k \in OrderId : k # n => session'[k] = session[k]
      /\ session'[n] \in {"none", "open"}
  BY <1>2, <1>4 DEF IInv, Typed
<1>6. t.phase \in {"idle", "answering"} /\ work'[w] = t
      /\ \A v \in Worker \ {w} : work'[v] = work[v]
  BY <1>4, IdleIsTask DEF IInv, Typed
<1>7. Room'
  BY <1>3, <1>4, <1>6, RoomStays DEF IInv
<1>8. Typed'
  BY <1>3, <1>4, <1>5 DEF IInv, Typed, Task
<1>9. OneCharge'
  BY <1>6 DEF IInv, OneCharge
<1>10. Tasks'
  <2>1. ASSUME NEW v \in Worker, v # w PROVE TaskOK(work[v])'
    <3>1. TaskOK(work[v]) /\ work'[v] = work[v]
      BY <1>6, <2>1 DEF IInv, Tasks
    <3>2. work[v].phase = "charging" => work[v].order # n
      BY <1>1, <2>1 DEF IInv, OneCharge, n
    <3>3. work[v].phase \in {"charging", "answering"} => work[v].order \in OrderId
      BY <3>1, PlacedAreIds DEF TaskOK, IInv
    <3>4. work[v].phase = "charging" => session'[work[v].order] = "none"
      BY <1>5, <3>1, <3>2, <3>3 DEF TaskOK
    <3>5. work[v].phase = "answering" =>
            orders[work[v].order].paid \/ session'[work[v].order] # "none"
      BY <1>2, <1>5, <3>1, <3>3 DEF TaskOK
    <3> QED  BY <1>3, <3>1, <3>4, <3>5 DEF TaskOK, Placed
  <2>2. TaskOK(work[w])'
    <3>1. CASE t = Idle
      BY <1>6, <3>1, IdleIsTask DEF TaskOK, First
    <3>2. CASE t # Idle
      BY <1>1, <1>2, <1>3, <1>4, <1>6, <3>2 DEF TaskOK, First, Placed, n
    <3> QED  BY <3>1, <3>2
  <2> QED  BY <2>1, <2>2 DEF Tasks
<1>11. event' \in [OrderId -> {"none", "completed", "expired"}]
  BY <1>3 DEF IInv, Typed
<1>12. /\ session'[n] = session[n] \/ session'[n] # "none"
       /\ event'[n] # "none" => session'[n] # "none"
       /\ ~(session[n] = "complete") /\ ~(session'[n] = "complete")
  BY <1>2, <1>3, <1>5
<1>13. Alone' /\ Cartless'
  BY <1>3, <1>4, <1>6, FirstsStay DEF First
<1> QED  BY <1>2, <1>3, <1>5, <1>7, <1>8, <1>9, <1>10, <1>11, <1>12, <1>13, SessionKeeps

LEMMA PayKeeps ==
  ASSUME IInv, NEW n \in OrderId, Pay(n)
  PROVE  IInv'
<1>1. n \in Placed /\ session[n] = "open"
  BY DEF Pay, IInv, StripeKnows
<1>2. UNCHANGED <<gateway, cookie, owner, given, overlapped, lines, state, orders, recorded,
                  oversold, work>>
  BY DEF Pay, cartVars, orderVars
<1>3. /\ session' \in [OrderId -> {"none", "open", "complete", "expired"}]
      /\ event' \in [OrderId -> {"none", "completed", "expired"}]
      /\ \A k \in OrderId : k # n => session'[k] = session[k] /\ event'[k] = event[k]
      /\ session'[n] \in {"complete", "expired"}
      /\ session'[n] = "complete" => event'[n] = "completed"
  BY DEF Pay, IInv, Typed
<1>4. Typed' /\ Room' /\ OneCharge' /\ Alone' /\ Cartless'
  BY <1>2, <1>3 DEF IInv, Typed, Room, Placing, OneCharge, Alone, Cartless
<1>5. Tasks'
  <2>1. ASSUME NEW v \in Worker PROVE TaskOK(work[v])'
    <3>1. TaskOK(work[v]) /\ Placed \subseteq OrderId
      BY PlacedAreIds DEF IInv, Tasks
    <3> QED  BY <1>1, <1>2, <1>3, <3>1 DEF TaskOK, Placed
  <2> QED  BY <2>1 DEF Tasks
<1> QED  BY <1>1, <1>2, <1>3, <1>4, <1>5, SessionKeeps

(* The answer takes the cart away: its order is paid or Stripe's.          *)
LEMMA AnswerKeeps ==
  ASSUME IInv, NEW w \in Worker, Answer(w)
  PROVE  IInv'
<1> DEFINE b == work[w].browser
           m == work[w].order
<1>1. work[w] \in Task /\ work[w].phase = "answering" /\ TaskOK(work[w])
  BY DEF Answer, IInv, Typed, Task, Tasks
<1>2. /\ b \in Browser /\ m \in Placed /\ owner[orders[m].cart] = b
      /\ orders[m].paid \/ session[m] # "none"
  BY <1>1 DEF TaskOK
<1>3. /\ cookie' = [cookie EXCEPT ![b] = NoCart] /\ work' = [work EXCEPT ![w] = Idle]
      /\ UNCHANGED <<gateway, owner, given, overlapped, lines, state, orders, session, event,
                     recorded, oversold>>
  BY DEF Answer, orderVars, stripeVars
<1> HIDE DEF b, m
<1>4. cookie'[b] = NoCart /\ \A a \in Browser \ {b} : cookie'[a] = cookie[a]
  BY <1>2, <1>3 DEF IInv, Typed
<1>5. work'[w] = Idle /\ \A v \in Worker \ {w} : work'[v] = work[v]
  BY <1>3 DEF IInv, Typed
<1>6. Room'
  BY <1>3, IdleIsTask, RoomStays DEF IInv
<1>7. Typed'
  BY <1>3, IdleIsTask DEF IInv, Typed, Task
<1>8. Tasks'
  <2>1. ASSUME NEW v \in Worker PROVE TaskOK(work[v])'
    <3>1. TaskOK(work'[v])
      BY <1>5, IdleIsTask DEF IInv, Tasks
    <3> QED  BY <1>3, <3>1 DEF TaskOK, Placed
  <2> QED  BY <2>1 DEF Tasks
<1>9. OneCharge' /\ Baskets'
  BY <1>3, <1>4, <1>5, IdleIsTask, NamesAssumption DEF IInv, OneCharge, Baskets
<1>10. CartIsNotLost'
  <2> SUFFICES ASSUME NEW c \in given, cookie'[owner[c]] # c, owner[c] \notin overlapped
               PROVE  \E n \in Placed : /\ owner[orders[n].cart] = owner[c]
                                        /\ orders[n].paid \/ session[n] # "none"
    BY <1>3 DEF CartIsNotLost, Placed
  <2>1. CASE owner[c] = b
    BY <1>2, <2>1
  <2>2. CASE owner[c] # b
    <3>1. cookie[owner[c]] # c
      BY <1>4, <2>2 DEF IInv, Baskets
    <3> QED  BY <3>1 DEF IInv, CartIsNotLost
  <2> QED  BY <2>1, <2>2
<1>11. \A v \in Worker : work'[v].phase \in First => v # w /\ work'[v] = work[v]
  BY <1>5, IdleIsTask DEF First
<1>12. \A a \in Browser : \/ cookie'[a] = cookie[a]
                          \/ cookie'[a] \notin Cart /\ cookie'[a] # NoSession
  <2>1. NoCart \notin Cart /\ NoCart # NoSession
    <3>1. NoCart # NoSession
      BY DEF NoCart, NoSession
    <3> QED  BY <3>1, NamesAssumption
  <2>2. ASSUME NEW a \in Browser, a # b PROVE cookie'[a] = cookie[a]
    BY <1>4, <2>2
  <2>3. ASSUME NEW a \in Browser, a = b PROVE cookie'[a] \notin Cart /\ cookie'[a] # NoSession
    BY <1>4, <2>1, <2>3
  <2> QED  BY <2>2, <2>3
<1>13. Alone' /\ Cartless'
  <2>1. Alone'
    BY <1>3, <1>11 DEF IInv, Alone
  <2>2. ASSUME NEW v \in Worker, work[v].phase \in First PROVE work[v].browser \in Browser
    BY <2>2 DEF IInv, Tasks, TaskOK
  <2>3. Cartless'
    BY <1>3, <1>11, <1>12, <2>2 DEF IInv, Cartless
  <2> QED  BY <2>1, <2>3
<1> QED  BY <1>3, <1>6, <1>7, <1>8, <1>9, <1>10, <1>13
         DEF IInv, StripeKnows, ConvertedForGood, PaidWasCharged, ChargeIsNotForgotten, Placed

-----------------------------------------------------------------------------
LEMMA InitHolds == Init => IInv
<1> SUFFICES ASSUME Init PROVE IInv
  OBVIOUS
<1>1. orders = <<>> /\ Len(orders) = 0 /\ Placed = {}
  BY DEF Init, Placed
<1>2. Typed
  BY <1>1, IdleIsTask DEF Init, Typed, Task
<1>3. \A w \in Worker : work[w] = Idle
  BY DEF Init
<1>4. Room
  <2>1. Placing = {}
    BY <1>3, IdleIsTask DEF Placing
  <2> QED  BY <1>1, <2>1, FS_EmptySet, BoundsAssumption DEF Room
<1>5. Tasks /\ OneCharge /\ Alone /\ Cartless
  BY <1>3, IdleIsTask DEF Tasks, OneCharge, Alone, Cartless, First
<1>6. Baskets
  BY NamesAssumption DEF Init, Baskets
<1> QED  BY <1>1, <1>2, <1>4, <1>5, <1>6
         DEF Init, IInv, StripeKnows, ConvertedForGood, PaidWasCharged,
             ChargeIsNotForgotten, CartIsNotLost

LEMMA NextKeeps == IInv /\ [Next]_vars => IInv'
<1> SUFFICES ASSUME IInv, [Next]_vars PROVE IInv'
  OBVIOUS
<1>1. CASE UNCHANGED vars
  BY <1>1 DEF vars, cartVars, orderVars, stripeVars, IInv, Typed, Room, Placing, Baskets, Alone,
     Cartless, Tasks, TaskOK, OneCharge, StripeKnows, ConvertedForGood, PaidWasCharged,
         ChargeIsNotForgotten,
     CartIsNotLost, Placed
<1>2. CASE Next
  <2>1. ASSUME NEW w \in Worker, CartStep(w) PROVE IInv'
    BY <2>1, ViewKeeps, EditBeginKeeps, CreateKeeps, EditKeeps, HandKeeps DEF CartStep
  <2> QED  BY <1>2, <2>1, SweepKeeps, SubmitKeeps, QuietKeeps, PlaceKeeps, StubKeeps, StripeKeeps,
              AnswerKeeps, HookSettleKeeps, PayKeeps DEF Next, Step
<1> QED  BY <1>1, <1>2

(* In every state the requests, orders, carts, sessions and events agree   *)
(* with one another as IInv says (web/app.py, web/orders.py).              *)
THEOREM Invariance == Spec => []IInv
BY InitHolds, NextKeeps, PTL DEF Spec

(* A cart an order was placed from is never swept to 'abandoned', however  *)
(* checkouts, edits and the sweep overlap (worker/main.py:188).            *)
THEOREM SalesStaySales == Spec => []ConvertedForGood
<1>1. IInv => ConvertedForGood
  BY DEF IInv
<1> QED  BY <1>1, Invariance, PTL

(* With Stripe only a completed session makes an order paid, whatever      *)
(* events arrive in whatever order (web/app.py, stripe_webhook).           *)
THEOREM OnlyPaymentsPay == Spec => []PaidWasCharged
<1>1. IInv => PaidWasCharged
  BY DEF IInv
<1> QED  BY <1>1, Invariance, PTL

(* A completed session is settled, logged as oversold or still delivered,  *)
(* through crashes between the webhook's transactions and lost answers.    *)
THEOREM MoneyIsRemembered == Spec => []ChargeIsNotForgotten
<1>1. IInv => ChargeIsNotForgotten
  BY DEF IInv
<1> QED  BY <1>1, Invariance, PTL

(* A browser whose first requests did not overlap loses a cart it was      *)
(* given only to an order of its own, paid or taken over by Stripe         *)
(* (web/app.py:341): however other requests overlap, crash or go           *)
(* unanswered.                                                             *)
THEOREM CartsAreKept == Spec => []CartIsNotLost
<1>1. IInv => CartIsNotLost
  BY DEF IInv
<1> QED  BY <1>1, Invariance, PTL

-----------------------------------------------------------------------------
(* A set of numbers that is not empty has a least one: induction, for the  *)
(* facts below.                                                            *)
LEMMA LeastNumber ==
  ASSUME NEW T \in SUBSET Nat, T # {}
  PROVE  \E n \in T : \A k \in Nat : k < n => k \notin T
<1>1. IsWellFoundedOn(OpToRel(<, Nat), Nat)
  BY NatLessThanWellFounded
<1>2. PICK n \in T : \A k \in T : <<k, n>> \notin OpToRel(<, Nat)
  BY <1>1, WFMin
<1>3. \A k \in T : ~(k < n)
  BY <1>2 DEF OpToRel
<1> QED  BY <1>3

(* MapThenSumSet takes the members one at a time; f holds the sums so far. *)
OneMore(l, f, s) ==
  IF s = {} THEN 0
  ELSE LET v == CHOOSE v \in s : TRUE IN l[v] + f[s \ {v}]

LEMMA Smaller ==
  ASSUME NEW s \in SUBSET Variant, s # {}
  PROVE  LET v == CHOOSE v \in s : TRUE
         IN  /\ v \in s /\ s \ {v} \in SUBSET Variant
             /\ Cardinality(s) \in Nat /\ Cardinality(s \ {v}) = Cardinality(s) - 1
             /\ Cardinality(s \ {v}) \in Nat
<1> DEFINE v == CHOOSE v \in s : TRUE
<1>1. v \in s
  OBVIOUS
<1>2. IsFiniteSet(s) /\ IsFiniteSet(s \ {v})
  BY FinitenessAssumption, FS_Subset
<1> HIDE DEF v
<1>3. Cardinality(s \ {v}) = Cardinality(s) - 1
  BY <1>1, <1>2, FS_RemoveElement
<1>4. Cardinality(s \ {v}) \in Nat /\ Cardinality(s) \in Nat
  BY <1>2, FS_CardinalityType
<1> QED  BY <1>1, <1>3, <1>4 DEF v

(* Sums over the sets of at most n variants exist.                          *)
LEMMA PartialSum ==
  ASSUME NEW l \in Lines, NEW n \in Nat
  PROVE  \E f \in [SUBSET Variant -> Nat] :
           \A s \in SUBSET Variant : Cardinality(s) <= n => f[s] = OneMore(l, f, s)
<1> DEFINE Upto(k) == \E f \in [SUBSET Variant -> Nat] :
                        \A s \in SUBSET Variant : Cardinality(s) <= k => f[s] = OneMore(l, f, s)
           Bad == {k \in Nat : ~Upto(k)}
<1>1. SUFFICES ASSUME Bad # {} PROVE FALSE
  OBVIOUS
<1>2. PICK k \in Bad : \A j \in Nat : j < k => j \notin Bad
  <2> HIDE DEF Bad
  <2>1. Bad \in SUBSET Nat
    BY DEF Bad
  <2> QED  BY <1>1, <2>1, LeastNumber
<1>3. \A s \in SUBSET Variant : IsFiniteSet(s) /\ Cardinality(s) \in Nat
  BY FinitenessAssumption, FS_Subset, FS_CardinalityType
<1>4. CASE k = 0
  <2> DEFINE f == [s \in SUBSET Variant |-> 0]
  <2>1. ASSUME NEW s \in SUBSET Variant, Cardinality(s) <= k PROVE f[s] = OneMore(l, f, s)
    <3>1. s = {}
      BY <1>3, <1>4, <2>1, FS_EmptySet
    <3> QED  BY <3>1 DEF OneMore
  <2> QED  BY <1>2, <2>1
<1>5. CASE k # 0
  <2>1. k - 1 \in Nat /\ k - 1 < k
    BY <1>5
  <2>2. Upto(k - 1)
    BY <1>2, <2>1
  <2>3. PICK f \in [SUBSET Variant -> Nat] :
          \A s \in SUBSET Variant : Cardinality(s) <= k - 1 => f[s] = OneMore(l, f, s)
    BY <2>2
  <2> DEFINE g == [s \in SUBSET Variant |-> OneMore(l, f, s)]
  <2>4. ASSUME NEW s \in SUBSET Variant PROVE OneMore(l, f, s) \in Nat
    BY Smaller, BoundsAssumption DEF OneMore, Lines
  <2>5. ASSUME NEW s \in SUBSET Variant, Cardinality(s) <= k PROVE g[s] = OneMore(l, g, s)
    <3>1. CASE s = {}
      BY <3>1 DEF OneMore
    <3>2. CASE s # {}
      <4> DEFINE v == CHOOSE v \in s : TRUE
      <4>1. s \ {v} \in SUBSET Variant /\ Cardinality(s \ {v}) <= k - 1
        BY <2>5, <3>2, Smaller
      <4> HIDE DEF v
      <4>2. g[s \ {v}] = f[s \ {v}]
        BY <2>3, <4>1
      <4> QED  BY <3>2, <4>2 DEF OneMore, v
    <3> QED  BY <3>1, <3>2
  <2> QED  BY <1>2, <2>4, <2>5
<1> QED  BY <1>4, <1>5

(* What a cart or an order asks for is a number of units.                  *)
LEMMA UnitsIsNat ==
  ASSUME NEW l \in Lines
  PROVE  Units(l) \in Nat
<1> DEFINE Rec(f) == f = [s \in SUBSET Variant |->
                            IF s = {} THEN 0
                            ELSE LET v == CHOOSE v \in s : TRUE IN l[v] + f[s \ {v}]]
           g == CHOOSE f : Rec(f)
<1>1. \A s \in SUBSET Variant : Cardinality(s) \in Nat /\ Cardinality(s) <= Cardinality(Variant)
  BY FinitenessAssumption, FS_Subset, FS_CardinalityType
<1>2. PICK f \in [SUBSET Variant -> Nat] : \A s \in SUBSET Variant : f[s] = OneMore(l, f, s)
  BY <1>1, PartialSum
<1>3. Rec(f)
  BY <1>2 DEF OneMore
<1>4. Rec(g)
  BY <1>3
<1>5. \A s \in SUBSET Variant : g[s] = OneMore(l, g, s)
  <2> HIDE DEF g
  <2> QED  BY <1>4 DEF OneMore
<1> HIDE DEF g, Rec
<1>6. \A s \in SUBSET Variant : g[s] = f[s]
  <2> DEFINE T == {n \in Nat : \E s \in SUBSET Variant : Cardinality(s) = n /\ g[s] # f[s]}
  <2>1. SUFFICES ASSUME T # {} PROVE FALSE
    BY <1>1
  <2>2. PICK n \in T : \A k \in Nat : k < n => k \notin T
    BY <2>1, LeastNumber
  <2>3. PICK s \in SUBSET Variant : Cardinality(s) = n /\ g[s] # f[s]
    BY <2>2
  <2>4. s # {}
    BY <1>2, <1>5, <2>3 DEF OneMore
  <2> DEFINE v == CHOOSE v \in s : TRUE
  <2>5. s \ {v} \in SUBSET Variant /\ Cardinality(s \ {v}) \in Nat /\ Cardinality(s \ {v}) < n
    BY <2>3, <2>4, Smaller
  <2>6. g[s \ {v}] = f[s \ {v}]
    <3> HIDE DEF v
    <3> QED  BY <2>2, <2>5
  <2> QED  BY <1>2, <1>5, <2>3, <2>4, <2>6 DEF OneMore
<1>7. Units(l) = g[Variant]
  BY DEF Units, MapThenSumSet, MapThenFoldSet, g, Rec
<1> QED  BY <1>6, <1>7

-----------------------------------------------------------------------------
(* What is reserved.  d holds what the first n orders have had reserved.   *)
Due(n) == IF orders[n].paid THEN Need(n) ELSE 0

IsDue(d) ==
  /\ d \in [0 .. Len(orders) -> Nat] /\ d[0] = 0
  /\ \A n \in 1 .. Len(orders) : d[n] = d[n-1] + Due(n)

Sold ==
  /\ reserved \in 0 .. OnHand
  /\ \E d : IsDue(d) /\ d[Len(orders)] = reserved

LEMMA NeedIsNat ==
  ASSUME Typed, NEW n \in Placed
  PROVE  Need(n) \in Nat /\ Due(n) \in Nat
BY OrdersTyped, UnitsIsNat DEF Order, Need, Due

(* A new order has nothing reserved.                                       *)
LEMMA PlaceIsSold ==
  ASSUME Typed, Sold, NEW w \in Worker, PlaceOrder(w)
  PROVE  Sold'
<1> DEFINE N == Len(orders)
           o == [cart |-> work[w].cart, lines |-> work[w].lines, paid |-> FALSE]
<1>1. N \in Nat /\ orders \in Seq(Order) /\ Placed = 1 .. N
  BY DEF Typed, Order, Placed
<1>2. orders' = Append(orders, o) /\ reserved' = reserved
  BY DEF PlaceOrder
<1>3. /\ Len(orders') = N + 1 /\ ~orders'[N + 1].paid
      /\ \A n \in 1 .. N : orders'[n] = orders[n]
  BY <1>1, <1>2
<1>4. PICK d : IsDue(d) /\ d[N] = reserved
  BY DEF Sold
<1> DEFINE e == [n \in 0 .. N + 1 |-> IF n <= N THEN d[n] ELSE d[N]]
<1>5. e \in [0 .. Len(orders') -> Nat] /\ e[0] = 0 /\ e[Len(orders')] = reserved
  BY <1>1, <1>3, <1>4 DEF IsDue
<1>6. ASSUME NEW n \in 1 .. Len(orders') PROVE e[n] = e[n-1] + Due(n)'
  <2>1. CASE n = N + 1
    <3>1. Due(n)' = 0
      BY <1>3, <2>1 DEF Due
    <3>2. e[n] = d[N] /\ e[n-1] = d[N] /\ d[N] \in Nat
      BY <1>1, <1>4, <2>1 DEF IsDue
    <3> QED  BY <3>1, <3>2
  <2>2. CASE n \in 1 .. N
    <3>1. Due(n)' = Due(n)
      BY <1>3, <2>2 DEF Due, Need
    <3> QED  BY <1>1, <1>4, <2>2, <3>1 DEF IsDue
  <2> QED  BY <1>1, <1>3, <2>1, <2>2
<1>7. PICK x : x = e
  OBVIOUS
<1> HIDE DEF e
<1>8. IsDue(x)'
  BY <1>5, <1>6, <1>7 DEF IsDue
<1> QED  BY <1>2, <1>4, <1>5, <1>7, <1>8 DEF Sold

(* mark_paid reserves what its order needs, once.                          *)
LEMMA PaidIsSold ==
  ASSUME Typed, Sold, NEW n \in Placed, ~orders[n].paid, Fits(n),
         orders' = [orders EXCEPT ![n].paid = TRUE], reserved' = reserved + Need(n)
  PROVE  Sold'
<1> DEFINE N == Len(orders)
           o == [orders[n] EXCEPT !.paid = TRUE]
<1>1. N \in Nat /\ orders \in Seq(Order) /\ n \in 1 .. N /\ orders[n] \in Order
  BY OrdersTyped DEF Typed, Order, Placed
<1>2. o.paid /\ o.lines = orders[n].lines
  BY <1>1 DEF Order
<1>3. orders' = [orders EXCEPT ![n] = o]
  OBVIOUS
<1> HIDE DEF o, Order
<1>4. /\ Len(orders') = N /\ orders'[n] = o
      /\ \A k \in 1 .. N : k # n => orders'[k] = orders[k]
  BY <1>1, <1>3
<1>5. Need(n) \in Nat /\ Due(n) = 0 /\ Due(n)' = Need(n)
  BY <1>2, <1>4, NeedIsNat DEF Due, Need
<1>6. \A k \in 1 .. N : k # n => Due(k)' = Due(k)
  BY <1>4 DEF Due, Need
<1>7. PICK d : IsDue(d) /\ d[N] = reserved
  BY DEF Sold
<1> DEFINE e == [k \in 0 .. N |-> IF k < n THEN d[k] ELSE d[k] + Need(n)]
<1>8. \A k \in 0 .. N : d[k] \in Nat /\ e[k] = IF k < n THEN d[k] ELSE d[k] + Need(n)
  BY <1>7 DEF IsDue
<1>9. e \in [0 .. N -> Nat] /\ e[0] = 0 /\ e[N] = reserved'
  BY <1>1, <1>5, <1>7, <1>8 DEF IsDue
<1>10. ASSUME NEW k \in 1 .. N PROVE e[k] = e[k-1] + Due(k)'
  <2>1. d[k] = d[k-1] + Due(k) /\ k - 1 \in 0 .. N /\ k \in 0 .. N
    BY <1>1, <1>7 DEF IsDue
  <2>2. Due(k) \in Nat
    BY NeedIsNat DEF Typed, Placed
  <2> HIDE DEF e
  <2>3. CASE k = n
    BY <1>1, <1>5, <1>8, <2>1, <2>3
  <2>4. CASE k < n
    <3>1. e[k] = d[k] /\ e[k-1] = d[k-1] /\ k # n
      BY <1>1, <1>8, <2>1, <2>4
    <3> QED  BY <1>6, <2>1, <3>1
  <2>5. CASE k > n
    <3>1. e[k] = d[k] + Need(n) /\ e[k-1] = d[k-1] + Need(n) /\ k # n
      BY <1>1, <1>8, <2>1, <2>5
    <3>2. d[k-1] \in Nat /\ Need(n) \in Nat
      BY <1>5, <1>8, <2>1
    <3> QED  BY <1>6, <2>1, <2>2, <3>1, <3>2
  <2> QED  BY <1>1, <2>3, <2>4, <2>5
<1>11. PICK x : x = e
  OBVIOUS
<1> HIDE DEF e
<1>12. IsDue(x)'
  BY <1>4, <1>9, <1>10, <1>11 DEF IsDue
<1>13. reserved' \in 0 .. OnHand
  BY <1>5, BoundsAssumption DEF Fits, Sold
<1> QED  BY <1>4, <1>9, <1>11, <1>12, <1>13 DEF Sold

LEMMA SoldKept == IInv /\ Sold /\ [Next]_vars => Sold'
<1> SUFFICES ASSUME IInv, Sold, [Next]_vars PROVE Sold'
  OBVIOUS
<1>1. Typed /\ Tasks
  BY DEF IInv
<1>2. ASSUME UNCHANGED orderVars PROVE Sold'
  BY <1>2 DEF orderVars, Sold, IsDue, Due, Need
<1>3. ASSUME NEW n \in Placed, MarkPaid(n) PROVE Sold'
  BY <1>1, <1>2, <1>3, PaidIsSold DEF MarkPaid
<1>4. ASSUME NEW w \in Worker, ChargeStub(w) PROVE Sold'
  <2>1. work[w].order \in Placed
    BY <1>1, <1>4 DEF ChargeStub, Tasks, TaskOK
  <2> QED  BY <1>2, <1>3, <1>4, <2>1 DEF ChargeStub, OutOfStock
<1>5. ASSUME NEW w \in Worker, HookSettle(w) PROVE Sold'
  <2>1. work[w].order \in Placed
    BY <1>1, <1>5 DEF HookSettle, Tasks, TaskOK
  <2>2. \/ UNCHANGED orderVars
        \/ MarkPaid(work[w].order)
    BY <1>5 DEF HookSettle, OutOfStock, orderVars
  <2> QED  BY <1>2, <1>3, <2>1, <2>2
<1>6. ASSUME NEW w \in Worker, PlaceOrder(w) PROVE Sold'
  BY <1>1, <1>6, PlaceIsSold
<1>7. \/ UNCHANGED orderVars
      \/ \E w \in Worker : ChargeStub(w) \/ HookSettle(w) \/ PlaceOrder(w)
  <2>1. ASSUME NEW w \in Worker, CartStep(w) PROVE UNCHANGED orderVars
    BY <2>1 DEF CartStep, View, EditBegin, CartCreate, CartAdd, CartUpdate, CartClear, Hand
  <2>2. ASSUME NEW w \in Worker, Step(w)
        PROVE  UNCHANGED orderVars \/ ChargeStub(w) \/ HookSettle(w) \/ PlaceOrder(w)
    BY <2>2 DEF Step, ChargeStripe, Answer, Hook
  <2>3. ASSUME NEW c \in Cart, Sweep(c) PROVE UNCHANGED orderVars
    BY <2>3 DEF Sweep
  <2>4. ASSUME NEW n \in OrderId, Pay(n) PROVE UNCHANGED orderVars
    BY <2>4 DEF Pay
  <2>5. ASSUME NEW w \in Worker,
               \/ Crash(w)
               \/ \E b \in Browser : Submit(w, b)
               \/ \E n \in OrderId : Deliver(w, n)
        PROVE  UNCHANGED orderVars
    BY <2>5 DEF Crash, Submit, Deliver
  <2>6. UNCHANGED vars => UNCHANGED orderVars
    BY DEF vars
  <2> QED  BY <2>1, <2>2, <2>3, <2>4, <2>5, <2>6 DEF Next
<1> QED  BY <1>2, <1>4, <1>5, <1>6, <1>7

LEMMA InitIsSold == Init => Sold
<1> SUFFICES ASSUME Init PROVE Sold
  OBVIOUS
<1> DEFINE d == [n \in 0 .. 0 |-> 0]
<1>1. Len(orders) = 0 /\ reserved = 0
  BY DEF Init
<1>2. IsDue(d) /\ d[0] = 0
  BY <1>1 DEF IsDue
<1> QED  BY <1>1, <1>2, BoundsAssumption DEF Sold

(* The sum ReservedForPaid speaks of is the one Sold has.                  *)
LEMMA SoldForPaid == Typed /\ Sold => ReservedForPaid
<1> SUFFICES ASSUME Typed, Sold PROVE ReservedForPaid
  OBVIOUS
<1> DEFINE N == Len(orders)
           Sums(f) == f = [n \in 0 .. N |->
                             IF n = 0 THEN 0 ELSE f[n-1] + (IF orders[n].paid THEN Need(n) ELSE 0)]
           s == CHOOSE f : Sums(f)
<1>1. N \in Nat
  BY DEF Typed
<1>2. PICK d : IsDue(d) /\ d[N] = reserved
  BY DEF Sold
<1>3. Sums(d)
  BY <1>2 DEF IsDue, Due
<1>4. Sums(s)
  BY <1>3
<1>5. s[0] = 0 /\ \A n \in 1 .. N : s[n] = s[n-1] + Due(n)
  <2> HIDE DEF s
  <2> QED  BY <1>1, <1>4 DEF Due
<1>6. s[N] = d[N]
  <2> HIDE DEF s, Sums
  <2> DEFINE T == {n \in 0 .. N : s[n] # d[n]}
  <2>1. SUFFICES ASSUME T # {} PROVE FALSE
    BY <1>1
  <2>2. PICK n \in T : \A k \in Nat : k < n => k \notin T
    <3>1. T \in SUBSET Nat
      OBVIOUS
    <3> HIDE DEF T
    <3> QED  BY <2>1, <3>1, LeastNumber
  <2>3. n \in 1 .. N /\ n - 1 \in 0 .. N /\ n - 1 < n
    BY <1>2, <1>5 DEF IsDue
  <2>4. s[n-1] = d[n-1]
    BY <2>2, <2>3
  <2> QED  BY <1>2, <1>5, <2>2, <2>3, <2>4 DEF IsDue
<1> QED  BY <1>2, <1>6 DEF ReservedForPaid

(* What is reserved is what the paid orders need, whatever overlaps, fails *)
(* or is delivered twice (web/orders.py, mark_paid).                       *)
THEOREM ReservationsAddUp == Spec => []ReservedForPaid
<1>1. IInv /\ Sold => ReservedForPaid
  BY SoldForPaid DEF IInv
<1> QED  BY <1>1, Invariance, InitIsSold, SoldKept, PTL DEF Spec

(* Every variable keeps its type; the component's reserved column stays    *)
(* between nothing and what there is (the stock_sane constraint).          *)
THEOREM CheckoutTyped == Spec => []TypeOK
<1>1. IInv /\ Sold => TypeOK
  BY DEF IInv, Sold, TypeOK
<1> QED  BY <1>1, Invariance, InitIsSold, SoldKept, PTL DEF Spec
=============================================================================
