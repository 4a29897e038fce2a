---------------------------- MODULE CatalogTools ----------------------------
(***************************************************************************)
(* The data tools of the voice assistant (app/features/voice_followup/     *)
(* call_tools.py and operator_tools.py) on the store's catalog             *)
(* (app/core/catalog.py): the orders of a customer, one order, and a       *)
(* search for products with the stock of each, read page by page for all   *)
(* products at once.                                                       *)
(*                                                                         *)
(* The catalog service is the environment: its stock changes between two   *)
(* pages, and any of its answers may be an error.  What it finds for a     *)
(* filter is its affair; the tools filter again.                           *)
(***************************************************************************)
EXTENDS SequencesExt, Integers

CONSTANTS
  Products,    \* products a search finds
  Infos,       \* stock infos: [storage, quantity, price]; price 0 stands for no price
  Storage,     \* catalog_storage_id
  PageSize,    \* catalog_stock_page_size
  MaxPages,    \* _MAX_PAGES
  MaxInfos,    \* bound of the run: infos of a product
  MaxChanges,  \* bound of the run: changes of the stock
  Orders,      \* orders of the store
  NoOrder,     \* the id of an order that is not of digits
  Phones,      \* ways in which phone numbers are written
  NumberOf,    \* phone_digits of each: its last ten digits
  NoNumber,    \* phone_digits of a text without digits
  OrdersPage,  \* catalog_orders_page_size
  MaxOrders    \* _MAX_ORDERS

CatalogAssumption ==
  /\ {PageSize, MaxPages, OrdersPage} \subseteq Nat \ {0} /\ {MaxInfos, MaxChanges, MaxOrders} \subseteq Nat
  /\ Infos \subseteq [storage : {Storage, "other"}, quantity : Nat, price : Nat]
  /\ NoNumber \in {NumberOf[p] : p \in Phones}
  /\ NoOrder \notin Orders

Tools == {"my_orders", "order_status", "search_products", "staff_order", "staff_orders"}
Lost == {"unavailable", "unauthorized", "unexpected"}   \* other reasons of CatalogError
NotThere == {"not_found", "bad_request"}

VARIABLES
  tool, phone, wanted,  \* the call: its tool, the customer's phone, the order asked for
  phoneOf,              \* the phone of each order
  stock,                \* the stock of each product, in the catalog's order
  changes,              \* changes of the stock so far
  phase,                \* "ask", "stock", "done"
  read,                 \* per product: [page, infos, state: "pages", "ok" or "failed"]
  heard,                \* history: reason of the failure of the main request, or "ok"
  answer                \* the tool's result

call == <<tool, phone, wanted, phoneOf>>
vars == <<call, stock, changes, phase, read, heard, answer>>

Stocks == BoundedSeq(Infos, MaxInfos)
Read == [page : 0 .. MaxPages, infos : Seq(Infos), state : {"pages", "ok", "failed"}]

TypeOK ==
  /\ tool \in Tools /\ phone \in Phones /\ wanted \in Orders \cup {NoOrder}
  /\ phoneOf \in [Orders -> Phones]
  /\ stock \in [Products -> Stocks] /\ changes \in 0 .. MaxChanges
  /\ phase \in {"ask", "stock", "done"}
  /\ read \in [Products -> Read]
  /\ heard \in {"ok"} \cup Lost \cup NotThere
  /\ answer.kind \in {"none", "unavailable", "unknown", "missing", "orders", "products"}

Unread == [page |-> 0, infos |-> <<>>, state |-> "pages"]

\* The stock matters to a search, the orders to the other tools.
Init ==
  /\ tool \in Tools /\ phone \in Phones /\ wanted \in Orders \cup {NoOrder}
  /\ IF tool = "search_products"
     THEN /\ phone = CHOOSE p \in Phones : TRUE
          /\ wanted = CHOOSE o \in Orders : TRUE
          /\ phoneOf = [o \in Orders |-> phone]
          /\ stock \in [Products -> Stocks]
     ELSE phoneOf \in [Orders -> Phones] /\ stock = [p \in Products |-> <<>>]
  /\ changes = 0 /\ phase = "ask" /\ read = [p \in Products |-> Unread]
  /\ heard = "ok" /\ answer = [kind |-> "none"]

-----------------------------------------------------------------------------
(* Orders *)

SamePhoneAsWritten(a, b) == a = b  \* mutant: numbers are compared as they are written

\* same_phone.
SamePhone(a, b) == NumberOf[a] # NoNumber /\ NumberOf[a] = NumberOf[b]

End(a) == phase' = "done" /\ answer' = a /\ UNCHANGED <<call, stock, changes, read>>

\* What the customer gets of a list of orders: how many there are, and the first of them.
OrdersAnswer(os) ==
  IF os = {} THEN [kind |-> "missing"] ELSE [kind |-> "orders", of |-> os, shown |-> MaxOrders]

\* The catalog is asked about a customer with a number, and about an order with one.
Asks ==
  /\ tool \in {"my_orders", "order_status"} => NumberOf[phone] # NoNumber
  /\ tool = "order_status" => wanted # NoOrder

\* The first page of what the catalog's partial filter finds for a number: all orders with the number
\* as it is written are in it, unless the page is full.
FirstPages ==
  {page \in SUBSET Orders :
     /\ Cardinality(page) <= OrdersPage
     /\ {o \in Orders : phoneOf[o] = phone} \subseteq page \/ Cardinality(page) = OrdersPage}

\* _get_my_orders: the page is filtered again.
MyOrders ==
  /\ phase = "ask" /\ tool = "my_orders" /\ Asks
  /\ \E page \in FirstPages : End(OrdersAnswer({o \in page : SamePhone(phoneOf[o], phone)}))
  /\ heard' = "ok"

\* A call without such a number is answered without the catalog.
NothingToAsk ==
  /\ phase = "ask" /\ ~Asks
  /\ End([kind |-> IF tool = "my_orders" THEN "unknown" ELSE "missing"])
  /\ heard' = "ok"

\* The order of another customer is as good as none.
Owns(o) == SamePhone(phoneOf[o], phone)

\* _get_order_status.
OrderStatus ==
  /\ phase = "ask" /\ tool = "order_status" /\ Asks
  /\ End(IF Owns(wanted) THEN OrdersAnswer({wanted}) ELSE [kind |-> "missing"])
  /\ heard' = "ok"

\* _search_orders of the staff: one order, or those of a filter.  An id that is no number is refused
\* before the catalog is asked, as by MainFails("bad_request").
StaffOrders ==
  /\ phase = "ask"
  /\ \/ tool = "staff_order" /\ wanted # NoOrder /\ End(OrdersAnswer({wanted}))
     \/ /\ tool = "staff_orders"
        /\ \E found \in SUBSET Orders : Cardinality(found) <= OrdersPage /\ End(OrdersAnswer({o \in found : SamePhone(phoneOf[o], phone)}))
  /\ heard' = "ok"

\* What a CatalogError becomes.  Only where one order is asked for may it mean that there is none.
FailureAnswer(r) ==
  [kind |-> IF r \in NotThere /\ tool \in {"order_status", "staff_order"} THEN "missing"
            ELSE "unavailable"]

MainFails(r) ==
  /\ phase = "ask" /\ Asks
  /\ End(FailureAnswer(r))
  /\ heard' = r

-----------------------------------------------------------------------------
(* Products *)

\* search_products_with_stock: a task per product.
SearchProducts ==
  /\ phase = "ask" /\ tool = "search_products"
  /\ phase' = "stock"
  /\ UNCHANGED <<call, stock, changes, read, heard, answer>>

\* The stock changes while pages are read.
Change(p) ==
  /\ phase = "stock" /\ changes < MaxChanges
  /\ \/ stock[p] # <<>> /\ stock' = [stock EXCEPT ![p] = Tail(@)]
     \/ \E i \in Infos : Len(stock[p]) < MaxInfos /\ stock' = [stock EXCEPT ![p] = Append(@, i)]
  /\ changes' = changes + 1
  /\ UNCHANGED <<call, phase, read, heard, answer>>

Page(p, n) == SubSeq(stock[p], n * PageSize + 1, IF (n + 1) * PageSize < Len(stock[p])
                                                 THEN (n + 1) * PageSize ELSE Len(stock[p]))
HasNext(p, n) == (n + 1) * PageSize < Len(stock[p])

More(p, n) == HasNext(p, n) /\ n + 1 < MaxPages

\* One page of get_stock_infos.
ReadPage(p) ==
  /\ phase = "stock" /\ read[p].state = "pages"
  /\ LET n == read[p].page
     IN  read' = [read EXCEPT ![p] =
           [page |-> n + 1, infos |-> @.infos \o Page(p, n),
            state |-> IF More(p, n) THEN "pages" ELSE "ok"]]
  /\ UNCHANGED <<call, stock, changes, phase, heard, answer>>

\* with_stock: the failure of one page leaves this product without any stock.
ReadFails(p) ==
  /\ phase = "stock" /\ read[p].state = "pages"
  /\ read' = [read EXCEPT ![p].state = "failed"]
  /\ UNCHANGED <<call, stock, changes, phase, heard, answer>>

\* trim_product: without stock infos it says nothing of the stock.  `prices` is the price, or the
\* range of prices, that is shown.
Trim(r) ==
  LET mine == {r.infos[k] : k \in {k \in DOMAIN r.infos : r.infos[k].storage = Storage}}
  IN  IF r.state = "failed" THEN [stock |-> "unknown", prices |-> {}]
      ELSE [stock |-> IF \E i \in mine : i.quantity > 0 THEN "in" ELSE "out",
            prices |-> {i.price : i \in mine} \ {0}]

\* gather returns when all products have been read.
SearchAnswers ==
  /\ phase = "stock" /\ \A p \in Products : read[p].state # "pages"
  /\ phase' = "done"
  /\ answer' = [kind |-> "products", of |-> [p \in Products |-> Trim(read[p])]]
  /\ UNCHANGED <<call, stock, changes, read, heard>>

Done == phase = "done" /\ UNCHANGED vars

Next ==
  \/ MyOrders \/ NothingToAsk \/ OrderStatus \/ StaffOrders
  \/ \E r \in Lost \cup NotThere : MainFails(r)
  \/ SearchProducts \/ SearchAnswers \/ Done
  \/ \E p \in Products : Change(p) \/ ReadPage(p) \/ ReadFails(p)

Spec == Init /\ [][Next]_vars

-----------------------------------------------------------------------------
\* A customer hears only of orders of the same number, however it is written there and here
\* (call_tools.py:261-289, catalog.py:151-154, 191-197).
OwnOrders ==
  tool \in {"my_orders", "order_status"} /\ answer.kind = "orders" =>
    \A o \in answer.of : NumberOf[phone] # NoNumber /\ NumberOf[phoneOf[o]] = NumberOf[phone]

\* An order that is the customer's, written as in this call or otherwise, is not denied by a
\* catalog that gave it out, nor by one that failed (call_tools.py:281-288).
NotDenied ==
  /\ tool = "order_status" /\ answer.kind = "missing" =>
       \/ heard \in NotThere
       \/ NumberOf[phone] = NoNumber \/ wanted = NoOrder
       \/ NumberOf[phoneOf[wanted]] # NumberOf[phone]
  /\ answer.kind = "missing" => heard \notin Lost

\* The stock a product is shown with is the whole stock of this storage, for as many infos as the
\* pages hold, when the catalog did not change meanwhile (catalog.py:178-188, 279-293).
StockComplete ==
  answer.kind = "products" /\ changes = 0 =>
    \A p \in Products :
      answer.of[p].stock # "unknown" /\ Len(stock[p]) <= PageSize * MaxPages =>
        LET mine == {i \in ToSet(stock[p]) : i.storage = Storage}
        IN  /\ answer.of[p].stock = "in" <=> \E i \in mine : i.quantity > 0
            /\ answer.of[p].prices = {i.price : i \in mine} \ {0}

\* A product whose stock could not be read is still found, and is neither in stock nor sold out;
\* the others keep theirs (catalog.py:296-307).
FailureIsUnknown ==
  answer.kind = "products" =>
    \A p \in Products : (read[p].state = "failed") <=> (answer.of[p].stock = "unknown")
=============================================================================
