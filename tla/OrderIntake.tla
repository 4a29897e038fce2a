----------------------------- MODULE OrderIntake -----------------------------
(***************************************************************************)
(* POST /orders/create (app/features/order_intake/router.py): one message  *)
(* of a customer, written, spoken or photographed, becomes an order        *)
(* (app/orders/extraction.py, schema.py, service.py), which is sent to the *)
(* order system when nothing is missing (app/orders/gateway.py).           *)
(*                                                                         *)
(* The handler awaits the transcription, the upload of an image, the model *)
(* and the order system; the model may come or go at each.  What the model *)
(* reads out of a message is its affair, and so is whether it answers in   *)
(* JSON at all.                                                            *)
(***************************************************************************)
EXTENDS Locations

CONSTANTS
  Requests,
  Names, Phones,           \* what a name and a phone may be: absent, good and, for phones, bad
  Cities, Areas, Streets,  \* texts of city, district and address
  Prices,                  \* price: None, a number, or Unreadable
  Unreadable

\* Items are told apart by whether they are a product or a short reply (_NOT_A_PRODUCT).
Items == {"product", "reply"}
Planes == [name : Names, phone : Phones, city : Cities, district : Areas, address : Streets,
           items : SUBSET Items, price : Prices]
Messages == [item : Items, phone : Phones \ {"bad"}]   \* a text is its phone and the item it would be

VARIABLES
  ready,  \* llm_engine.ready
  at,     \* what each request awaits: "new", "hearing", "looking", "asking", "sending", "done"
  said,   \* the text of each request, None for an image
  plane,  \* history: what the model read out of it
  order,  \* the order made of it
  status, \* the reply's status, 0 before it
  sent    \* the orders posted to the order system for it

request == <<at, said, plane, order, status, sent>>
vars == <<ready, request>>

Codes == States \cup {None}
TypeOK ==
  /\ ready \in BOOLEAN
  /\ at \in [Requests -> {"new", "hearing", "looking", "asking", "sending", "done"}]
  /\ \A r \in Requests :
       /\ said[r] # None => said[r] \in Messages
       /\ plane[r] # None => plane[r] \in Planes
       /\ order[r] # None => /\ order[r].items \subseteq Items
                             /\ order[r].code \in Codes
                             /\ order[r].phone \in Phones /\ order[r].name \in Names
       /\ status[r] \in {0, 200, 400, 422, 500, 501, 502}
       /\ (status[r] # 0) = (at[r] = "done") /\ (at[r] = "sending" => order[r] # None)

Init ==
  /\ ready \in BOOLEAN /\ at = [r \in Requests |-> "new"]
  /\ said = [r \in Requests |-> None] /\ plane = [r \in Requests |-> None]
  /\ order = [r \in Requests |-> None] /\ status = [r \in Requests |-> 0]
  /\ sent = [r \in Requests |-> <<>>]

-----------------------------------------------------------------------------
(* The place of an order (app/orders/extraction.py). *)

\* A known district of one governorate, or the first such district written out in the
\* address when none is given.
Place(p) ==
  LET found == Search(p.address, 3)
      hit(i) == Hit(p.address, found[i])
      known == {i \in DOMAIN found : ~found[i].fuzzy /\ hit(i).district # None /\ Cardinality(hit(i).in) = 1}
      first == hit(Least(known))
  IN  IF StateForDistrict(p.district) # None THEN StateForDistrict(p.district)
      ELSE IF p.district = <<>> /\ known # {}
      THEN [name |-> first.district, state |-> CHOOSE s \in first.in : TRUE]
      ELSE None

CorrectLocation(p) ==
  IF Place(p) # None THEN [p EXCEPT !.city = StateName[Place(p).state], !.district = Place(p).name]
  ELSE IF CanonicalState(p.city) # None THEN [p EXCEPT !.city = StateName[CanonicalState(p.city)]]
  ELSE p

\* A price that is not a number counts as 0.
Total(price) == IF price = None THEN None ELSE IF price = Unreadable THEN 0 ELSE price

OrderOf(p, code) ==
  [name |-> p.name, phone |-> p.phone, city |-> p.city, district |-> p.district,
   address |-> p.address, code |-> code, items |-> p.items, total |-> Total(p.price)]

ModelOrder(p) == OrderOf(CorrectLocation(p), CanonicalState(CorrectLocation(p).city))

IntakeAssumption ==
  /\ LocationsAssumption /\ NamesApart
  /\ "absent" \in Names \cap Phones /\ \A text \in Streets : text \in Seq(Range(text))
  /\ None \notin Planes \cup Messages /\ \A p \in Planes : ModelOrder(p) # None

\* Without the model the text is the product; the phone is looked for only when the model
\* answered and could not be read.
TextOrder(m, phone) ==
  [name |-> "absent", phone |-> phone, city |-> <<>>, district |-> <<>>, address |-> <<>>,
   code |-> None, items |-> {m.item}, total |-> None]

\* mutant: the name and the place are not asked for.
PhoneAndItems(o) == {b \in {"phone", "items"} : \/ b = "phone" /\ o.phone # "good"
                                                \/ b = "items" /\ "product" \notin o.items}

Blockers(o) == {b \in {"phone", "name", "location", "items"} :
                  \/ b = "phone" /\ o.phone # "good"
                  \/ b = "name" /\ o.name = "absent"
                  \/ b = "location" /\ o.city = <<>> /\ o.district = <<>> /\ o.address = <<>>
                  \/ b = "items" /\ "product" \notin o.items}

-----------------------------------------------------------------------------
(* One request. *)

Await(r, what) == at' = [at EXCEPT ![r] = what] /\ UNCHANGED <<order, status, sent>>
Reply(r, code) ==
  /\ at' = [at EXCEPT ![r] = "done"] /\ status' = [status EXCEPT ![r] = code]
  /\ UNCHANGED <<order, sent>>

\* mutant: an order with something missing is kept without a reply.
ResolveSilently(r, o) ==
  /\ order' = [order EXCEPT ![r] = o] /\ UNCHANGED <<status, sent>>
  /\ at' = [at EXCEPT ![r] = IF Blockers(o) = {} THEN "sending" ELSE "done"]

\* resolve_order: an order with something missing is answered and not sent.
Resolve(r, o) ==
  /\ order' = [order EXCEPT ![r] = o]
  /\ IF Blockers(o) = {}
     THEN at' = [at EXCEPT ![r] = "sending"] /\ UNCHANGED status
     ELSE at' = [at EXCEPT ![r] = "done"] /\ status' = [status EXCEPT ![r] = 200]
  /\ UNCHANGED sent

\* A text is given to the model if it is there, and is taken as it stands if not.
Ask(r, m) ==
  /\ said' = [said EXCEPT ![r] = m]
  /\ IF ready THEN Await(r, "asking") ELSE Resolve(r, TextOrder(m, "absent"))
  /\ UNCHANGED <<ready, plane>>

Text(r) == at[r] = "new" /\ \E m \in Messages : Ask(r, m)

Upload(r) ==
  /\ at[r] = "new" /\ UNCHANGED <<ready, said, plane>>
  /\ \/ Await(r, "hearing") \/ Await(r, "looking")
     \/ Reply(r, 400)   \* no input, or several

\* 422 for a file that is no audio or without a word, 500 for a model that fails or is late.
Heard(r) ==
  /\ at[r] = "hearing"
  /\ \/ \E m \in Messages : Ask(r, m)
     \/ \E code \in {422, 500} : Reply(r, code) /\ UNCHANGED <<ready, said, plane>>

\* 501 without the model or Pillow, 500 for bytes that are no image.
Looked(r) ==
  /\ at[r] = "looking" /\ UNCHANGED <<ready, said, plane>>
  /\ \/ ready /\ (Await(r, "asking") \/ Reply(r, 500))
     \/ Reply(r, 501)

\* The model's answer is no JSON: the text itself is ordered, and an image is refused.
Unread(r) ==
  IF said[r] = None THEN Reply(r, 422) ELSE Resolve(r, TextOrder(said[r], said[r].phone))

Read(r) == \E p \in Planes : plane' = [plane EXCEPT ![r] = p] /\ Resolve(r, ModelOrder(p))

\* 502 stands for every refusal of the model's server.
Extracted(r) ==
  /\ at[r] = "asking" /\ UNCHANGED <<ready, said>>
  /\ \/ Read(r)
     \/ Unread(r) /\ UNCHANGED plane
     \/ Reply(r, 502) /\ UNCHANGED plane

\* The order system accepts, refuses or is not heard of: the reply is the same.
Submitted(r) ==
  /\ at[r] = "sending" /\ sent' = [sent EXCEPT ![r] = Append(@, order[r])]
  /\ at' = [at EXCEPT ![r] = "done"] /\ status' = [status EXCEPT ![r] = 200]
  /\ UNCHANGED <<ready, said, plane, order>>

ReadyFlips == ready' = ~ready /\ UNCHANGED request

Step(r) == Text(r) \/ Upload(r) \/ Heard(r) \/ Looked(r) \/ Extracted(r) \/ Submitted(r)

Next == ReadyFlips \/ \E r \in Requests : Step(r)

Spec == Init /\ [][Next]_vars

-----------------------------------------------------------------------------
Placed(r) == order[r] # None /\ plane[r] # None

\* An order is never made up: what reaches the order system was read by the model out of
\* the customer's message, whatever became of the model while the request waited, and never
\* a text or a "yes" that stands in for the product (service.py 45-67, router.py 78-117).
GuessNeverSent == \A r \in Requests : sent[r] # <<>> => plane[r] # None

\* A reply without a reading of the image holds no order (router.py 102-107).
ImageIsReadOrRefused ==
  \A r \in Requests : status[r] = 200 /\ said[r] = None => plane[r] # None

\* An order with a name, a phone, a product and any word on the place is sent exactly once
\* before its reply, and no other is (service.py 114-131, docs/api/orders.md 4, 179).
CompleteIsSentOnce ==
  \A r \in Requests : status[r] = 200 =>
    LET o == order[r]
        complete == /\ o.name # "absent" /\ o.phone = "good" /\ "product" \in o.items
                    /\ \E place \in {o.city, o.district, o.address} : place # <<>>
    IN  sent[r] = IF complete THEN <<o>> ELSE <<>>

\* The governorate, its code and the district of an order agree: the code is that of the
\* city, and a district that lies in one governorate lies in this one (extraction.py 19-56,
\* router.py 114-115).
PlaceAgrees ==
  \A r \in Requests : Placed(r) =>
    LET o == order[r] IN
      /\ o.code # None => o.city = StateName[o.code]
      /\ Cardinality(StatesWith(o.district)) = 1 => o.code \in StatesWith(o.district)

\* The city a customer gave is overruled only by a district that lies in no other
\* governorate (extraction.py 31-49, locations.py 126-129).
CityOverruledByDistrictOnly ==
  \A r \in Requests : Placed(r) /\ CanonicalState(plane[r].city) \notin {None, order[r].code} =>
    StatesWith(order[r].district) = {order[r].code}

\* The comment of the total (service.py 89-91) and docs/api/orders.md 197: a price that is
\* not known is None, never a 0 that reads as free.
\* The code does not keep this: README, section 6.
UnknownIsNotFree ==
  \A r \in Requests : Placed(r) /\ order[r].total = 0 => plane[r].price = 0
=============================================================================
