----------------------------- MODULE Admin_proofs -----------------------------
(***************************************************************************)
(* What an admin does in the dashboard, for every number of users, requests,*)
(* workers, orders and products.                                           *)
(*                                                                          *)
(* The shop (MCStore): the answers about writes to orders are true whatever *)
(* the shop does between two calls, and an import stores each key once      *)
(* unless two requests overlapped, and all it fetched when it was alone.    *)
(*                                                                          *)
(* Sessions and settings (WorkspaceSettings): what is switched off stops,   *)
(* tokens taken back stay out, new ones work, and edits of the settings     *)
(* that do not overlap do not undo each other.                              *)
(*                                                                          *)
(* The two systems share no variable; each has its own inductive invariant, *)
(* ShopInv and SettingsInv.                                                 *)
(***************************************************************************)
EXTENDS MCStore, WorkspaceSettings, FiniteSetTheorems, SequenceTheorems, TLAPS

-----------------------------------------------------------------------------
(* The orders: the inductive invariant                                     *)

\* A request at work is about an order.
AboutAnOrder == \A r \in Requests : req[r].pc # "idle" => req[r].order \in Orders

\* What is delivered now was delivered at some time.
DeliveredIsNoted == \A o \in Orders : status[o] = "delivered" => o \in delivered

\* Only cancellations and returns write, and a return only of what it has seen
\* delivered.
PostIsWarranted ==
    \A r \in Requests : req[r].pc = "post" =>
        /\ req[r].kind \in {"cancel", "return"}
        /\ req[r].kind = "return" => req[r].order \in delivered

OrdersInv == /\ O!TypeOK /\ AboutAnOrder /\ DeliveredIsNoted /\ PostIsWarranted
        /\ O!AnswersStand /\ O!ReturnedWasDelivered

\* The answer of r, if it has one, is true.
Stands(r) ==
    req[r].pc = "answered" =>
        LET q == req[r] IN
        /\ q.answer = "done" /\ q.kind = "cancel" => status[q.order] \in {"canceled", "refunded"}
        /\ q.answer = "done" /\ q.kind = "return" => q.order \in returned
        /\ q.answer = "cannot_cancel" => status[q.order] \in O!Final

-----------------------------------------------------------------------------
(* Lemmas                                                                  *)

\* Answers already given survive whatever becomes of orders: nothing leaves
\* canceled but to refunded, nothing leaves the final statuses, no return is undone.
LEMMA OthersStand ==
    ASSUME OrdersInv, NEW r \in Requests,
           \A o \in Orders : /\ status[o] \in {"canceled", "refunded"}
                                   => status'[o] \in {"canceled", "refunded"}
                             /\ status[o] \in O!Final => status'[o] \in O!Final,
           returned \subseteq returned',
           req'[r] = req[r]
    PROVE  Stands(r)'
  BY DEF OrdersInv, Stands, O!AnswersStand, AboutAnOrder

\* A step of one request that leaves the shop alone.
LEMMA OrderStep ==
    ASSUME OrdersInv, NEW r \in Requests, UNCHANGED O!Shop, begun' \in 0 .. MaxAsked,
           NEW q \in [pc : {"idle", "search", "by id", "post", "answered"},
                      kind : {"none", "salla", "shopify", "cancel", "return", "track"},
                      order : Orders \cup {O!Idle.order},
                      answer : {"none", "found", "not_found", "cannot_cancel",
                                "not_eligible", "done", "api_rejected", "failed"}],
           O!Goto(r, q),
           q.pc # "idle" => q.order \in Orders,
           q.pc = "post" => /\ q.kind \in {"cancel", "return"}
                            /\ q.kind = "return" => q.order \in delivered,
           q.pc = "answered" /\ q.answer = "cannot_cancel" => status[q.order] \in O!Final,
           q.pc = "answered" => q.answer # "done"
    PROVE  OrdersInv'
  <1> USE DEF OrdersInv
  <1>1. req' = [req EXCEPT ![r] = q] /\ UNCHANGED <<status, delivered, returned>>
    BY DEF O!Goto, O!Shop
  <1>2. \A p \in Requests : req'[p] = IF p = r THEN q ELSE req[p]
    BY <1>1 DEF O!TypeOK
  <1>3. O!TypeOK'  BY <1>1 DEF O!TypeOK
  <1>4. AboutAnOrder'  BY <1>2 DEF AboutAnOrder
  <1>5. DeliveredIsNoted'  BY <1>1 DEF DeliveredIsNoted
  <1>6. PostIsWarranted'
    <2>1. SUFFICES ASSUME NEW p \in Requests, req'[p].pc = "post"
                   PROVE  /\ req'[p].kind \in {"cancel", "return"}
                          /\ req'[p].kind = "return" => req'[p].order \in delivered
      BY <1>1 DEF PostIsWarranted
    <2>2. CASE p = r
      <3>1. req'[p] = q  BY <2>2, <1>2
      <3>2. QED  BY <2>1, <3>1
    <2>3. CASE p # r  BY <2>1, <2>3, <1>2 DEF PostIsWarranted
    <2>4. QED  BY <2>2, <2>3
  <1>7. \A p \in Requests : Stands(p)'
    <2>1. ASSUME NEW p \in Requests, p # r PROVE Stands(p)'
      BY <1>1, <1>2, <2>1, OthersStand
    <2>2. Stands(r)'  BY <1>1, <1>2 DEF Stands
    <2>3. QED  BY <2>1, <2>2
  <1>8. O!AnswersStand'  BY <1>7 DEF O!AnswersStand, Stands
  <1>9. O!ReturnedWasDelivered'  BY <1>1 DEF O!ReturnedWasDelivered
  <1>10. QED  BY <1>3, <1>4, <1>5, <1>6, <1>8, <1>9

-----------------------------------------------------------------------------
(* The steps                                                               *)

LEMMA ShopStep == ASSUME OrdersInv, NEW o \in Orders, O!ShopMoves(o) PROVE OrdersInv'
  <1> USE DEF OrdersInv
  <1>1. PICK s \in O!After(status[o]) :
           /\ status' = [status EXCEPT ![o] = s]
           /\ delivered' = IF s = "delivered" THEN delivered \cup {o} ELSE delivered
    BY DEF O!ShopMoves
  <1>2. UNCHANGED <<returned, req, begun>>  BY DEF O!ShopMoves
  <1>3. status[o] \in O!Statuses  BY DEF O!TypeOK
  <1>4. /\ s \in O!Statuses
        /\ status[o] \in {"canceled", "refunded"} => s \in {"canceled", "refunded"}
        /\ status[o] \in O!Final => s \in O!Final
    BY <1>1, <1>3 DEF O!After, O!Statuses, O!Final
  <1>5. \A p \in Orders : status'[p] = IF p = o THEN s ELSE status[p]
    BY <1>1 DEF O!TypeOK
  <1>6. O!TypeOK'  BY <1>1, <1>2, <1>4 DEF O!TypeOK
  <1>7. AboutAnOrder'  BY <1>2 DEF AboutAnOrder
  <1>8. DeliveredIsNoted'  BY <1>1, <1>5 DEF DeliveredIsNoted
  <1>9. delivered \subseteq delivered'  BY <1>1
  <1>10. PostIsWarranted'  BY <1>2, <1>9 DEF PostIsWarranted
  <1>11. \A p \in Requests : Stands(p)'  BY <1>2, <1>4, <1>5, OthersStand
  <1>12. O!AnswersStand'  BY <1>11 DEF O!AnswersStand, Stands
  <1>13. O!ReturnedWasDelivered'  BY <1>2, <1>9 DEF O!ReturnedWasDelivered
  <1>14. QED  BY <1>6, <1>7, <1>8, <1>10, <1>12, <1>13

LEMMA BeginStep ==
    ASSUME OrdersInv, NEW r \in Requests, NEW o \in Orders,
           NEW kind \in {"salla", "shopify", "cancel", "return", "track"},
           O!Begin(r, o, kind)
    PROVE  OrdersInv'
  <1> DEFINE q == [pc |-> "search", kind |-> kind, order |-> o, answer |-> "none"]
  <1>1. O!Goto(r, q) /\ begun < MaxAsked /\ begun' = begun + 1 /\ UNCHANGED O!Shop
    BY DEF O!Begin
  <1>2. begun \in 0 .. MaxAsked  BY DEF OrdersInv, O!TypeOK
  <1>3. begun' \in 0 .. MaxAsked  BY <1>1, <1>2, MCStoreAssumption DEF O!StoreOrdersAssumption
  <1>4. QED  BY <1>1, <1>3, OrderStep

\* Every step between the first call and the write, or the end.
LEMMA SearchStep ==
    ASSUME OrdersInv, NEW r \in Requests,
           \/ O!Misses(r) \/ O!FindToTell(r) \/ O!FindToTrack(r) \/ O!FindToCancel(r)
           \/ O!FindToReturn(r) \/ O!SearchShopify(r) \/ O!SearchById(r) \/ O!SearchFails(r)
           \/ O!PostRefused(r)
    PROVE  OrdersInv'
  <1> USE DEF OrdersInv
  <1> DEFINE answered(a) == [req[r] EXCEPT !.pc = "answered", !.answer = a]
             at(l) == [req[r] EXCEPT !.pc = l]
  <1>1. /\ UNCHANGED O!Shop /\ UNCHANGED begun
        /\ req[r].pc \in {"search", "by id", "post"}
        /\ \/ \E a \in {"found", "not_found", "not_eligible", "failed", "api_rejected"} :
                 O!Goto(r, answered(a))
           \/ /\ status[req[r].order] \in O!Final
              /\ O!Goto(r, answered("cannot_cancel"))
           \/ O!Goto(r, at("by id"))
           \/ /\ O!Goto(r, at("post"))
              /\ req[r].kind \in {"cancel", "return"}
              /\ req[r].kind = "return" => status[req[r].order] = "delivered"
    <2>1. CASE O!Misses(r)  BY <2>1 DEF O!Misses, O!Answer
    <2>2. CASE O!FindToTell(r)  BY <2>2 DEF O!FindToTell, O!Finds, O!Answer
    <2>3. CASE O!FindToTrack(r)  BY <2>3 DEF O!FindToTrack, O!Finds, O!Answer
    <2>4. CASE O!FindToCancel(r)  BY <2>4 DEF O!FindToCancel, O!Finds, O!Answer
    <2>5. CASE O!FindToReturn(r)  BY <2>5 DEF O!FindToReturn, O!Finds, O!Answer, O!Eligible
    <2>6. CASE O!SearchShopify(r)  BY <2>6 DEF O!SearchShopify, O!Answer
    <2>7. CASE O!SearchById(r)  BY <2>7 DEF O!SearchById, O!Answer
    <2>8. CASE O!SearchFails(r)  BY <2>8 DEF O!SearchFails, O!Answer
    <2>9. CASE O!PostRefused(r)  BY <2>9 DEF O!PostRefused, O!Answer
    <2>10. QED  BY <2>1, <2>2, <2>3, <2>4, <2>5, <2>6, <2>7, <2>8, <2>9
  <1>2. req[r].order \in Orders /\ begun' \in 0 .. MaxAsked
    BY <1>1 DEF AboutAnOrder, O!TypeOK
  <1>3. req[r] \in [pc : {"idle", "search", "by id", "post", "answered"},
                    kind : {"none", "salla", "shopify", "cancel", "return", "track"},
                    order : Orders \cup {O!Idle.order},
                    answer : {"none", "found", "not_found", "cannot_cancel",
                              "not_eligible", "done", "api_rejected", "failed"}]
    BY DEF O!TypeOK
  <1>4. CASE \E a \in {"found", "not_found", "not_eligible", "failed", "api_rejected"} :
                O!Goto(r, answered(a))
    <2>1. PICK a \in {"found", "not_found", "not_eligible", "failed", "api_rejected"} :
             O!Goto(r, answered(a))
      BY <1>4
    <2>2. QED  BY <2>1, <1>1, <1>2, <1>3, OrderStep
  <1>5. CASE status[req[r].order] \in O!Final /\ O!Goto(r, answered("cannot_cancel"))
    BY <1>5, <1>1, <1>2, <1>3, OrderStep
  <1>6. CASE O!Goto(r, at("by id"))  BY <1>6, <1>1, <1>2, <1>3, OrderStep
  <1>7. CASE /\ O!Goto(r, at("post"))
             /\ req[r].kind \in {"cancel", "return"}
             /\ req[r].kind = "return" => status[req[r].order] = "delivered"
    <2>1. req[r].kind = "return" => req[r].order \in delivered
      BY <1>2, <1>7 DEF DeliveredIsNoted
    <2>2. QED  BY <2>1, <1>7, <1>1, <1>2, <1>3, OrderStep
  <1>8. QED  BY <1>1, <1>4, <1>5, <1>6, <1>7

\* The shop carries a write out, whether the reply arrives or not.
LEMMA WriteStep ==
    ASSUME OrdersInv, NEW r \in Requests, O!Post(r) \/ O!PostThenFails(r)
    PROVE  OrdersInv'
  <1> USE DEF OrdersInv
  <1> DEFINE o == req[r].order
  <1>1. /\ req[r].pc = "post" /\ O!CarriedOut(r) /\ UNCHANGED begun
        /\ \E a \in {"done", "failed"} :
              req' = [req EXCEPT ![r] = [req[r] EXCEPT !.pc = "answered", !.answer = a]]
    BY DEF O!Post, O!PostThenFails, O!Answer, O!Goto
  <1>2. PICK a \in {"done", "failed"} :
           req' = [req EXCEPT ![r] = [req[r] EXCEPT !.pc = "answered", !.answer = a]]
    BY <1>1
  <1>3. o \in Orders /\ (req[r].kind = "return" => o \in delivered)
    BY <1>1 DEF AboutAnOrder, PostIsWarranted
  <1>4. /\ \A p \in Requests : p # r => req'[p] = req[p]
        /\ req'[r].pc = "answered" /\ req'[r].kind = req[r].kind /\ req'[r].order = o
        /\ req'[r].answer = a
    BY <1>2 DEF O!TypeOK
  <1>5. /\ req' \in [Requests ->
              [pc : {"idle", "search", "by id", "post", "answered"},
               kind : {"none", "salla", "shopify", "cancel", "return", "track"},
               order : Orders \cup {O!Idle.order},
               answer : {"none", "found", "not_found", "cannot_cancel", "not_eligible",
                         "done", "api_rejected", "failed"}]]
    BY <1>2 DEF O!TypeOK
  <1>6. CASE /\ req[r].kind = "cancel" /\ status' = [status EXCEPT ![o] = "canceled"]
             /\ UNCHANGED <<delivered, returned>>
    <2>1. \A p \in Orders : status'[p] = IF p = o THEN "canceled" ELSE status[p]
      BY <1>6 DEF O!TypeOK
    <2>2. O!TypeOK'  BY <1>1, <1>5, <1>6 DEF O!TypeOK, O!Statuses, O!Final
    <2>3. AboutAnOrder'  BY <1>3, <1>4 DEF AboutAnOrder
    <2>4. DeliveredIsNoted'  BY <1>6, <2>1 DEF DeliveredIsNoted
    <2>5. PostIsWarranted'  BY <1>4, <1>6 DEF PostIsWarranted
    <2>6. Stands(r)'  BY <1>3, <1>4, <1>6, <2>1 DEF Stands
    <2>7. \A p \in Requests : Stands(p)'
      BY <1>4, <1>6, <2>1, <2>6, OthersStand DEF O!Final
    <2>8. O!AnswersStand'  BY <2>7 DEF O!AnswersStand, Stands
    <2>9. O!ReturnedWasDelivered'  BY <1>6 DEF O!ReturnedWasDelivered
    <2>10. QED  BY <2>2, <2>3, <2>4, <2>5, <2>8, <2>9
  <1>7. CASE /\ req[r].kind = "return" /\ returned' = returned \cup {o}
             /\ UNCHANGED <<status, delivered>>
    <2>1. O!TypeOK'  BY <1>1, <1>3, <1>5, <1>7 DEF O!TypeOK
    <2>2. AboutAnOrder'  BY <1>3, <1>4 DEF AboutAnOrder
    <2>3. DeliveredIsNoted'  BY <1>7 DEF DeliveredIsNoted
    <2>4. PostIsWarranted'  BY <1>4, <1>7 DEF PostIsWarranted
    <2>5. Stands(r)'  BY <1>2, <1>3, <1>4, <1>7 DEF Stands
    <2>6. \A p \in Requests : Stands(p)'  BY <1>4, <1>7, <2>5, OthersStand
    <2>7. O!AnswersStand'  BY <2>6 DEF O!AnswersStand, Stands
    <2>8. O!ReturnedWasDelivered'  BY <1>3, <1>7 DEF O!ReturnedWasDelivered
    <2>9. QED  BY <2>1, <2>2, <2>3, <2>4, <2>7, <2>8
  <1>8. QED  BY <1>1, <1>6, <1>7 DEF O!CarriedOut

LEMMA LeaveOrder == ASSUME OrdersInv, NEW r \in Requests, O!Leave(r) PROVE OrdersInv'
  <1>1. begun' \in 0 .. MaxAsked /\ UNCHANGED O!Shop /\ O!Goto(r, O!Idle)
    BY DEF O!Leave, OrdersInv, O!TypeOK, O!Shop
  <1>2. O!Idle.pc = "idle"  BY DEF O!Idle
  <1>3. O!Idle \in [pc : {"idle", "search", "by id", "post", "answered"},
                  kind : {"none", "salla", "shopify", "cancel", "return", "track"},
                  order : Orders \cup {O!Idle.order},
                  answer : {"none", "found", "not_found", "cannot_cancel",
                            "not_eligible", "done", "api_rejected", "failed"}]
    BY DEF O!Idle
  <1>4. QED  BY <1>1, <1>2, <1>3, OrderStep

-----------------------------------------------------------------------------
(* The theorems                                                            *)

LEMMA InitOrders == ASSUME O!Init PROVE OrdersInv
  <1>1. O!Idle.pc = "idle"  BY DEF O!Idle
  <1>2. O!Idle \in [pc : {"idle", "search", "by id", "post", "answered"},
                  kind : {"none", "salla", "shopify", "cancel", "return", "track"},
                  order : Orders \cup {O!Idle.order},
                  answer : {"none", "found", "not_found", "cannot_cancel",
                            "not_eligible", "done", "api_rejected", "failed"}]
    BY DEF O!Idle
  <1>3. O!TypeOK
    <2>1. status \in [Orders -> O!Statuses]  BY DEF O!Init, O!Statuses
    <2>2. begun \in 0 .. MaxAsked  BY MCStoreAssumption DEF O!StoreOrdersAssumption, O!Init
    <2>3. QED  BY <1>2, <2>1, <2>2 DEF O!Init, O!TypeOK
  <1>4. AboutAnOrder /\ PostIsWarranted /\ O!AnswersStand
    BY <1>1 DEF O!Init, AboutAnOrder, PostIsWarranted, O!AnswersStand
  <1>5. DeliveredIsNoted /\ O!ReturnedWasDelivered
    BY DEF O!Init, DeliveredIsNoted, O!ReturnedWasDelivered
  <1>6. QED  BY <1>3, <1>4, <1>5 DEF OrdersInv

LEMMA NextOrders == ASSUME OrdersInv, [O!Next]_O!vars PROVE OrdersInv'
  <1>1. CASE UNCHANGED O!vars
    BY <1>1 DEF O!vars, OrdersInv, O!TypeOK, AboutAnOrder, DeliveredIsNoted, PostIsWarranted,
                O!AnswersStand, O!ReturnedWasDelivered
  <1>2. ASSUME NEW o \in Orders, O!ShopMoves(o) PROVE OrdersInv'  BY <1>2, ShopStep
  <1>3. ASSUME NEW r \in Requests, NEW o \in Orders,
               \/ O!AskStatus(r, o, "salla") \/ O!AskStatus(r, o, "shopify")
               \/ O!Cancel(r, o) \/ O!CreateReturn(r, o) \/ O!Track(r, o)
        PROVE  OrdersInv'
    <2>1. CASE O!AskStatus(r, o, "salla")  BY <2>1, BeginStep DEF O!AskStatus
    <2>2. CASE O!AskStatus(r, o, "shopify")  BY <2>2, BeginStep DEF O!AskStatus
    <2>3. CASE O!Cancel(r, o)  BY <2>3, BeginStep DEF O!Cancel
    <2>4. CASE O!CreateReturn(r, o)  BY <2>4, BeginStep DEF O!CreateReturn
    <2>5. CASE O!Track(r, o)  BY <2>5, BeginStep DEF O!Track
    <2>6. QED  BY <1>3, <2>1, <2>2, <2>3, <2>4, <2>5
  <1>4. ASSUME NEW r \in Requests,
               \/ O!Misses(r) \/ O!FindToTell(r) \/ O!FindToTrack(r) \/ O!FindToCancel(r)
               \/ O!FindToReturn(r) \/ O!SearchShopify(r) \/ O!SearchById(r) \/ O!SearchFails(r)
               \/ O!PostRefused(r)
        PROVE  OrdersInv'
    BY <1>4, SearchStep
  <1>5. ASSUME NEW r \in Requests, O!Post(r) \/ O!PostThenFails(r) PROVE OrdersInv'
    BY <1>5, WriteStep
  <1>6. ASSUME NEW r \in Requests, O!Leave(r) PROVE OrdersInv'  BY <1>6, LeaveOrder
  <1>7. QED  BY <1>1, <1>2, <1>3, <1>4, <1>5, <1>6 DEF O!Next

LEMMA OrdersInvariant == MCSpec => []OrdersInv
  <1>1. MCInit => OrdersInv  BY InitOrders DEF MCInit
  <1>2. [MCNext]_<<vars, orders, side>> => [O!Next]_O!vars
    BY DEF MCNext, orders, O!vars
  <1>3. OrdersInv /\ [MCNext]_<<vars, orders, side>> => OrdersInv'  BY <1>2, NextOrders
  <1>4. QED  BY <1>1, <1>3, PTL DEF MCSpec

\* Every reachable state of the orders is well typed.
THEOREM OrdersTypeCorrect == MCSpec => []O!TypeOK
  <1>1. OrdersInv => O!TypeOK  BY DEF OrdersInv
  <1>2. QED  BY <1>1, OrdersInvariant, PTL

\* For any number of requests and orders, and whatever the shop does between the
\* look at the status and the write: what was answered about a cancellation or a
\* return stays true, and a returned order had been delivered.
THEOREM AnswersAreTrue == MCSpec => []WritesAreTrue
  <1>1. OrdersInv => WritesAreTrue  BY DEF OrdersInv, WritesAreTrue, O!WritesAreTrue
  <1>2. QED  BY <1>1, OrdersInvariant, PTL

-----------------------------------------------------------------------------
(* The catalogue                                                           *)

Writes(q) == q.pc \in {"update", "create"}
Made(q) == {q.made[i].key : i \in DOMAIN q.made}

\* What q still has to do, is doing and has done are different keys, and it writes
\* to rows of keys it has done.
EachOnce(q) ==
    /\ \A i, j \in DOMAIN q.made : q.made[i].key = q.made[j].key => i = j
    /\ \A i \in DOMAIN q.made : ~q.made[i].deleted
    /\ Made(q) \subseteq DOMAIN q.fetched \ q.todo
    /\ \A d \in DOMAIN q.wrote : rows[d].key \in DOMAIN q.fetched \ q.todo
    /\ Writes(q) => /\ q.key \notin q.todo \cup Made(q)
                    /\ \A d \in DOMAIN q.wrote : rows[d].key # q.key
    /\ q.pc = "update" => rows[q.target].key = q.key

\* The phases of a request.
InPhase(q) ==
    /\ q.phase = "none" => q = NoRequest
    /\ q.phase = "products" => DOMAIN q.fetched \subseteq Products
    /\ q.phase \in {"salla", "salla policies"} => q.pc = "call"
    /\ q.pc = "call" => /\ q.phase \in {"salla", "salla policies"}
                        /\ q.made = <<>> /\ DOMAIN q.wrote = {}
    /\ q.phase = "answered" => q.pc = "look" /\ q.todo = {} /\ q.made = <<>>

\* A key nobody raced for has one live row, or one request that inserts it.
OneInserts(k) ==
    /\ \A d, e \in Live(k) : d = e
    /\ \A r \in Requests : Inserts(request[r], k) =>
          Live(k) = {} /\ \A v \in Requests : Inserts(request[v], k) => v = r

\* While a request is alone no other is being served.
ByItself ==
    \A r, v \in Requests : Busy(r) /\ request[r].alone /\ Busy(v) => v = r

\* What row d holds once q has committed.
Content(q, d) == IF d \in DOMAIN q.wrote THEN q.wrote[d] ELSE rows[d].content

\* q has seen to key k: the rows it finds or makes hold what it fetched.
SeenTo(q, k) ==
    \/ Cardinality(Live(k)) > 1
    \/ \E i \in DOMAIN q.made : q.made[i].key = k /\ q.made[i].content = q.fetched[k]
    \/ \E d \in Live(k) : Content(q, d) = q.fetched[k]

\* A request that is alone and has not failed has seen to every key it is done
\* with, and the row it is about to update is the one it found.
Syncs(q) ==
    q.alone /\ ~q.dead /\ q.phase \in {"products", "policies", "channel"} =>
       /\ \A k \in DOMAIN q.fetched \ (PassedOver(q.fetched) \cup q.todo) :
             (Writes(q) /\ k = q.key) \/ SeenTo(q, k)
       /\ q.pc = "update" => q.target \in Live(q.key) /\ q.seen = rows[q.target].content

\* What ZidSyncStores says of one request.
Synced(q) ==
    q.phase = "answered" /\ q.alone =>
       \A k \in DOMAIN q.fetched \ PassedOver(q.fetched) :
          \/ Cardinality(Live(k)) > 1
          \/ \E d \in Live(k) : rows[d].content = q.fetched[k]

Fits(q) == EachOnce(q) /\ InPhase(q) /\ Syncs(q) /\ Synced(q)

ShopInv == /\ TypeOK /\ ByItself
           /\ \A r \in Requests : Fits(request[r])
           /\ \A k \in Keys \ raced : OneInserts(k)

-----------------------------------------------------------------------------
(* Type correctness of the catalogue                                       *)

LEMMA PartialMakes ==
    ASSUME NEW D, NEW V, NEW K \in SUBSET D, NEW f \in [K -> V]
    PROVE  f \in Partial(D, V)
  BY DEF Partial

LEMMA PartialUses ==
    ASSUME NEW D, NEW V, NEW f \in Partial(D, V)
    PROVE  DOMAIN f \subseteq D /\ f \in [DOMAIN f -> V]
  BY DEF Partial

LEMMA NoFunction ==
    ASSUME NEW D, NEW V
    PROVE  [x \in {} |-> 0] \in Partial(D, V) /\ DOMAIN [x \in {} |-> 0] = {}
  <1>1. [x \in {} |-> 0] \in [{} -> V]  OBVIOUS
  <1>2. QED  BY <1>1, PartialMakes

LEMMA WithType ==
    ASSUME NEW D, NEW V, NEW f \in Partial(D, V), NEW d \in D, NEW v \in V
    PROVE  /\ With(f, d, v) \in Partial(D, V)
           /\ DOMAIN With(f, d, v) = DOMAIN f \cup {d}
           /\ \A e \in DOMAIN f \cup {d} : With(f, d, v)[e] = IF e = d THEN v ELSE f[e]
  <1>1. DOMAIN f \subseteq D /\ f \in [DOMAIN f -> V]  BY PartialUses
  <1>2. With(f, d, v) \in [DOMAIN f \cup {d} -> V]  BY <1>1 DEF With
  <1>3. DOMAIN f \cup {d} \in SUBSET D  BY <1>1
  <1>4. QED  BY <1>2, <1>3, PartialMakes DEF With

LEMMA AppendIs ==
    ASSUME NEW S, NEW s \in Seq(S), NEW e \in S
    PROVE  /\ Append(s, e) \in Seq(S) /\ Len(s) + 1 \notin DOMAIN s
           /\ DOMAIN Append(s, e) = DOMAIN s \cup {Len(s) + 1}
           /\ Append(s, e)[Len(s) + 1] = e
           /\ \A i \in DOMAIN s : Append(s, e)[i] = s[i]
  OBVIOUS

LEMMA VersionsAre ==
    /\ 0 \in Versions /\ 1 \in Versions
    /\ \A n \in 0 .. MaxChanges : n < MaxChanges => 2 * n + 2 \in Versions /\ 2 * n + 3 \in Versions
    /\ \A n \in 0 .. MaxRequests : n < MaxRequests => n + 1 \in Versions
  BY CatalogueAssumption DEF Versions

LEMMA CountType ==
    ASSUME TypeOK,
           \/ /\ count.requests < MaxRequests
              /\ count' = [count EXCEPT !.requests = @ + 1]
           \/ /\ count.changes < MaxChanges
              /\ count' = [count EXCEPT !.changes = @ + 1]
           \/ /\ count.deletes < MaxDeletes
              /\ count' = [count EXCEPT !.deletes = @ + 1]
    PROVE  count' \in [requests : 0 .. MaxRequests, changes : 0 .. MaxChanges,
                       deletes : 0 .. MaxDeletes]
  <1>1. count \in [requests : 0 .. MaxRequests, changes : 0 .. MaxChanges,
                   deletes : 0 .. MaxDeletes]
    BY DEF TypeOK
  <1>2. QED  BY <1>1, CatalogueAssumption

LEMMA NoRequestType ==
    ASSUME TypeOK
    PROVE  /\ NoRequest \in RequestType /\ NoRequest.pc = "look" /\ NoRequest.todo = {}
           /\ NoRequest.phase = "none" /\ NoRequest.made = <<>> /\ DOMAIN NoRequest.wrote = {}
           /\ ~NoRequest.dead
  <1>1. [x \in {} |-> 0] \in Partial(Keys, Versions)
        /\ [x \in {} |-> 0] \in Partial(DOMAIN rows, Versions)
        /\ DOMAIN [x \in {} |-> 0] = {}
    BY NoFunction
  <1>2. <<>> \in Seq(Row)  OBVIOUS
  <1>3. QED  BY <1>1, <1>2, VersionsAre DEF NoRequest, RequestType, Phases

\* A record of a request fits when its fields do.
LEMMA LocalType ==
    ASSUME TypeOK, NEW r \in Requests, NEW p \in RequestType, Local(r, p),
           p.todo \subseteq DOMAIN p.fetched,
           p.pc \in {"update", "create"} => p.key \in DOMAIN p.fetched,
           p.pc = "update" => p.target \in DOMAIN rows,
           rows' = rows, raced' \subseteq Keys
    PROVE  TypeOK' /\ \A v \in Requests : request'[v] = IF v = r THEN p ELSE request[v]
  <1>1. RequestType' = RequestType  BY DEF RequestType
  <1>2. \A v \in Requests : request'[v] = IF v = r THEN p ELSE request[v]
    BY DEF Local, TypeOK
  <1>3. request' \in [Requests -> RequestType]  BY DEF Local, TypeOK
  <1>4. UNCHANGED <<shop, sector, count>>  BY DEF Local
  <1>5. QED  BY <1>1, <1>2, <1>3, <1>4 DEF TypeOK

\* The head of the loop.
LEMMA OnwardFields ==
    ASSUME NEW q \in RequestType, NEW k
    PROVE  LET p == Onward(q, k) IN
           /\ p \in RequestType /\ p.todo = q.todo \ {k} /\ p.pc = "look"
           /\ p.phase = q.phase /\ p.fetched = q.fetched /\ p.made = q.made
           /\ p.wrote = q.wrote /\ p.dead = q.dead /\ p.alone = q.alone
  BY VersionsAre DEF Onward, RequestType

-----------------------------------------------------------------------------
(* Steps of one request before it commits                                  *)

LEMMA NoRequestFits == ASSUME TypeOK PROVE Fits(NoRequest)
  <1>1. /\ NoRequest.pc = "look" /\ NoRequest.phase = "none" /\ NoRequest.made = <<>>
        /\ DOMAIN NoRequest.wrote = {}
    BY NoRequestType
  <1>2. EachOnce(NoRequest)  BY <1>1 DEF EachOnce, Made, Writes
  <1>3. InPhase(NoRequest)  BY <1>1 DEF InPhase
  <1>4. Syncs(NoRequest) /\ Synced(NoRequest)  BY <1>1 DEF Syncs, Synced
  <1>5. QED  BY <1>2, <1>3, <1>4 DEF Fits

\* A step of r that leaves the tables alone.
LEMMA LocalKeeps ==
    ASSUME ShopInv, NEW r \in Requests, NEW p \in RequestType, Local(r, p),
           p.todo \subseteq DOMAIN p.fetched,
           p.pc \in {"update", "create"} => p.key \in DOMAIN p.fetched,
           p.pc = "update" => p.target \in DOMAIN rows,
           rows' = rows, raced' \subseteq Keys, raced \subseteq raced',
           Fits(p),
           p.phase # "none" => Busy(r) /\ p.alone = request[r].alone,
           \A k \in Keys \ raced' : Inserts(p, k) =>
              \/ Inserts(request[r], k)
              \/ Live(k) = {} /\ \A v \in Requests \ {r} : ~Inserts(request[v], k)
    PROVE  ShopInv'
  <1>1. TypeOK' /\ \A v \in Requests : request'[v] = IF v = r THEN p ELSE request[v]
    BY LocalType DEF ShopInv
  <1>2. ByItself'
    <2>1. \A v \in Requests : Busy(v)' => Busy(v) /\ request'[v].alone = request[v].alone
      BY <1>1 DEF Busy
    <2>2. QED  BY <2>1 DEF ShopInv, ByItself
  <1>3. ASSUME NEW v \in Requests PROVE Fits(request[v])'
    <2>1. PICK q : q = request'[v]  OBVIOUS
    <2>2. Fits(q)  BY <1>1, <2>1 DEF ShopInv
    <2>3. \A k : Live(k)' = Live(k)  BY DEF Live
    <2>4. EachOnce(request[v])'  BY <2>1, <2>2 DEF Fits, EachOnce, Made, Writes
    <2>5. InPhase(request[v])'  BY <2>1, <2>2 DEF Fits, InPhase
    <2>6. Syncs(request[v])'
      BY <2>1, <2>2, <2>3 DEF Fits, Syncs, Writes, SeenTo, Content
    <2>7. Synced(request[v])'  BY <2>1, <2>2, <2>3 DEF Fits, Synced
    <2>8. QED  BY <2>4, <2>5, <2>6, <2>7 DEF Fits
  <1>4. ASSUME NEW k \in Keys \ raced' PROVE OneInserts(k)'
    <2>1. OneInserts(k) /\ Live(k)' = Live(k)  BY <1>4 DEF ShopInv, Live
    <2>2. \A v \in Requests : Inserts(request[v], k)' <=>
             IF v = r THEN Inserts(p, k) ELSE Inserts(request[v], k)
      BY <1>1 DEF Inserts
    <2>3. QED  BY <2>1, <2>2 DEF OneInserts
  <1>5. QED  BY <1>1, <1>2, <1>3, <1>4 DEF ShopInv

\* r ends, whatever became of it.
LEMMA EndKeeps ==
    ASSUME ShopInv, NEW r \in Requests, Local(r, NoRequest), rows' = rows, raced' = raced
    PROVE  ShopInv'
  <1>1. TypeOK /\ raced \subseteq Keys  BY DEF ShopInv, TypeOK
  <1>2. \A k : ~Inserts(NoRequest, k)
    BY <1>1, NoRequestType DEF Inserts
  <1>3. QED  BY <1>1, <1>2, NoRequestType, NoRequestFits, LocalKeeps

\* A request that has something to do and is no Salla sync.
LEMMA AtWork ==
    ASSUME ShopInv, NEW r \in Requests, request[r].pc # "call",
           request[r].todo # {} \/ request[r].pc # "look"
    PROVE  /\ request[r].phase \in {"products", "policies", "channel"}
           /\ request[r] \in RequestType /\ Fits(request[r])
  <1>1. request[r] \in RequestType /\ Fits(request[r])  BY DEF ShopInv, TypeOK
  <1>2. request[r].phase \in Phases  BY <1>1 DEF RequestType
  <1>3. request[r].phase # "none"
    <2>1. NoRequest.todo = {} /\ NoRequest.pc = "look"  BY NoRequestType DEF ShopInv
    <2>2. QED  BY <1>1, <2>1 DEF Fits, InPhase
  <1>4. QED  BY <1>1, <1>2, <1>3 DEF Fits, InPhase, Phases

LEMMA SeenSame ==
    ASSUME NEW p, NEW q, NEW k, p.made = q.made, p.wrote = q.wrote,
           p.fetched[k] = q.fetched[k]
    PROVE  SeenTo(p, k) <=> SeenTo(q, k)
  BY DEF SeenTo, Content

\* The loop goes on after k, which is done with, passed over or doomed.
LEMMA OnwardKeeps ==
    ASSUME ShopInv, NEW r \in Requests, NEW k \in request[r].todo, request[r].pc = "look",
           request[r].dead \/ k \in PassedOver(request[r].fetched) \/ SeenTo(request[r], k),
           Local(r, Onward(request[r], k)), rows' = rows, raced' = raced
    PROVE  ShopInv'
  <1>1. PICK q : q = request[r]  OBVIOUS
  <1>2. /\ q.phase \in {"products", "policies", "channel"} /\ q \in RequestType /\ Fits(q)
        /\ q.todo \subseteq DOMAIN q.fetched /\ raced \subseteq Keys
    BY <1>1, AtWork DEF ShopInv, TypeOK
  <1>3. PICK p : p = Onward(q, k)  OBVIOUS
  <1>4. /\ p \in RequestType /\ p.todo = q.todo \ {k} /\ p.pc = "look"
        /\ p.phase = q.phase /\ p.fetched = q.fetched /\ p.made = q.made
        /\ p.wrote = q.wrote /\ p.dead = q.dead /\ p.alone = q.alone
    BY <1>2, <1>3, OnwardFields
  <1>5. EachOnce(p)
    BY <1>2, <1>4 DEF Fits, EachOnce, Made, Writes
  <1>6. InPhase(p)  BY <1>2, <1>4 DEF Fits, InPhase
  <1>7. Syncs(p)
    <2>1. ASSUME p.alone, ~p.dead, NEW l \in DOMAIN p.fetched \ (PassedOver(p.fetched) \cup p.todo)
          PROVE  SeenTo(p, l)
      <3>1. SeenTo(q, l)
        BY <1>1, <1>2, <1>4, <2>1 DEF Fits, Syncs, Writes
      <3>2. QED  BY <1>4, <3>1, SeenSame
    <2>2. QED  BY <1>4, <2>1 DEF Syncs
  <1>8. Fits(p)  BY <1>2, <1>4, <1>5, <1>6, <1>7 DEF Fits, Synced
  <1>9. \A l : Inserts(p, l) => Inserts(q, l)  BY <1>4 DEF Inserts
  <1>10. p.todo \subseteq DOMAIN p.fetched /\ Busy(r) /\ p.alone = request[r].alone
    BY <1>1, <1>2, <1>4 DEF Busy
  <1>11. Local(r, p)  BY <1>1, <1>3
  <1> HIDE <1>3
  <1>12. QED  BY <1>1, <1>2, <1>4, <1>8, <1>9, <1>10, <1>11, LocalKeeps

LEMMA SkipKeyStep == ASSUME ShopInv, NEW r \in Requests, SkipKey(r) PROVE ShopInv'
  BY OnwardKeeps DEF SkipKey, Looking, Local

LEMMA FindTwoStep == ASSUME ShopInv, NEW r \in Requests, FindTwo(r) PROVE ShopInv'
  <1>1. PICK k \in request[r].todo :
           /\ request[r].pc = "look" /\ Cardinality(Live(k)) > 1 /\ rows' = rows /\ raced' = raced
           /\ Local(r, IF request[r].phase = "channel" THEN NoRequest ELSE Onward(request[r], k))
    BY DEF FindTwo, Searches, Looking, Found, Local
  <1>2. CASE request[r].phase = "channel"  BY <1>1, <1>2, EndKeeps
  <1>3. CASE request[r].phase # "channel"
    <2>1. SeenTo(request[r], k)  BY <1>1 DEF SeenTo
    <2>2. QED  BY <1>1, <1>3, <2>1, OnwardKeeps
  <1>4. QED  BY <1>2, <1>3

\* r has searched key k, will write as l says, and keeps the row t it found and
\* its content s.
Searched(r, k, l, t, s) ==
    /\ k \in request[r].todo /\ l \in {"update", "create"}
    /\ request[r].pc = "look" /\ ~request[r].dead
    /\ Local(r, [request[r] EXCEPT !.pc = l, !.key = k, !.todo = @ \ {k},
                                   !.target = t, !.seen = s])
    /\ l = "update" => t \in Live(k) /\ s = rows[t].content /\ raced' = raced
    /\ l = "create" =>
          /\ Live(k) = {} /\ t = request[r].target /\ s = request[r].seen
          /\ raced' = IF \E v \in Requests \ {r} : Inserts(request[v], k)
                      THEN raced \cup {k} ELSE raced

\* A search that is followed by a write.
LEMMA FindStep ==
    ASSUME ShopInv, NEW r \in Requests, FindOne(r) \/ FindNone(r)
    PROVE  ShopInv'
  <1>0. \E k, l, t, s : Searched(r, k, l, t, s)
    <2>1. CASE FindOne(r)
      <3>1. PICK k, d :
               /\ k \in request[r].todo /\ d \in Live(k)
               /\ request[r].pc = "look" /\ ~request[r].dead /\ raced' = raced
               /\ Local(r, [request[r] EXCEPT !.pc = "update", !.key = k, !.todo = @ \ {k},
                                              !.target = d, !.seen = rows[d].content])
        BY <2>1 DEF FindOne, Searches, Looking, Found
      <3>2. Searched(r, k, "update", d, rows[d].content)  BY <3>1 DEF Searched
      <3>3. QED  BY <3>2
    <2>2. CASE FindNone(r)
      <3>1. PICK k \in request[r].todo :
               /\ request[r].pc = "look" /\ ~request[r].dead /\ Live(k) = {}
               /\ Local(r, [request[r] EXCEPT !.pc = "create", !.key = k, !.todo = @ \ {k}])
               /\ raced' = IF \E v \in Requests \ {r} : Inserts(request[v], k)
                           THEN raced \cup {k} ELSE raced
        BY <2>2 DEF FindNone, Searches, Looking, Found
      <3>2. request[r] \in RequestType  BY DEF ShopInv, TypeOK
      <3>3. [request[r] EXCEPT !.pc = "create", !.key = k, !.todo = @ \ {k}] =
               [request[r] EXCEPT !.pc = "create", !.key = k, !.todo = @ \ {k},
                                  !.target = request[r].target, !.seen = request[r].seen]
        BY <3>2 DEF RequestType
      <3>4. Searched(r, k, "create", request[r].target, request[r].seen)
        BY <3>1, <3>3 DEF Searched
      <3>5. QED  BY <3>4
    <2>3. QED  BY <2>1, <2>2
  <1>1. PICK k, l, t, s : Searched(r, k, l, t, s)  BY <1>0
  <1> USE DEF Searched
  <1>2. PICK q : q = request[r]  OBVIOUS
  <1>3. /\ q.phase \in {"products", "policies", "channel"} /\ q \in RequestType /\ Fits(q)
        /\ q.todo \subseteq DOMAIN q.fetched /\ raced \subseteq Keys
        /\ q.todo \subseteq Keys
    BY <1>1, <1>2, AtWork DEF ShopInv, TypeOK, RequestType
  <1>4. /\ t \in DOMAIN rows \cup {0} /\ s \in Versions
        /\ l = "update" => t \in DOMAIN rows /\ rows[t].key = k
    <2>1. CASE l = "create"  BY <1>1, <1>2, <1>3, <2>1 DEF RequestType
    <2>2. CASE l = "update"
      <3>1. t \in DOMAIN rows /\ rows[t].key = k /\ s = rows[t].content
        BY <1>1, <2>2 DEF Live
      <3>2. rows[t] \in Row  BY <3>1 DEF ShopInv, TypeOK
      <3>3. QED  BY <3>1, <3>2 DEF Row
    <2>3. QED  BY <1>1, <2>1, <2>2
  <1>5. PICK p : p = [q EXCEPT !.pc = l, !.key = k, !.todo = @ \ {k}, !.target = t, !.seen = s]
    OBVIOUS
  <1>6. /\ p \in RequestType /\ p.todo = q.todo \ {k} /\ p.pc = l /\ p.key = k
        /\ p.target = t /\ p.seen = s
        /\ p.phase = q.phase /\ p.fetched = q.fetched /\ p.made = q.made
        /\ p.wrote = q.wrote /\ p.dead = q.dead /\ p.alone = q.alone
    BY <1>1, <1>2, <1>3, <1>4, <1>5 DEF RequestType
  <1>7. Local(r, p)  BY <1>1, <1>2, <1>5
  <1> HIDE <1>5
  <1>8. EachOnce(p)
    BY <1>1, <1>2, <1>3, <1>4, <1>6 DEF Fits, EachOnce, Made, Writes
  <1>9. InPhase(p)  BY <1>1, <1>3, <1>6 DEF Fits, InPhase
  <1>10. Syncs(p)
    <2>1. ASSUME p.alone, ~p.dead,
                 NEW o \in DOMAIN p.fetched \ (PassedOver(p.fetched) \cup p.todo), o # k
          PROVE  SeenTo(p, o)
      <3>1. SeenTo(q, o)
        BY <1>1, <1>2, <1>3, <1>6, <2>1 DEF Fits, Syncs, Writes
      <3>2. QED  BY <1>6, <3>1, SeenSame
    <2>2. QED  BY <1>1, <1>6, <2>1 DEF Syncs, Writes
  <1>11. Fits(p)  BY <1>3, <1>6, <1>8, <1>9, <1>10 DEF Fits, Synced
  <1>12. ASSUME NEW o \in Keys \ raced', Inserts(p, o)
         PROVE  \/ Inserts(request[r], o)
                \/ Live(o) = {} /\ \A v \in Requests \ {r} : ~Inserts(request[v], o)
    BY <1>1, <1>2, <1>6, <1>12 DEF Inserts
  <1>13. /\ p.todo \subseteq DOMAIN p.fetched /\ Busy(r) /\ p.alone = request[r].alone
         /\ p.key \in DOMAIN p.fetched /\ (p.pc = "update" => p.target \in DOMAIN rows)
         /\ rows' = rows /\ raced' \subseteq Keys /\ raced \subseteq raced'
    BY <1>1, <1>2, <1>3, <1>4, <1>6 DEF Busy, Local
  <1>14. QED  BY <1>6, <1>7, <1>11, <1>12, <1>13, LocalKeeps

\* The flush of an UPDATE or an INSERT, and the head of the loop.
LEMMA WriteShopStep ==
    ASSUME ShopInv, NEW r \in Requests, Update(r) \/ Create(r)
    PROVE  ShopInv'
  <1>1. PICK q : q = request[r]  OBVIOUS
  <1>2. /\ q.pc \in {"update", "create"} /\ rows' = rows /\ raced' = raced
    BY <1>1 DEF Update, Create, Local
  <1>3. /\ q.phase \in {"products", "policies", "channel"} /\ q \in RequestType /\ Fits(q)
        /\ q.todo \subseteq DOMAIN q.fetched /\ raced \subseteq Keys
        /\ q.key \in DOMAIN q.fetched /\ q.fetched \in Partial(Keys, Versions)
        /\ q.wrote \in Partial(DOMAIN rows, Versions) /\ q.made \in Seq(Row)
        /\ q.pc = "update" => q.target \in DOMAIN rows
    BY <1>1, <1>2, AtWork DEF ShopInv, TypeOK, RequestType
  <1>4. q.key \in Keys /\ q.fetched[q.key] \in Versions
    BY <1>3, PartialUses
  <1> DEFINE new == [key |-> q.key, deleted |-> FALSE, content |-> q.fetched[q.key]]
  <1>5. new \in Row /\ new.key = q.key /\ new.content = q.fetched[q.key] /\ ~new.deleted
    BY <1>4 DEF Row
  <1>6. PICK o : o = Onward(q, q.key)  OBVIOUS
  <1>7. /\ o \in RequestType /\ o.todo = q.todo \ {q.key} /\ o.pc = "look"
        /\ o.phase = q.phase /\ o.fetched = q.fetched /\ o.made = q.made
        /\ o.wrote = q.wrote /\ o.dead = q.dead /\ o.alone = q.alone
    BY <1>3, <1>6, OnwardFields
  <1>8. q.key \notin q.todo \cup Made(q) /\ \A d \in DOMAIN q.wrote : rows[d].key # q.key
    BY <1>2, <1>3 DEF Fits, EachOnce, Writes
  <1>9. PICK m, w, p :
           /\ p = [o EXCEPT !.made = m, !.wrote = w] /\ Local(r, p)
           /\ \/ q.pc = "update" /\ m = q.made /\ w = q.wrote /\ q.fetched[q.key] = q.seen
              \/ /\ q.pc = "update" /\ m = q.made
                 /\ w = With(q.wrote, q.target, q.fetched[q.key])
              \/ q.pc = "create" /\ m = Append(q.made, new) /\ w = q.wrote
    <2>1. CASE Update(r) /\ q.fetched[q.key] = q.seen
      <3>1. q.pc = "update" /\ Local(r, o)  BY <1>1, <1>6, <2>1 DEF Update
      <3>2. o = [o EXCEPT !.made = q.made, !.wrote = q.wrote]  BY <1>7 DEF RequestType
      <3>3. QED  BY <2>1, <3>1, <3>2
    <2>2. CASE Update(r) /\ q.fetched[q.key] # q.seen
      <3>1. q.pc = "update"
            /\ Local(r, [o EXCEPT !.wrote = With(q.wrote, q.target, q.fetched[q.key])])
        BY <1>1, <1>6, <1>7, <2>2 DEF Update
      <3>2. [o EXCEPT !.wrote = With(q.wrote, q.target, q.fetched[q.key])] =
               [o EXCEPT !.made = q.made, !.wrote = With(q.wrote, q.target, q.fetched[q.key])]
        BY <1>7 DEF RequestType
      <3>3. QED  BY <3>1, <3>2
    <2>3. CASE Create(r)
      <3>1. q.pc = "create" /\ Local(r, [o EXCEPT !.made = Append(q.made, new)])
        BY <1>1, <1>6, <1>7, <2>3 DEF Create
      <3>2. [o EXCEPT !.made = Append(q.made, new)] =
               [o EXCEPT !.made = Append(q.made, new), !.wrote = q.wrote]
        BY <1>7 DEF RequestType
      <3>3. QED  BY <3>1, <3>2
    <2>4. QED  BY <2>1, <2>2, <2>3
  <1>21. p = [o EXCEPT !.made = m, !.wrote = w]  BY <1>9
  <1> HIDE DEF new
  <1>22. /\ q.pc = "create" =>
              /\ m \in Seq(Row) /\ DOMAIN m = DOMAIN q.made \cup {Len(q.made) + 1}
              /\ m[Len(q.made) + 1] = new /\ \A i \in DOMAIN q.made : m[i] = q.made[i]
         /\ q.pc = "update" => m = q.made
    <2>1. CASE q.pc = "create"
      <3>1. m = Append(q.made, new)  BY <1>9, <2>1
      <3>2. QED  BY <1>3, <1>5, <2>1, <3>1, AppendIs
    <2>2. CASE q.pc = "update"  BY <1>9, <2>2
    <2>3. QED  BY <1>2, <2>1, <2>2
  <1>23. \/ /\ w = q.wrote
            /\ q.pc = "update" => q.fetched[q.key] = q.seen
         \/ /\ q.pc = "update" /\ q.target \in DOMAIN w /\ w[q.target] = q.fetched[q.key]
            /\ w \in Partial(DOMAIN rows, Versions) /\ DOMAIN w = DOMAIN q.wrote \cup {q.target}
            /\ \A d \in DOMAIN q.wrote : d # q.target => w[d] = q.wrote[d]
    <2>1. CASE q.pc = "update" /\ w = With(q.wrote, q.target, q.fetched[q.key])
      <3>1. q.target \in DOMAIN rows  BY <1>3, <2>1
      <3>2. /\ w \in Partial(DOMAIN rows, Versions) /\ DOMAIN w = DOMAIN q.wrote \cup {q.target}
            /\ \A d \in DOMAIN q.wrote \cup {q.target} :
                  w[d] = IF d = q.target THEN q.fetched[q.key] ELSE q.wrote[d]
        <4> DEFINE f == q.wrote
                   d == q.target
                   v == q.fetched[q.key]
        <4>1. f \in Partial(DOMAIN rows, Versions) /\ d \in DOMAIN rows /\ v \in Versions
          BY <1>3, <1>4, <3>1
        <4>2. w = With(f, d, v)  BY <2>1
        <4> HIDE DEF f, d, v
        <4>3. /\ w \in Partial(DOMAIN rows, Versions) /\ DOMAIN w = DOMAIN f \cup {d}
              /\ \A e \in DOMAIN f \cup {d} : w[e] = IF e = d THEN v ELSE f[e]
          BY <4>1, <4>2, WithType
        <4>4. QED  BY <4>3 DEF f, d, v
      <3>3. QED  BY <2>1, <3>2
    <2>2. QED  BY <1>9, <2>1
  <1>10. m \in Seq(Row) /\ w \in Partial(DOMAIN rows, Versions)
    BY <1>2, <1>3, <1>22, <1>23
  <1>11. /\ p \in RequestType /\ p.todo = q.todo /\ p.pc = "look" /\ p.made = m /\ p.wrote = w
         /\ p.phase = q.phase /\ p.fetched = q.fetched /\ p.dead = q.dead /\ p.alone = q.alone
    <2>1. q.todo \ {q.key} = q.todo  BY <1>8
    <2>2. QED  BY <1>7, <1>10, <1>21, <2>1 DEF RequestType
  <1> DEFINE n == Len(q.made) + 1
  <1>12. /\ q.pc = "update" => m = q.made
         /\ q.pc = "create" => /\ DOMAIN m = DOMAIN q.made \cup {n} /\ m[n] = new
                               /\ \A i \in DOMAIN q.made : m[i] = q.made[i]
    BY <1>22
  <1> HIDE DEF n
  <1>13. EachOnce(p)
    <2>1. /\ \A i, j \in DOMAIN m : m[i].key = m[j].key => i = j
          /\ \A i \in DOMAIN m : ~m[i].deleted
          /\ \A i \in DOMAIN m : m[i].key \in DOMAIN q.fetched \ q.todo
      <3>1. /\ \A i, j \in DOMAIN q.made : q.made[i].key = q.made[j].key => i = j
            /\ \A i \in DOMAIN q.made : ~q.made[i].deleted /\ q.made[i].key # q.key
            /\ \A i \in DOMAIN q.made : q.made[i].key \in DOMAIN q.fetched \ q.todo
        BY <1>3, <1>8 DEF Fits, EachOnce, Made
      <3>2. CASE q.pc = "update"  BY <1>12, <3>1, <3>2
      <3>3. CASE q.pc = "create"
        <4>1. \A i \in DOMAIN m : i \in DOMAIN q.made \/ i = n
          BY <1>12, <3>3
        <4>2. m[n].key = q.key /\ ~m[n].deleted  BY <1>5, <1>12, <3>3
        <4>3. \A i \in DOMAIN q.made : i \in DOMAIN m /\ m[i] = q.made[i]  BY <1>12, <3>3
        <4>4. QED  BY <1>3, <1>8, <3>1, <4>1, <4>2, <4>3
      <3>4. QED  BY <1>2, <3>2, <3>3
    <2>2. \A d \in DOMAIN w : rows[d].key \in DOMAIN q.fetched \ q.todo
      <3>1. \A d \in DOMAIN q.wrote : rows[d].key \in DOMAIN q.fetched \ q.todo
        BY <1>3 DEF Fits, EachOnce
      <3>2. CASE w = q.wrote  BY <3>1, <3>2
      <3>3. CASE q.pc = "update" /\ DOMAIN w = DOMAIN q.wrote \cup {q.target}
        <4>1. rows[q.target].key = q.key  BY <1>3, <3>3 DEF Fits, EachOnce
        <4>2. QED  BY <1>3, <1>8, <3>1, <3>3, <4>1
      <3>4. QED  BY <1>23, <3>2, <3>3
    <2>3. QED  BY <1>11, <2>1, <2>2 DEF EachOnce, Made, Writes
  <1>14. InPhase(p)  BY <1>3, <1>11 DEF Fits, InPhase
  <1>15. Syncs(p)
    <2>1. ASSUME p.alone, ~p.dead, NEW k \in DOMAIN p.fetched \ (PassedOver(p.fetched) \cup p.todo)
          PROVE  SeenTo(p, k)
      <3>1. CASE k # q.key
        <4>1. SeenTo(q, k)
          BY <1>3, <1>11, <2>1, <3>1 DEF Fits, Syncs
        <4>2. \A i \in DOMAIN q.made : i \in DOMAIN m /\ m[i] = q.made[i]
          BY <1>2, <1>12
        <4>3. ASSUME NEW d \in Live(k) PROVE Content(p, d) = Content(q, d)
          <5>1. CASE w = q.wrote  BY <1>11, <5>1 DEF Content
          <5>2. CASE /\ q.pc = "update" /\ DOMAIN w = DOMAIN q.wrote \cup {q.target}
                     /\ \A e \in DOMAIN q.wrote : e # q.target => w[e] = q.wrote[e]
            <6>1. rows[q.target].key = q.key  BY <1>3, <5>2 DEF Fits, EachOnce
            <6>2. d # q.target  BY <3>1, <6>1 DEF Live
            <6>3. QED  BY <1>11, <5>2, <6>2 DEF Content
          <5>3. QED  BY <1>23, <5>1, <5>2
        <4>4. QED  BY <1>11, <4>1, <4>2, <4>3 DEF SeenTo
      <3>2. CASE k = q.key /\ q.pc = "create"
        <4>1. n \in DOMAIN m /\ m[n] = new  BY <1>12, <3>2
        <4>2. QED  BY <1>5, <1>11, <3>2, <4>1 DEF SeenTo
      <3>3. CASE k = q.key /\ q.pc = "update"
        <4>1. q.target \in Live(k) /\ q.seen = rows[q.target].content
          BY <1>3, <1>11, <2>1, <3>3 DEF Fits, Syncs
        <4>2. q.target \notin DOMAIN q.wrote
          BY <1>8, <3>3, <4>1 DEF Live
        <4>3. Content(p, q.target) = q.fetched[k]
          <5>1. CASE w = q.wrote /\ q.fetched[q.key] = q.seen
            BY <1>11, <3>3, <4>1, <4>2, <5>1 DEF Content
          <5>2. CASE q.target \in DOMAIN w /\ w[q.target] = q.fetched[q.key]
            BY <1>11, <3>3, <5>2 DEF Content
          <5>3. QED  BY <1>23, <3>3, <5>1, <5>2
        <4>4. QED  BY <1>11, <4>1, <4>3 DEF SeenTo
      <3>4. QED  BY <1>2, <3>1, <3>2, <3>3
    <2>2. QED  BY <1>11, <2>1 DEF Syncs
  <1>16. Fits(p)  BY <1>3, <1>11, <1>13, <1>14, <1>15 DEF Fits, Synced
  <1>17. ASSUME NEW k, Inserts(p, k) PROVE Inserts(q, k)
    <2>1. PICK i \in DOMAIN m : m[i].key = k  BY <1>11, <1>17 DEF Inserts
    <2>2. CASE i \in DOMAIN q.made  BY <1>2, <1>12, <2>1, <2>2 DEF Inserts
    <2>3. CASE i \notin DOMAIN q.made
      <3>1. q.pc = "create" /\ m[i] = new  BY <1>2, <1>12, <2>1, <2>3
      <3>2. QED  BY <1>5, <2>1, <3>1 DEF Inserts
    <2>4. QED  BY <2>2, <2>3
  <1>18. p.todo \subseteq DOMAIN p.fetched /\ Busy(r) /\ p.alone = request[r].alone
    BY <1>1, <1>3, <1>11 DEF Busy
  <1>19. Local(r, p)  BY <1>9
  <1>20. QED  BY <1>1, <1>2, <1>3, <1>11, <1>16, <1>17, <1>18, <1>19, LocalKeeps

LEMMA FlushFailsStep == ASSUME ShopInv, NEW r \in Requests, FlushFails(r) PROVE ShopInv'
  <1>1. PICK q : q = request[r]  OBVIOUS
  <1>2. q.pc \in {"update", "create"} /\ rows' = rows /\ raced' = raced
    BY <1>1 DEF FlushFails, Local
  <1>3. CASE q.phase = "channel"
    BY <1>1, <1>2, <1>3, EndKeeps DEF FlushFails
  <1>4. CASE q.phase # "channel"
    <2>1. /\ q \in RequestType /\ Fits(q) /\ q.todo \subseteq DOMAIN q.fetched
          /\ raced \subseteq Keys /\ q.phase \in {"products", "policies"}
      BY <1>1, <1>2, <1>4, AtWork DEF ShopInv, TypeOK
    <2>2. PICK o : o = Onward(q, q.key)  OBVIOUS
    <2>3. /\ o \in RequestType /\ o.todo = q.todo \ {q.key} /\ o.pc = "look"
          /\ o.phase = q.phase /\ o.fetched = q.fetched /\ o.alone = q.alone
      BY <2>1, <2>2, OnwardFields
    <2>4. PICK p : p = [o EXCEPT !.dead = TRUE, !.made = <<>>, !.wrote = [d \in {} |-> 0]]
      OBVIOUS
    <2>5. Local(r, p)  BY <1>1, <1>4, <2>2, <2>4 DEF FlushFails
    <2>6. [d \in {} |-> 0] \in Partial(DOMAIN rows, Versions) /\ DOMAIN [d \in {} |-> 0] = {}
          /\ <<>> \in Seq(Row)
      BY NoFunction
    <2>7. /\ p \in RequestType /\ p.todo = q.todo \ {q.key} /\ p.pc = "look"
          /\ p.phase = q.phase /\ p.fetched = q.fetched /\ p.alone = q.alone
          /\ p.dead /\ p.made = <<>> /\ DOMAIN p.wrote = {}
      BY <2>3, <2>4, <2>6 DEF RequestType
    <2>8. EachOnce(p) /\ Syncs(p) /\ Synced(p)
      BY <2>1, <2>7 DEF EachOnce, Made, Writes, Syncs, Synced
    <2>9. InPhase(p)  BY <2>1, <2>7 DEF Fits, InPhase
    <2>10. Fits(p)  BY <2>8, <2>9 DEF Fits
    <2>11. \A k : ~Inserts(p, k)  BY <2>7 DEF Inserts
    <2>12. p.todo \subseteq DOMAIN p.fetched /\ Busy(r) /\ p.alone = request[r].alone
      BY <1>1, <2>1, <2>7 DEF Busy
    <2>13. QED  BY <1>2, <2>1, <2>5, <2>7, <2>10, <2>11, <2>12, LocalKeeps
  <1>5. QED  BY <1>3, <1>4

LEMMA FetchPoliciesStep == ASSUME ShopInv, NEW r \in Requests, FetchPolicies(r) PROVE ShopInv'
  <1>1. PICK q : q = request[r]  OBVIOUS
  <1>2. /\ q.phase = "products" /\ q.pc = "look" /\ q.todo = {} /\ rows' = rows /\ raced' = raced
        /\ q \in RequestType /\ Fits(q) /\ raced \subseteq Keys
        /\ q.fetched \in Partial(Keys, Versions) /\ shop[Policies] \in Versions
        /\ Policies \in Keys
    BY <1>1 DEF FetchPolicies, Finished, Local, ShopInv, TypeOK, RequestType, Shown, Keys
  <1>3. Policies \notin DOMAIN q.fetched
    BY <1>2, CatalogueAssumption DEF Fits, InPhase
  <1>4. PICK t, f :
           /\ Local(r, [q EXCEPT !.phase = "policies", !.todo = t, !.fetched = f])
           /\ \/ t = {} /\ f = q.fetched
              \/ t = {Policies} /\ f = With(q.fetched, Policies, shop[Policies])
    <2>1. CASE Local(r, [q EXCEPT !.phase = "policies"])
      <3>1. [q EXCEPT !.phase = "policies"] =
               [q EXCEPT !.phase = "policies", !.todo = {}, !.fetched = q.fetched]
        BY <1>2 DEF RequestType
      <3>2. QED  BY <2>1, <3>1
    <2>2. CASE Local(r, [q EXCEPT !.phase = "policies", !.todo = {Policies},
                                  !.fetched = With(@, Policies, shop[Policies])])
      <3>1. [q EXCEPT !.phase = "policies", !.todo = {Policies},
                      !.fetched = With(@, Policies, shop[Policies])] =
               [q EXCEPT !.phase = "policies", !.todo = {Policies},
                         !.fetched = With(q.fetched, Policies, shop[Policies])]
        BY <1>2 DEF RequestType
      <3>2. QED  BY <2>2, <3>1
    <2>3. QED  BY <1>1, <2>1, <2>2 DEF FetchPolicies
  <1>5. /\ f \in Partial(Keys, Versions) /\ DOMAIN f = DOMAIN q.fetched \cup t
        /\ \A k \in DOMAIN q.fetched : f[k] = q.fetched[k]
        /\ t \in SUBSET Keys /\ t \cap DOMAIN q.fetched = {}
    <2>1. CASE t = {}  BY <1>2, <1>4, <2>1
    <2>2. CASE t = {Policies} /\ f = With(q.fetched, Policies, shop[Policies])
      <3> DEFINE g == q.fetched
                 v == shop[Policies]
      <3>1. g \in Partial(Keys, Versions) /\ v \in Versions /\ f = With(g, Policies, v)
        BY <1>2, <2>2
      <3>2. t = {Policies} /\ Policies \notin DOMAIN g  BY <1>3, <2>2
      <3> HIDE DEF g, v
      <3>3. /\ f \in Partial(Keys, Versions) /\ DOMAIN f = DOMAIN g \cup {Policies}
            /\ \A e \in DOMAIN g \cup {Policies} : f[e] = IF e = Policies THEN v ELSE g[e]
        <4>1. DOMAIN g \subseteq Keys /\ g \in [DOMAIN g -> Versions] /\ Policies \in Keys
          BY <1>2, <3>1, PartialUses
        <4>2. f \in [DOMAIN g \cup {Policies} -> Versions]
          BY <3>1, <4>1 DEF With
        <4>3. f \in Partial(Keys, Versions)  BY <4>1, <4>2, PartialMakes
        <4>4. QED  BY <3>1, <4>3 DEF With
      <3>4. /\ DOMAIN f = DOMAIN g \cup t /\ \A k \in DOMAIN g : f[k] = g[k]
            /\ t \in SUBSET Keys /\ t \cap DOMAIN g = {}
        BY <1>2, <3>2, <3>3
      <3>5. QED  BY <3>3, <3>4 DEF g
    <2>3. QED  BY <1>4, <2>1, <2>2
  <1>6. PICK p : p = [q EXCEPT !.phase = "policies", !.todo = t, !.fetched = f]  OBVIOUS
  <1>7. /\ p \in RequestType /\ p.todo = t /\ p.pc = "look" /\ p.phase = "policies"
        /\ p.fetched = f /\ p.made = q.made /\ p.wrote = q.wrote /\ p.dead = q.dead
        /\ p.alone = q.alone
    BY <1>2, <1>5, <1>6 DEF RequestType, Phases
  <1>8. EachOnce(p)  BY <1>2, <1>5, <1>7 DEF Fits, EachOnce, Made, Writes
  <1>9. InPhase(p) /\ Synced(p)  BY <1>7 DEF InPhase, Synced
  <1>10. Syncs(p)
    <2>1. ASSUME p.alone, ~p.dead, NEW k \in DOMAIN p.fetched \ (PassedOver(p.fetched) \cup p.todo)
          PROVE  SeenTo(p, k)
      <3>1. k \in DOMAIN q.fetched /\ p.fetched[k] = q.fetched[k]  BY <1>5, <1>7, <2>1
      <3>2. k \notin PassedOver(q.fetched)  BY <1>7, <2>1, <3>1 DEF PassedOver
      <3>3. SeenTo(q, k)  BY <1>2, <1>7, <2>1, <3>1, <3>2 DEF Fits, Syncs, Writes
      <3>4. QED  BY <1>7, <3>1, <3>3, SeenSame
    <2>2. QED  BY <1>7, <2>1 DEF Syncs
  <1>11. Fits(p)  BY <1>8, <1>9, <1>10 DEF Fits
  <1>12. \A k : Inserts(p, k) => Inserts(request[r], k)  BY <1>1, <1>7 DEF Inserts
  <1>13. p.todo \subseteq DOMAIN p.fetched /\ Busy(r) /\ p.alone = request[r].alone
    BY <1>1, <1>2, <1>5, <1>7 DEF Busy
  <1>14. Local(r, p)  BY <1>4, <1>6
  <1>15. QED  BY <1>2, <1>7, <1>11, <1>12, <1>13, <1>14, LocalKeeps

\* A Salla sync writes nothing.
LEMMA SallaStep ==
    ASSUME ShopInv, NEW r \in Requests, SallaWriteRaises(r) \/ SallaStoreInfo(r)
    PROVE  ShopInv'
  <1>1. PICK q : q = request[r]  OBVIOUS
  <1>2. /\ q \in RequestType /\ Fits(q) /\ raced \subseteq Keys /\ rows' = rows /\ raced' = raced
        /\ q.pc = "call" /\ q.phase \in {"salla", "salla policies"}
    BY <1>1 DEF SallaWriteRaises, SallaStoreInfo, Local, ShopInv, TypeOK, Fits, InPhase
  <1>3. q.fetched \in Partial(Keys, Versions)  BY <1>2 DEF RequestType
  <1>4. PICK l, t, f :
           /\ Local(r, [q EXCEPT !.phase = l, !.todo = t, !.fetched = f])
           /\ l \in {"salla", "salla policies"} /\ t \subseteq DOMAIN f
           /\ f \in Partial(Keys, Versions) /\ t \in SUBSET Keys
    <2>1. CASE SallaWriteRaises(r)
      <3>1. Local(r, [q EXCEPT !.todo = {}])  BY <1>1, <2>1 DEF SallaWriteRaises
      <3>2. [q EXCEPT !.todo = {}] =
               [q EXCEPT !.phase = q.phase, !.todo = {}, !.fetched = q.fetched]
        BY <1>2 DEF RequestType
      <3>3. QED  BY <1>2, <1>3, <3>1, <3>2
    <2>2. CASE SallaStoreInfo(r)
      <3>1. PICK docs \in SallaPolicies :
               Local(r, [q EXCEPT !.phase = "salla policies", !.todo = docs,
                                  !.fetched = [k \in docs |-> shop[k]]])
        BY <1>1, <2>2 DEF SallaStoreInfo
      <3>2. docs \in SUBSET Keys /\ docs \subseteq Shown
        BY <3>1 DEF SallaPolicies, Shown, Keys
      <3>3. [k \in docs |-> shop[k]] \in [docs -> Versions]  BY <3>2 DEF ShopInv, TypeOK
      <3>4. [k \in docs |-> shop[k]] \in Partial(Keys, Versions)
        BY <3>2, <3>3, PartialMakes
      <3>5. PICK g : g = [k \in docs |-> shop[k]]  OBVIOUS
      <3>6. DOMAIN g = docs /\ g \in Partial(Keys, Versions)  BY <3>4, <3>5
      <3>7. Local(r, [q EXCEPT !.phase = "salla policies", !.todo = docs, !.fetched = g])
        BY <3>1, <3>5
      <3>8. QED  BY <3>2, <3>6, <3>7
    <2>3. QED  BY <2>1, <2>2
  <1>5. PICK p : p = [q EXCEPT !.phase = l, !.todo = t, !.fetched = f]  OBVIOUS
  <1>6. /\ p \in RequestType /\ p.todo = t /\ p.pc = "call" /\ p.phase = l /\ p.fetched = f
        /\ p.made = q.made /\ p.wrote = q.wrote /\ p.alone = q.alone
    BY <1>2, <1>4, <1>5 DEF RequestType, Phases
  <1>7. p.made = <<>> /\ DOMAIN p.wrote = {}  BY <1>2, <1>6 DEF Fits, InPhase
  <1>8. Fits(p)
    <2>1. EachOnce(p)  BY <1>6, <1>7 DEF EachOnce, Made, Writes
    <2>2. InPhase(p)  BY <1>4, <1>6, <1>7 DEF InPhase
    <2>3. Syncs(p) /\ Synced(p)  BY <1>4, <1>6 DEF Syncs, Synced
    <2>4. QED  BY <2>1, <2>2, <2>3 DEF Fits
  <1>9. \A k : ~Inserts(p, k)  BY <1>6, <1>7 DEF Inserts
  <1>10. p.todo \subseteq DOMAIN p.fetched /\ Busy(r) /\ p.alone = request[r].alone
    BY <1>1, <1>2, <1>4, <1>6 DEF Busy
  <1>11. Local(r, p)  BY <1>4, <1>5
  <1>12. QED  BY <1>2, <1>6, <1>8, <1>9, <1>10, <1>11, LocalKeeps

LEMMA EndStep ==
    ASSUME ShopInv, NEW r \in Requests, CommitRefused(r) \/ Leave(r)
    PROVE  ShopInv'
  BY EndKeeps DEF CommitRefused, Leave, Local

-----------------------------------------------------------------------------
(* Steps that others see                                                   *)

\* Types only grow with the table.
LEMMA TypesGrow ==
    ASSUME DOMAIN rows \subseteq DOMAIN rows'
    PROVE  RequestType \subseteq RequestType'
  <1>1. Partial(DOMAIN rows, Versions) \subseteq Partial(DOMAIN rows', Versions)
    BY DEF Partial
  <1>2. QED  BY <1>1 DEF RequestType

\* Requests that take no step while the table changes fit as before: their rows
\* keep their keys, and one that is still alone sees nothing change.
LEMMA FitsStill ==
    ASSUME ShopInv, NEW v \in Requests, NEW a \in BOOLEAN,
           DOMAIN rows \subseteq DOMAIN rows',
           \A d \in DOMAIN rows : rows'[d].key = rows[d].key,
           request'[v] = [request[v] EXCEPT !.alone = @ /\ a],
           ~Busy(v) => a,
           a /\ Busy(v) /\ request[v].alone =>
              \A k \in Keys : Live(k)' = Live(k) /\ \A d \in Live(k) : rows'[d] = rows[d]
    PROVE  /\ request'[v] \in RequestType' /\ Fits(request[v])'
           /\ request'[v].todo \subseteq DOMAIN request'[v].fetched
           /\ request'[v].pc \in {"update", "create"} =>
                 request'[v].key \in DOMAIN request'[v].fetched
           /\ request'[v].pc = "update" => request'[v].target \in DOMAIN rows'
           /\ \A k : Inserts(request[v], k)' <=> Inserts(request[v], k)
           /\ Busy(v)' <=> Busy(v)
           /\ request'[v].alone <=> request[v].alone /\ a
  <1>1. PICK q : q = request[v]  OBVIOUS
  <1>2. PICK p : p = request'[v]  OBVIOUS
  <1>3. /\ q \in RequestType /\ Fits(q) /\ q.todo \subseteq DOMAIN q.fetched
        /\ q.pc \in {"update", "create"} => q.key \in DOMAIN q.fetched
        /\ q.pc = "update" => q.target \in DOMAIN rows
        /\ q.wrote \in Partial(DOMAIN rows, Versions)
        /\ q.fetched \in Partial(Keys, Versions)
    BY <1>1 DEF ShopInv, TypeOK, RequestType
  <1>4. /\ p \in RequestType /\ p.phase = q.phase /\ p.pc = q.pc /\ p.todo = q.todo
        /\ p.key = q.key /\ p.target = q.target /\ p.seen = q.seen /\ p.fetched = q.fetched
        /\ p.made = q.made /\ p.wrote = q.wrote /\ p.dead = q.dead
        /\ p.alone = (q.alone /\ a)
    BY <1>1, <1>2, <1>3 DEF RequestType
  <1>5. p \in RequestType'  BY <1>4, TypesGrow
  <1>6. DOMAIN q.wrote \subseteq DOMAIN rows /\ DOMAIN q.fetched \subseteq Keys
    BY <1>3, PartialUses
  <1>7. EachOnce(request[v])'
    BY <1>2, <1>3, <1>4, <1>6 DEF Fits, EachOnce, Made, Writes
  <1>8. p.phase = "none" => p = NoRequest
    <2>1. ASSUME p.phase = "none" PROVE p = q
      <3>1. a  BY <1>1, <1>4, <2>1 DEF Busy
      <3>2. [q EXCEPT !.alone = @ /\ a] = q  BY <1>3, <3>1 DEF RequestType
      <3>3. QED  BY <1>1, <1>2, <3>2
    <2>2. QED  BY <1>3, <1>4, <2>1 DEF Fits, InPhase
  <1>9. InPhase(request[v])'  BY <1>2, <1>3, <1>4, <1>8 DEF Fits, InPhase
  <1>10. ASSUME a /\ Busy(v) /\ q.alone
         PROVE  Syncs(request[v])' /\ Synced(request[v])'
    <2>1. \A k \in Keys : Live(k)' = Live(k) /\ \A d \in Live(k) : rows'[d] = rows[d]
      BY <1>1, <1>10
    <2>2. ASSUME NEW k \in DOMAIN q.fetched PROVE SeenTo(q, k) => SeenTo(request[v], k)'
      BY <1>2, <1>4, <1>6, <2>1 DEF SeenTo, Content
    <2>3. Syncs(request[v])'
      <3>1. ASSUME p.alone, ~p.dead, p.phase \in {"products", "policies", "channel"},
                   NEW k \in DOMAIN p.fetched \ (PassedOver(p.fetched) \cup p.todo),
                   ~(Writes(p) /\ k = p.key)
            PROVE  SeenTo(request[v], k)'
        <4>1. SeenTo(q, k)  BY <1>3, <1>4, <3>1 DEF Fits, Syncs, Writes
        <4>2. QED  BY <1>4, <2>2, <3>1, <4>1
      <3>2. ASSUME p.alone, ~p.dead, p.phase \in {"products", "policies", "channel"},
                   p.pc = "update"
            PROVE  p.target \in Live(p.key)' /\ p.seen = rows'[p.target].content
        <4>1. /\ q.target \in Live(q.key) /\ q.seen = rows[q.target].content
              /\ q.key \in Keys
          BY <1>3, <1>4, <1>6, <3>2 DEF Fits, Syncs
        <4>2. QED  BY <1>4, <2>1, <4>1
      <3>3. QED  BY <1>2, <3>1, <3>2 DEF Syncs, Writes
    <2>4. Synced(request[v])'
      <3>1. ASSUME p.phase = "answered", NEW k \in DOMAIN p.fetched \ PassedOver(p.fetched)
            PROVE  \/ Cardinality(Live(k)') > 1
                   \/ \E d \in Live(k)' : rows'[d].content = p.fetched[k]
        <4>1. \/ Cardinality(Live(k)) > 1
              \/ \E d \in Live(k) : rows[d].content = q.fetched[k]
          BY <1>3, <1>4, <1>10, <3>1 DEF Fits, Synced
        <4>2. k \in Keys  BY <1>4, <1>6, <3>1
        <4>3. QED  BY <1>4, <2>1, <4>1, <4>2
      <3>2. QED  BY <1>2, <3>1 DEF Synced
    <2>5. QED  BY <2>3, <2>4
  <1>11. ASSUME ~(a /\ Busy(v) /\ q.alone)
         PROVE  Syncs(request[v])' /\ Synced(request[v])'
    <2>1. ~p.alone \/ p.phase = "none"  BY <1>1, <1>4, <1>11 DEF Busy
    <2>2. Syncs(request[v])' /\ Synced(request[v])'  BY <1>2, <2>1 DEF Syncs, Synced
    <2>3. QED  BY <2>2
  <1>12. Syncs(request[v])' /\ Synced(request[v])'  BY <1>10, <1>11
  <1>13. Fits(request[v])'  BY <1>7, <1>9, <1>12 DEF Fits
  <1>14. (\A k : Inserts(request[v], k)' <=> Inserts(request[v], k)) /\ (Busy(v)' <=> Busy(v))
    BY <1>1, <1>2, <1>4 DEF Inserts, Busy
  <1>15. QED  BY <1>1, <1>2, <1>3, <1>4, <1>5, <1>13, <1>14

\* A request starts; nobody who is at work is alone any more.
LEMMA StartKeeps ==
    ASSUME ShopInv, NEW r \in Requests, NEW new \in RequestType, Start(r, new),
           new.todo = DOMAIN new.fetched, new.made = <<>>, DOMAIN new.wrote = {},
           new.phase \in {"products", "channel", "salla"},
           new.pc = IF new.phase = "salla" THEN "call" ELSE "look",
           new.phase = "products" => DOMAIN new.fetched \subseteq Products
    PROVE  ShopInv'
  <1>1. PICK b \in BOOLEAN : b = \A u \in Requests : ~Busy(u)  OBVIOUS
  <1>2. PICK p : p = [new EXCEPT !.alone = b]  OBVIOUS
  <1>3. /\ p \in RequestType /\ p.todo = new.todo /\ p.fetched = new.fetched /\ p.pc = new.pc
        /\ p.phase = new.phase /\ p.made = <<>> /\ DOMAIN p.wrote = {} /\ p.alone = b
    BY <1>2 DEF RequestType
  <1>4. ~Busy(r) /\ rows' = rows /\ UNCHANGED <<shop, sector, raced>>
    BY DEF Start
  <1>5. request' = [v \in Requests |->
                      IF v = r THEN [new EXCEPT !.alone = \A u \in Requests : ~Busy(u)]
                      ELSE [request[v] EXCEPT !.alone = @ /\ ~Busy(v)]]
    BY DEF Start
  <1>6. request'[r] = p  BY <1>1, <1>2, <1>5
  <1>7. count' \in [requests : 0 .. MaxRequests, changes : 0 .. MaxChanges,
                    deletes : 0 .. MaxDeletes]
    BY CountType DEF Start, ShopInv
  <1>8. \A k : Live(k)' = Live(k)  BY <1>4 DEF Live
  <1>9. ASSUME NEW v \in Requests, v # r
        PROVE  /\ request'[v] \in RequestType' /\ Fits(request[v])'
               /\ request'[v].todo \subseteq DOMAIN request'[v].fetched
               /\ request'[v].pc \in {"update", "create"} =>
                     request'[v].key \in DOMAIN request'[v].fetched
               /\ request'[v].pc = "update" => request'[v].target \in DOMAIN rows'
               /\ \A k : Inserts(request[v], k)' <=> Inserts(request[v], k)
               /\ Busy(v)' <=> Busy(v)
               /\ request'[v].alone <=> request[v].alone /\ ~Busy(v)
    <2>1. request'[v] = [request[v] EXCEPT !.alone = @ /\ ~Busy(v)]  BY <1>5, <1>9
    <2>2. PICK a \in BOOLEAN : a = ~Busy(v)  OBVIOUS
    <2>3. request'[v] = [request[v] EXCEPT !.alone = @ /\ a]  BY <2>1, <2>2
    <2>4. ~Busy(v) => a  BY <2>2
    <2>5. ~(a /\ Busy(v))  BY <2>2
    <2>6. /\ DOMAIN rows \subseteq DOMAIN rows'
          /\ \A d \in DOMAIN rows : rows'[d].key = rows[d].key
      BY <1>4
    <2> HIDE <2>1
    <2>7. QED  BY <2>2, <2>3, <2>4, <2>5, <2>6, FitsStill
  <1>10. Fits(request[r])'
    <2>1. EachOnce(request[r])'  BY <1>3, <1>6 DEF EachOnce, Made, Writes
    <2>2. Syncs(request[r])' /\ Synced(request[r])'  BY <1>3, <1>6 DEF Writes, Syncs, Synced
    <2>3. InPhase(request[r])'  BY <1>3, <1>6 DEF InPhase
    <2>4. QED  BY <2>1, <2>2, <2>3 DEF Fits
  <1>11. TypeOK'
    <2>1. p \in RequestType'  BY <1>3, <1>4 DEF RequestType
    <2>2. request' \in [Requests -> RequestType']  BY <1>5, <1>6, <1>9, <2>1
    <2>3. ASSUME NEW v \in Requests
          PROVE  /\ request'[v].todo \subseteq DOMAIN request'[v].fetched
                 /\ request'[v].pc \in {"update", "create"} =>
                       request'[v].key \in DOMAIN request'[v].fetched
                 /\ request'[v].pc = "update" => request'[v].target \in DOMAIN rows'
      BY <1>3, <1>6, <1>9
    <2>4. QED  BY <1>4, <1>7, <2>2, <2>3 DEF ShopInv, TypeOK, Row
  <1>12. ByItself'
    <2>1. ASSUME NEW u \in Requests, NEW v \in Requests, Busy(u)', request'[u].alone, Busy(v)'
          PROVE  v = u
      BY <1>1, <1>3, <1>6, <1>9, <2>1
    <2>2. QED  BY <2>1 DEF ByItself
  <1>13. ASSUME NEW k \in Keys \ raced' PROVE OneInserts(k)'
    <2>1. OneInserts(k)  BY <1>4, <1>13 DEF ShopInv
    <2>2. ~Inserts(request[r], k)'  BY <1>3, <1>6 DEF Inserts
    <2>3. \A v \in Requests : Inserts(request[v], k)' => Inserts(request[v], k)
      BY <1>9, <2>2
    <2>4. QED  BY <1>8, <2>1, <2>3 DEF OneInserts
  <1>14. QED  BY <1>9, <1>10, <1>11, <1>12, <1>13 DEF ShopInv

\* What a request of phase l that has fetched f starts with.
Asks(l, f) ==
    [NoRequest EXCEPT !.phase = l, !.fetched = f, !.todo = DOMAIN f,
                      !.pc = IF l = "salla" THEN "call" ELSE "look"]

Started(r, l, f) ==
    /\ Start(r, Asks(l, f)) /\ f \in Partial(Keys, Versions)
    /\ l \in {"products", "channel", "salla"}
    /\ l = "products" => DOMAIN f \subseteq Products

LEMMA StartStep ==
    ASSUME ShopInv, NEW r \in Requests, ZidSync(r) \/ SallaSync(r) \/ InstagramSetup(r)
    PROVE  ShopInv'
  <1>1. TypeOK /\ [k \in {} |-> 0] \in Partial(Keys, Versions) /\ DOMAIN [k \in {} |-> 0] = {}
    BY NoFunction DEF ShopInv
  <1>2. /\ NoRequest \in RequestType /\ NoRequest.made = <<>> /\ DOMAIN NoRequest.wrote = {}
        /\ NoRequest.pc = "look"
    BY <1>1, NoRequestType
  <1>3. \E l, f : Started(r, l, f)
    <2>1. CASE ZidSync(r)
      <3>1. PICK page \in {FirstPage, [k \in {} |-> 0]} :
               Start(r, [NoRequest EXCEPT !.phase = "products", !.fetched = page,
                                          !.todo = DOMAIN page])
        BY <2>1 DEF ZidSync
      <3>2. page \in Partial(Keys, Versions) /\ DOMAIN page \subseteq Products
        <4>1. CASE page = [k \in {} |-> 0]  BY <1>1, <4>1
        <4>2. CASE page = FirstPage
          <5>1. PICK D \in SUBSET Products : page = [p \in D |-> shop[p]]
            BY <4>2 DEF FirstPage
          <5>2. D \in SUBSET Keys /\ page \in [D -> Versions]
            BY <1>1, <5>1 DEF TypeOK, Keys, Shown
          <5>3. QED  BY <5>1, <5>2, PartialMakes
        <4>3. QED  BY <4>1, <4>2
      <3>3. [NoRequest EXCEPT !.phase = "products", !.fetched = page, !.todo = DOMAIN page] =
               Asks("products", page)
        <4>1. Asks("products", page) = [NoRequest EXCEPT !.phase = "products", !.fetched = page,
                                           !.todo = DOMAIN page, !.pc = "look"]
          BY DEF Asks
        <4>2. QED  BY <4>1, <1>2 DEF RequestType
      <3>4. Started(r, "products", page)  BY <3>1, <3>2, <3>3 DEF Started
      <3>5. QED  BY <3>4
    <2>2. CASE SallaSync(r)
      <3>1. PICK listed \in SallaListings :
               Start(r, [NoRequest EXCEPT !.phase = "salla", !.pc = "call", !.todo = listed,
                                          !.fetched = [p \in listed |-> shop[p]]])
        BY <2>2 DEF SallaSync
      <3>2. PICK f : f = [p \in listed |-> shop[p]]  OBVIOUS
      <3>3. listed \in SUBSET Products
        BY <3>1, CatalogueAssumption DEF SallaListings, Products
      <3>4. listed \in SUBSET Keys /\ f \in [listed -> Versions] /\ DOMAIN f = listed
        BY <1>1, <3>2, <3>3 DEF TypeOK, Keys, Shown
      <3>5. f \in Partial(Keys, Versions)  BY <3>4, PartialMakes
      <3>6. [NoRequest EXCEPT !.phase = "salla", !.pc = "call", !.todo = listed, !.fetched = f] =
               Asks("salla", f)
        BY <3>4 DEF NoRequest, Asks
      <3>7. Started(r, "salla", f)  BY <3>1, <3>2, <3>5, <3>6 DEF Started
      <3>8. QED  BY <3>7
    <2>3. CASE InstagramSetup(r)
      <3>1. PICK f : f = [k \in {Instagram} |-> count.requests + 1]  OBVIOUS
      <3>2. [NoRequest EXCEPT !.phase = "channel", !.todo = {Instagram}, !.fetched = f] =
               Asks("channel", f)
        <4>1. DOMAIN f = {Instagram}  BY <3>1
        <4>2. Asks("channel", f) = [NoRequest EXCEPT !.phase = "channel", !.fetched = f,
                                       !.todo = DOMAIN f, !.pc = "look"]
          BY DEF Asks
        <4>3. QED  BY <4>1, <4>2, <1>2 DEF RequestType
      <3>3. count.requests + 1 \in Versions
        <4>1. count.requests \in 0 .. MaxRequests /\ count.requests < MaxRequests
          BY <1>1, <2>3 DEF TypeOK, InstagramSetup, Start
        <4>2. QED  BY <4>1, VersionsAre
      <3>4. {Instagram} \in SUBSET Keys /\ f \in [{Instagram} -> Versions]
        BY <3>1, <3>3 DEF Keys
      <3>5. f \in Partial(Keys, Versions)  BY <3>4, PartialMakes
      <3>6. Start(r, Asks("channel", f))  BY <2>3, <3>1, <3>2 DEF InstagramSetup
      <3>7. Started(r, "channel", f)  BY <3>5, <3>6 DEF Started
      <3>8. QED  BY <3>7
    <2>4. QED  BY <2>1, <2>2, <2>3
  <1>4. PICK l, f : Started(r, l, f)  BY <1>3
  <1>5. PICK new : new = Asks(l, f)  OBVIOUS
  <1>6. f \in Partial(Keys, Versions) /\ DOMAIN f \subseteq Keys  BY <1>4, PartialUses DEF Started
  <1>7. /\ new \in RequestType /\ new.todo = DOMAIN f /\ new.fetched = f /\ new.phase = l
        /\ new.pc = IF l = "salla" THEN "call" ELSE "look"
        /\ new.made = <<>> /\ DOMAIN new.wrote = {}
    BY <1>2, <1>5, <1>6, <1>4 DEF RequestType, Phases, Asks, Started
  <1>8. Start(r, new)  BY <1>5, <1>4 DEF Started
  <1>9. QED  BY <1>7, <1>8, <1>4, StartKeeps DEF Started

\* Staff delete a document: whoever is at work is not alone any more.
LEMMA DeleteStep == ASSUME ShopInv, NEW d \in DOMAIN rows, StaffDeletes(d) PROVE ShopInv'
  <1>1. /\ rows' = [rows EXCEPT ![d].deleted = TRUE] /\ UNCHANGED <<shop, sector, raced>>
        /\ request' = [v \in Requests |-> [request[v] EXCEPT !.alone = @ /\ ~Busy(v)]]
    BY DEF StaffDeletes
  <1>2. count' \in [requests : 0 .. MaxRequests, changes : 0 .. MaxChanges,
                    deletes : 0 .. MaxDeletes]
    BY CountType DEF StaffDeletes, ShopInv
  <1>3. rows \in Seq(Row) /\ rows[d] \in Row  BY DEF ShopInv, TypeOK
  <1>4. rows' = [rows EXCEPT ![d] = [rows[d] EXCEPT !.deleted = TRUE]]  BY <1>1
  <1>5. [rows[d] EXCEPT !.deleted = TRUE] \in Row  BY <1>3 DEF Row
  <1>6. rows' \in Seq(Row) /\ DOMAIN rows' = DOMAIN rows  BY <1>3, <1>4, <1>5
  <1>7. \A e \in DOMAIN rows : /\ rows'[e].key = rows[e].key
                               /\ e # d => rows'[e] = rows[e]
                               /\ e = d => rows'[e].deleted
    BY <1>3, <1>4 DEF Row
  <1>8. \A k : Live(k)' \subseteq Live(k)
    BY <1>6, <1>7 DEF Live
  <1>9. ASSUME NEW v \in Requests
        PROVE  /\ request'[v] \in RequestType' /\ Fits(request[v])'
               /\ request'[v].todo \subseteq DOMAIN request'[v].fetched
               /\ request'[v].pc \in {"update", "create"} =>
                     request'[v].key \in DOMAIN request'[v].fetched
               /\ request'[v].pc = "update" => request'[v].target \in DOMAIN rows'
               /\ \A k : Inserts(request[v], k)' <=> Inserts(request[v], k)
               /\ Busy(v)' <=> Busy(v)
               /\ request'[v].alone <=> request[v].alone /\ ~Busy(v)
    <2>1. PICK a \in BOOLEAN : a = ~Busy(v)  OBVIOUS
    <2>2. request'[v] = [request[v] EXCEPT !.alone = @ /\ a]  BY <1>1, <2>1
    <2>3. (~Busy(v) => a) /\ ~(a /\ Busy(v))  BY <2>1
    <2>4. /\ DOMAIN rows \subseteq DOMAIN rows'
          /\ \A e \in DOMAIN rows : rows'[e].key = rows[e].key
      BY <1>6, <1>7
    <2>5. QED  BY <2>1, <2>2, <2>3, <2>4, FitsStill
  <1>10. TypeOK'
    <2>1. request' \in [Requests -> RequestType']  BY <1>1, <1>9
    <2>2. QED  BY <1>1, <1>2, <1>6, <1>9, <2>1 DEF ShopInv, TypeOK, Row
  <1>11. ByItself'  BY <1>9 DEF ByItself
  <1>12. ASSUME NEW k \in Keys \ raced' PROVE OneInserts(k)'
    <2>1. OneInserts(k)  BY <1>1, <1>12 DEF ShopInv
    <2>2. QED  BY <1>8, <1>9, <2>1 DEF OneInserts
  <1>13. QED  BY <1>9, <1>10, <1>11, <1>12 DEF ShopInv

\* Steps that take no notice of requests, and that they take no notice of: a row of
\* another key is added, or none.
LEMMA AsideKeeps ==
    ASSUME ShopInv, UNCHANGED <<request, raced>>, shop' \in [Shown -> Versions],
           sector' \in OtherSectors \cup {FirstSector},
           count' \in [requests : 0 .. MaxRequests, changes : 0 .. MaxChanges,
                       deletes : 0 .. MaxDeletes],
           rows' \in Seq(Row), DOMAIN rows \subseteq DOMAIN rows',
           \A d \in DOMAIN rows : rows'[d] = rows[d],
           \A d \in DOMAIN rows' \ DOMAIN rows : rows'[d].key \notin Keys
    PROVE  ShopInv'
  <1>1. \A k \in Keys : Live(k)' = Live(k)  BY DEF Live
  <1>2. ASSUME NEW v \in Requests
        PROVE  /\ request'[v] \in RequestType' /\ Fits(request[v])'
               /\ request'[v].todo \subseteq DOMAIN request'[v].fetched
               /\ request'[v].pc \in {"update", "create"} =>
                     request'[v].key \in DOMAIN request'[v].fetched
               /\ request'[v].pc = "update" => request'[v].target \in DOMAIN rows'
    <2>1. PICK a \in BOOLEAN : a = TRUE  OBVIOUS
    <2>2. request[v] \in RequestType  BY DEF ShopInv, TypeOK
    <2>3. request'[v] = [request[v] EXCEPT !.alone = @ /\ a]
      BY <2>1, <2>2 DEF RequestType
    <2>4. \A k \in Keys : Live(k)' = Live(k) /\ \A d \in Live(k) : rows'[d] = rows[d]
      BY <1>1 DEF Live
    <2>5. \A d \in DOMAIN rows : rows'[d].key = rows[d].key  OBVIOUS
    <2>6. QED  BY <2>1, <2>3, <2>4, <2>5, FitsStill
  <1>3. TypeOK'
    <2>1. request' \in [Requests -> RequestType']  BY <1>2 DEF ShopInv, TypeOK
    <2>2. raced' \subseteq Keys  BY DEF ShopInv, TypeOK
    <2>3. QED  BY <1>2, <2>1, <2>2 DEF TypeOK, Row
  <1>4. ByItself'  BY DEF ShopInv, ByItself, Busy
  <1>5. ASSUME NEW k \in Keys \ raced' PROVE OneInserts(k)'
    <2>1. OneInserts(k)  BY <1>5 DEF ShopInv
    <2>2. QED  BY <1>1, <1>5, <2>1 DEF OneInserts, Inserts
  <1>6. QED  BY <1>2, <1>3, <1>4, <1>5 DEF ShopInv

LEMMA AsideStep ==
    ASSUME ShopInv,
           \/ \E s \in Seasons : GenerateSeasonal(s)
           \/ StarterPack
           \/ \E k \in Shown : ShopChanges(k)
    PROVE  ShopInv'
  <1>1. TypeOK /\ rows \in Seq(Row)  BY DEF ShopInv, TypeOK
  <1>2. CASE \E s \in Seasons : GenerateSeasonal(s)
    <2>1. PICK s \in Seasons : GenerateSeasonal(s)  BY <1>2
    <2>2. PICK new : new = [key |-> s, content |-> 1, deleted |-> FALSE]  OBVIOUS
    <2>3. new \in Row /\ new.key = s  BY <2>2, VersionsAre DEF Row
    <2>4. rows' = Append(rows, new) /\ UNCHANGED <<shop, request, sector, raced>>
      BY <2>1, <2>2 DEF GenerateSeasonal
    <2>5. count' \in [requests : 0 .. MaxRequests, changes : 0 .. MaxChanges,
                      deletes : 0 .. MaxDeletes]
      BY <1>1, <2>1, CountType DEF GenerateSeasonal, Ask
    <2>6. s \notin Keys  BY CatalogueAssumption
    <2>7. /\ rows' \in Seq(Row) /\ DOMAIN rows' = DOMAIN rows \cup {Len(rows) + 1}
          /\ rows'[Len(rows) + 1] = new /\ \A d \in DOMAIN rows : rows'[d] = rows[d]
      BY <1>1, <2>3, <2>4, AppendIs
    <2>8. \A d \in DOMAIN rows' \ DOMAIN rows : rows'[d].key \notin Keys
      BY <2>3, <2>6, <2>7
    <2>9. QED  BY <1>1, <2>4, <2>5, <2>7, <2>8, AsideKeeps DEF TypeOK
  <1>3. CASE StarterPack
    <2>1. UNCHANGED <<shop, rows, request, raced>>
          /\ sector' \in OtherSectors \cup {FirstSector}
      BY <1>1, <1>3 DEF StarterPack, TypeOK
    <2>2. count' \in [requests : 0 .. MaxRequests, changes : 0 .. MaxChanges,
                      deletes : 0 .. MaxDeletes]
      BY <1>1, <1>3, CountType DEF StarterPack, Ask
    <2>3. QED  BY <1>1, <2>1, <2>2, AsideKeeps DEF TypeOK
  <1>4. CASE \E k \in Shown : ShopChanges(k)
    <2>1. PICK k \in Shown : ShopChanges(k)  BY <1>4
    <2>2. count.changes \in 0 .. MaxChanges /\ count.changes < MaxChanges
      BY <1>1, <2>1 DEF ShopChanges, TypeOK
    <2>3. /\ 2 * count.changes + 2 \in Versions /\ 2 * count.changes + 3 \in Versions
          /\ 0 \in Versions
      BY <2>2, VersionsAre
    <2>4. shop' \in [Shown -> Versions]
      <3>1. PICK x \in Versions : shop' = [shop EXCEPT ![k] = x]
        BY <2>1, <2>3 DEF ShopChanges
      <3>2. QED  BY <1>1, <3>1 DEF TypeOK
    <2>5. count' \in [requests : 0 .. MaxRequests, changes : 0 .. MaxChanges,
                      deletes : 0 .. MaxDeletes]
      BY <1>1, <2>1, CountType DEF ShopChanges
    <2>6. UNCHANGED <<rows, request, sector, raced>>  BY <2>1 DEF ShopChanges
    <2>7. QED  BY <1>1, <2>4, <2>5, <2>6, AsideKeeps DEF TypeOK
  <1>5. QED  BY <1>2, <1>3, <1>4

-----------------------------------------------------------------------------
(* The commit                                                              *)

\* What becomes of the rows: those there were keep their keys, those that were made
\* are added.
LEMMA StoredRows ==
    ASSUME ShopInv, NEW q \in RequestType, rows' = Stored(q)
    PROVE  /\ rows' \in Seq(Row) /\ DOMAIN rows \subseteq DOMAIN rows'
           /\ \A d \in DOMAIN rows : /\ rows'[d].key = rows[d].key
                                     /\ rows'[d].deleted = rows[d].deleted
                                     /\ rows'[d].content = Content(q, d)
           /\ \A i \in DOMAIN q.made : /\ Len(rows) + i \in DOMAIN rows' \ DOMAIN rows
                                       /\ rows'[Len(rows) + i] = q.made[i]
           /\ \A d \in DOMAIN rows' \ DOMAIN rows :
                 \E i \in DOMAIN q.made : d = Len(rows) + i
  <1>1. /\ rows \in Seq(Row) /\ q.made \in Seq(Row)
        /\ q.wrote \in Partial(DOMAIN rows, Versions)
    BY DEF ShopInv, TypeOK, RequestType
  <1>2. q.wrote \in [DOMAIN q.wrote -> Versions]  BY <1>1, PartialUses
  <1>3. PICK n \in Nat : n = Len(rows) /\ DOMAIN rows = 1 .. n  BY <1>1
  <1>4. PICK s : s = [d \in 1 .. n |->
                        IF d \in DOMAIN q.wrote THEN [rows[d] EXCEPT !.content = q.wrote[d]]
                        ELSE rows[d]]
    OBVIOUS
  <1>5. ASSUME NEW d \in 1 .. n
        PROVE  /\ s[d] \in Row /\ s[d].key = rows[d].key /\ s[d].deleted = rows[d].deleted
               /\ s[d].content = Content(q, d)
    <2>1. rows[d] \in Row  BY <1>1, <1>3
    <2>2. CASE d \in DOMAIN q.wrote
      <3>1. s[d] = [rows[d] EXCEPT !.content = q.wrote[d]] /\ q.wrote[d] \in Versions
        BY <1>2, <1>4, <2>2
      <3>2. QED  BY <2>1, <2>2, <3>1 DEF Row, Content
    <2>3. CASE d \notin DOMAIN q.wrote  BY <1>4, <2>1, <2>3 DEF Content
    <2>4. QED  BY <2>2, <2>3
  <1>6. s \in Seq(Row) /\ Len(s) = n
    <2>1. s \in [1 .. n -> Row]  BY <1>4, <1>5
    <2>2. QED  BY <1>3, <2>1
  <1>7. rows' = s \o q.made  BY <1>3, <1>4 DEF Stored
  <1>8. PICK m \in Nat : m = Len(q.made) /\ DOMAIN q.made = 1 .. m  BY <1>1
  <1>9. /\ rows' \in Seq(Row) /\ Len(rows') = n + m /\ DOMAIN rows' = 1 .. n + m
        /\ \A d \in 1 .. n : rows'[d] = s[d]
        /\ \A i \in 1 .. m : rows'[n + i] = q.made[i]
    <2>1. PICK t : t = q.made  OBVIOUS
    <2>2. t \in Seq(Row) /\ rows' = s \o t /\ m = Len(t)  BY <1>1, <1>7, <1>8, <2>1
    <2>3. /\ rows' \in Seq(Row) /\ Len(rows') = n + m
          /\ \A i \in 1 .. n + m : rows'[i] = IF i <= n THEN s[i] ELSE t[i - n]
      <3>1. /\ s \o t \in Seq(Row) /\ Len(s \o t) = Len(s) + Len(t)
            /\ \A i \in 1 .. Len(s) + Len(t) :
                  (s \o t)[i] = IF i <= Len(s) THEN s[i] ELSE t[i - Len(s)]
        BY <1>6, <2>2, ConcatProperties, Zenon
      <3>2. QED  BY <1>6, <2>2, <3>1
    <2>4. DOMAIN rows' = 1 .. n + m  BY <2>3
    <2>5. ASSUME NEW d \in 1 .. n PROVE rows'[d] = s[d]
      BY <1>3, <1>8, <2>3
    <2>6. ASSUME NEW i \in 1 .. m PROVE rows'[n + i] = t[i]
      <3>1. n + i \in 1 .. n + m /\ ~(n + i <= n) /\ (n + i) - n = i  BY <1>3, <1>8
      <3>2. QED  BY <2>3, <3>1
    <2>7. QED  BY <2>1, <2>3, <2>4, <2>5, <2>6
  <1>10. \A d \in 1 .. n + m : d \notin 1 .. n => \E i \in 1 .. m : d = n + i
    <2>1. ASSUME NEW d \in 1 .. n + m, d \notin 1 .. n PROVE \E i \in 1 .. m : d = n + i
      <3>1. d - n \in 1 .. m /\ d = n + (d - n)  BY <1>3, <1>8, <2>1
      <3>2. QED  BY <3>1
    <2>2. QED  BY <2>1
  <1>11. \A i \in 1 .. m : n + i \in 1 .. n + m /\ n + i \notin 1 .. n  OBVIOUS
  <1>12. DOMAIN rows \subseteq DOMAIN rows'  BY <1>3, <1>8, <1>9
  <1>13. ASSUME NEW d \in DOMAIN rows
         PROVE  /\ rows'[d].key = rows[d].key /\ rows'[d].deleted = rows[d].deleted
                /\ rows'[d].content = Content(q, d)
    <2>1. d \in 1 .. n  BY <1>3
    <2>2. rows'[d] = s[d]  BY <1>9, <2>1
    <2>3. QED  BY <1>5, <2>1, <2>2
  <1>14. ASSUME NEW i \in DOMAIN q.made
         PROVE  /\ Len(rows) + i \in DOMAIN rows' \ DOMAIN rows
                /\ rows'[Len(rows) + i] = q.made[i]
    BY <1>3, <1>8, <1>9, <1>11
  <1>15. ASSUME NEW d \in DOMAIN rows' \ DOMAIN rows
         PROVE  \E i \in DOMAIN q.made : d = Len(rows) + i
    BY <1>3, <1>8, <1>9, <1>10
  <1>16. QED  BY <1>9, <1>12, <1>13, <1>14, <1>15

\* Rows of k after a commit: those of before and those that were made.
LEMMA LiveAfter ==
    ASSUME ShopInv, NEW q \in RequestType, EachOnce(q), rows' = Stored(q), NEW k
    PROVE  /\ Live(k) \subseteq Live(k)'
           /\ \A i \in DOMAIN q.made : q.made[i].key = k => Len(rows) + i \in Live(k)'
           /\ \A d \in Live(k)' \ Live(k) :
                 \E i \in DOMAIN q.made : q.made[i].key = k /\ d = Len(rows) + i
  <1>1. Live(k) \subseteq Live(k)'
    <2>1. \A d \in DOMAIN rows :
             d \in DOMAIN rows' /\ rows'[d].key = rows[d].key /\ rows'[d].deleted = rows[d].deleted
      BY StoredRows
    <2>2. QED  BY <2>1 DEF Live
  <1>2. ASSUME NEW i \in DOMAIN q.made, q.made[i].key = k PROVE Len(rows) + i \in Live(k)'
    <2>1. Len(rows) + i \in DOMAIN rows' /\ rows'[Len(rows) + i] = q.made[i]  BY StoredRows
    <2>2. ~q.made[i].deleted  BY DEF EachOnce
    <2>3. QED  BY <1>2, <2>1, <2>2 DEF Live
  <1>3. ASSUME NEW d \in Live(k)', d \notin Live(k)
        PROVE  \E i \in DOMAIN q.made : q.made[i].key = k /\ d = Len(rows) + i
    <2>1. d \in DOMAIN rows' /\ rows'[d].key = k /\ ~rows'[d].deleted  BY <1>3 DEF Live
    <2>2. d \notin DOMAIN rows
      <3>1. d \in DOMAIN rows => /\ rows'[d].key = rows[d].key
                                 /\ rows'[d].deleted = rows[d].deleted
        BY StoredRows
      <3>2. QED  BY <1>3, <2>1, <3>1 DEF Live
    <2>3. PICK i \in DOMAIN q.made : d = Len(rows) + i  BY <2>1, <2>2, StoredRows
    <2>4. rows'[d] = q.made[i]  BY <2>3, StoredRows
    <2>5. QED  BY <2>1, <2>3, <2>4
  <1>4. QED  BY <1>1, <1>2, <1>3

\* What a request has seen to is in the table once it commits.
LEMMA SeenIsStored ==
    ASSUME ShopInv, NEW q \in RequestType, EachOnce(q), rows' = Stored(q), NEW k, SeenTo(q, k),
           TypeOK'
    PROVE  \/ Cardinality(Live(k)') > 1
           \/ \E d \in Live(k)' : rows'[d].content = q.fetched[k]
  <1>1. CASE Cardinality(Live(k)) > 1
    <2>1. IsFiniteSet(Live(k)')
      <3>1. IsFiniteSet(1 .. Len(rows'))
        <4>1. Len(rows') \in Int  BY DEF TypeOK
        <4>2. QED  BY <4>1, FS_Interval
      <3>2. Live(k)' \subseteq 1 .. Len(rows')  BY DEF Live, TypeOK
      <3>3. QED  BY <3>1, <3>2, FS_Subset
    <2>2. Live(k) \subseteq Live(k)'  BY LiveAfter
    <2>3. /\ Cardinality(Live(k)) <= Cardinality(Live(k)')
          /\ Cardinality(Live(k)) \in Nat /\ Cardinality(Live(k)') \in Nat
      BY <2>1, <2>2, FS_Subset, FS_CardinalityType
    <2>4. QED  BY <1>1, <2>3
  <1>2. CASE \E i \in DOMAIN q.made : q.made[i].key = k /\ q.made[i].content = q.fetched[k]
    <2>1. PICK i \in DOMAIN q.made : q.made[i].key = k /\ q.made[i].content = q.fetched[k]
      BY <1>2
    <2>2. Len(rows) + i \in Live(k)'  BY <2>1, LiveAfter
    <2>3. rows'[Len(rows) + i] = q.made[i]  BY StoredRows
    <2>4. QED  BY <2>1, <2>2, <2>3
  <1>3. CASE \E d \in Live(k) : Content(q, d) = q.fetched[k]
    <2>1. PICK d \in Live(k) : Content(q, d) = q.fetched[k]  BY <1>3
    <2>2. d \in Live(k)'  BY LiveAfter
    <2>3. rows'[d].content = Content(q, d)
      <3>1. d \in DOMAIN rows  BY DEF Live
      <3>2. QED  BY <3>1, StoredRows
    <2>4. QED  BY <2>1, <2>2, <2>3
  <1>4. QED  BY <1>1, <1>2, <1>3 DEF SeenTo

LEMMA CommitStep == ASSUME ShopInv, NEW r \in Requests, Commit(r) PROVE ShopInv'
  <1>1. PICK q : q = request[r]  OBVIOUS
  <1>2. /\ q.phase \in {"policies", "channel"} /\ q.pc = "look" /\ q.todo = {} /\ ~q.dead
        /\ rows' = Stored(q) /\ UNCHANGED <<shop, sector, count, raced>>
    BY <1>1 DEF Commit, Finished
  <1>3. q \in RequestType /\ Fits(q) /\ EachOnce(q) /\ Busy(r)
    BY <1>1, <1>2 DEF ShopInv, TypeOK, Fits, Busy
  <1>4. PICK p : p = [q EXCEPT !.phase = "answered", !.made = <<>>, !.wrote = [d \in {} |-> 0]]
    OBVIOUS
  <1>5. request' = [request EXCEPT ![r] = p]
    <2>1. request \in [Requests -> RequestType]  BY DEF ShopInv, TypeOK
    <2>2. QED  BY <1>1, <1>3, <1>4, <2>1 DEF Commit, RequestType
  <1>6. [d \in {} |-> 0] \in Partial(DOMAIN rows, Versions) /\ DOMAIN [d \in {} |-> 0] = {}
        /\ <<>> \in Seq(Row)
    BY NoFunction
  <1>7. /\ p \in RequestType /\ p.phase = "answered" /\ p.pc = "look" /\ p.todo = {}
        /\ p.made = <<>> /\ DOMAIN p.wrote = {} /\ p.fetched = q.fetched /\ p.alone = q.alone
    BY <1>2, <1>3, <1>4, <1>6 DEF RequestType, Phases
  <1>8. /\ \A v \in Requests : request'[v] = IF v = r THEN p ELSE request[v]
        /\ DOMAIN request' = Requests
    BY <1>5 DEF ShopInv, TypeOK
  <1>9. /\ rows' \in Seq(Row) /\ DOMAIN rows \subseteq DOMAIN rows'
        /\ \A d \in DOMAIN rows : rows'[d].key = rows[d].key
    BY <1>2, <1>3, StoredRows
  <1>10. ASSUME NEW v \in Requests, v # r
         PROVE  /\ request'[v] \in RequestType' /\ Fits(request[v])'
                /\ request'[v].todo \subseteq DOMAIN request'[v].fetched
                /\ request'[v].pc \in {"update", "create"} =>
                      request'[v].key \in DOMAIN request'[v].fetched
                /\ request'[v].pc = "update" => request'[v].target \in DOMAIN rows'
                /\ \A k : Inserts(request[v], k)' <=> Inserts(request[v], k)
    <2>1. PICK a \in BOOLEAN : a = TRUE  OBVIOUS
    <2>2. request[v] \in RequestType  BY DEF ShopInv, TypeOK
    <2>3. request'[v] = [request[v] EXCEPT !.alone = @ /\ a]
      BY <1>8, <1>10, <2>1, <2>2 DEF RequestType
    <2>4. ~(Busy(v) /\ request[v].alone)  BY <1>3, <1>10 DEF ShopInv, ByItself
    <2>5. QED  BY <1>9, <2>1, <2>3, <2>4, FitsStill
  <1>11. TypeOK'
    <2>1. p \in RequestType'  BY <1>7, <1>9, TypesGrow
    <2>2. request'[r] = p  BY <1>8
    <2>3. request' \in [Requests -> RequestType']
      <3>1. \A v \in Requests : request'[v] \in RequestType'  BY <1>10, <2>1, <2>2
      <3>2. request' = [v \in Requests |-> request'[v]]  BY <1>5, <1>8 DEF ShopInv, TypeOK
      <3>3. QED  BY <3>1, <3>2
    <2>4. ASSUME NEW v \in Requests
          PROVE  /\ request'[v].todo \subseteq DOMAIN request'[v].fetched
                 /\ request'[v].pc \in {"update", "create"} =>
                       request'[v].key \in DOMAIN request'[v].fetched
                 /\ request'[v].pc = "update" => request'[v].target \in DOMAIN rows'
      BY <1>7, <1>10, <2>2
    <2>5. QED  BY <1>2, <1>9, <2>3, <2>4 DEF ShopInv, TypeOK, Row
  <1>12. ByItself'
    <2>1. \A v \in Requests : Busy(v)' => Busy(v) /\ request'[v].alone = request[v].alone
      BY <1>1, <1>3, <1>7, <1>8 DEF Busy
    <2>2. QED  BY <2>1 DEF ShopInv, ByItself
  <1>13. Fits(request[r])'
    <2>1. request'[r] = p  BY <1>8
    <2>2. EachOnce(request[r])'  BY <1>7, <2>1 DEF EachOnce, Made, Writes
    <2>3. InPhase(request[r])'  BY <1>7, <2>1 DEF InPhase
    <2>4. Syncs(request[r])'  BY <1>7, <2>1 DEF Syncs
    <2>5. Synced(request[r])'
      <3>1. ASSUME p.alone, NEW k \in DOMAIN p.fetched \ PassedOver(p.fetched)
            PROVE  \/ Cardinality(Live(k)') > 1
                   \/ \E d \in Live(k)' : rows'[d].content = p.fetched[k]
        <4>1. SeenTo(q, k)  BY <1>2, <1>3, <1>7, <3>1 DEF Fits, Syncs, Writes
        <4>2. QED  BY <1>2, <1>3, <1>7, <1>11, <4>1, SeenIsStored
      <3>2. QED  BY <2>1, <3>1 DEF Synced
    <2>6. QED  BY <2>2, <2>3, <2>4, <2>5 DEF Fits
  <1>14. ASSUME NEW k \in Keys \ raced' PROVE OneInserts(k)'
    <2>1. OneInserts(k)  BY <1>2, <1>14 DEF ShopInv
    <2>2. \A d \in Live(k)' \ Live(k) :
             \E i \in DOMAIN q.made : q.made[i].key = k /\ d = Len(rows) + i
      BY <1>2, <1>3, LiveAfter
    <2>3. ~Inserts(request[r], k)'  BY <1>7, <1>8 DEF Inserts
    <2>4. \A v \in Requests : Inserts(request[v], k)' => Inserts(request[v], k) /\ v # r
      BY <1>10, <2>3
    <2>5. CASE Inserts(q, k)
      <3>1. Live(k) = {} /\ \A v \in Requests : Inserts(request[v], k) => v = r
        BY <1>1, <2>1, <2>5 DEF OneInserts
      <3>2. \A d, e \in Live(k)' : d = e
        <4>1. ASSUME NEW d \in Live(k)', NEW e \in Live(k)' PROVE d = e
          <5>1. PICK i \in DOMAIN q.made : q.made[i].key = k /\ d = Len(rows) + i
            BY <2>2, <3>1, <4>1
          <5>2. PICK j \in DOMAIN q.made : q.made[j].key = k /\ e = Len(rows) + j
            BY <2>2, <3>1, <4>1
          <5>3. i = j  BY <1>3, <5>1, <5>2 DEF EachOnce
          <5>4. QED  BY <5>1, <5>2, <5>3
        <4>2. QED  BY <4>1
      <3>3. QED  BY <2>4, <3>1, <3>2 DEF OneInserts
    <2>6. CASE ~Inserts(q, k)
      <3>1. Live(k)' = Live(k)
        <4>1. Live(k)' \ Live(k) = {}  BY <2>2, <2>6 DEF Inserts
        <4>2. Live(k) \subseteq Live(k)'  BY <1>2, <1>3, LiveAfter
        <4>3. QED  BY <4>1, <4>2
      <3>2. QED  BY <2>1, <2>4, <3>1 DEF OneInserts
    <2>7. QED  BY <2>5, <2>6
  <1>15. ASSUME NEW v \in Requests PROVE Fits(request[v])'  BY <1>10, <1>13
  <1>16. QED  BY <1>11, <1>12, <1>14, <1>15 DEF ShopInv

-----------------------------------------------------------------------------
(* The theorems of the catalogue                                           *)

LEMMA ShopInit == ASSUME Init PROVE ShopInv
  <1>1. Versions # {} /\ 1 \in Versions /\ 0 \in Versions  BY VersionsAre
  <1>2. rows = <<>> /\ request = [r \in Requests |-> NoRequest] /\ raced = {}
        /\ shop = [k \in Shown |-> 1] /\ sector = FirstSector
        /\ count = [requests |-> 0, changes |-> 0, deletes |-> 0]
    BY DEF Init
  <1>3. NoRequest \in RequestType /\ NoRequest.pc = "look" /\ NoRequest.todo = {}
        /\ NoRequest.phase = "none" /\ NoRequest.made = <<>>
    <2>1. [x \in {} |-> 0] \in Partial(Keys, Versions)
          /\ [x \in {} |-> 0] \in Partial(DOMAIN rows, Versions)
      BY NoFunction
    <2>2. <<>> \in Seq(Row)  OBVIOUS
    <2>3. QED  BY <1>1, <2>1, <2>2 DEF NoRequest, RequestType, Phases
  <1>4. TypeOK
    <2>1. request \in [Requests -> RequestType]  BY <1>2, <1>3
    <2>2. count \in [requests : 0 .. MaxRequests, changes : 0 .. MaxChanges,
                     deletes : 0 .. MaxDeletes]
      BY <1>2, CatalogueAssumption
    <2>3. shop \in [Shown -> Versions] /\ rows \in Seq(Row)  BY <1>1, <1>2
    <2>4. QED  BY <1>2, <1>3, <2>1, <2>2, <2>3 DEF TypeOK
  <1>5. ByItself  BY <1>2, <1>3 DEF ByItself, Busy
  <1>6. \A r \in Requests : Fits(request[r])  BY <1>2, <1>4, NoRequestFits
  <1>7. ASSUME NEW k PROVE OneInserts(k)
    <2>1. Live(k) = {}  BY <1>2 DEF Live
    <2>2. \A r \in Requests : ~Inserts(request[r], k)  BY <1>2, <1>3 DEF Inserts
    <2>3. QED  BY <2>1, <2>2 DEF OneInserts
  <1>8. QED  BY <1>4, <1>5, <1>6, <1>7 DEF ShopInv

LEMMA ShopSame == ASSUME ShopInv, UNCHANGED vars PROVE ShopInv'
  BY AsideKeeps DEF ShopInv, TypeOK, vars

LEMMA ShopNext == ASSUME ShopInv, [Next]_vars PROVE ShopInv'
  <1>1. CASE UNCHANGED vars  BY <1>1, ShopSame
  <1>2. ASSUME NEW r \in Requests, ZidSync(r) \/ SallaSync(r) \/ InstagramSetup(r)
        PROVE  ShopInv'
    BY <1>2, StartStep
  <1>3. ASSUME NEW r \in Requests, Step(r) PROVE ShopInv'
    <2>1. CASE SkipKey(r)  BY <2>1, SkipKeyStep
    <2>2. CASE FindOne(r) \/ FindNone(r)  BY <2>2, FindStep
    <2>3. CASE FindTwo(r)  BY <2>3, FindTwoStep
    <2>4. CASE Update(r) \/ Create(r)  BY <2>4, WriteShopStep
    <2>5. CASE FlushFails(r)  BY <2>5, FlushFailsStep
    <2>6. CASE FetchPolicies(r)  BY <2>6, FetchPoliciesStep
    <2>7. CASE Commit(r)  BY <2>7, CommitStep
    <2>8. CASE CommitRefused(r)  BY <2>8, EndStep
    <2>9. CASE SallaWriteRaises(r) \/ SallaStoreInfo(r)  BY <2>9, SallaStep
    <2>10. QED  BY <1>3, <2>1, <2>2, <2>3, <2>4, <2>5, <2>6, <2>7, <2>8, <2>9 DEF Step
  <1>4. ASSUME NEW r \in Requests, Leave(r) PROVE ShopInv'  BY <1>4, EndStep
  <1>5. ASSUME NEW d \in DOMAIN rows, StaffDeletes(d) PROVE ShopInv'  BY <1>5, DeleteStep
  <1>6. QED  BY <1>1, <1>2, <1>3, <1>4, <1>5, AsideStep DEF Next

LEMMA ShopInvariant == MCSpec => []ShopInv
  <1>1. MCInit => ShopInv  BY ShopInit DEF MCInit
  <1>2. [MCNext]_<<vars, orders, side>> => [Next]_vars  BY DEF MCNext
  <1>3. ShopInv /\ [MCNext]_<<vars, orders, side>> => ShopInv'  BY <1>2, ShopNext
  <1>4. QED  BY <1>1, <1>3, PTL DEF MCSpec

\* Every reachable state of the catalogue is well typed: what a request is about to
\* write was fetched, what it is about to update is a row.
THEOREM CatalogueTypeCorrect == MCSpec => []TypeOK
  <1>1. ShopInv => TypeOK  BY DEF ShopInv
  <1>2. QED  BY <1>1, ShopInvariant, PTL

\* However many requests, products, failures and deletions there are: two live rows
\* of one key come from two requests that overlapped and both searched in vain.
THEOREM UniqueUnlessRaced == MCSpec => []OneUnlessRaced
  <1>1. ASSUME ShopInv PROVE OneUnlessRaced
    <2>1. ASSUME NEW k \in Keys, k \notin raced PROVE Cardinality(Live(k)) <= 1
      <3>1. \A d, e \in Live(k) : d = e  BY <1>1, <2>1 DEF ShopInv, OneInserts
      <3>2. CASE Live(k) = {}  BY <3>2, FS_EmptySet
      <3>3. CASE Live(k) # {}
        <4>1. PICK d : Live(k) = {d}  BY <3>1, <3>3
        <4>2. QED  BY <4>1, FS_Singleton
      <3>4. QED  BY <3>2, <3>3
    <2>2. QED  BY <2>1 DEF OneUnlessRaced
  <1>2. QED  BY <1>1, ShopInvariant, PTL

\* A Zid sync, or a setup of the channel, that ran alone and was answered has left
\* what it fetched and did not pass over in the table, whatever was there before and
\* however its keys were spread.
THEOREM LoneZidSyncStores == MCSpec => []ZidSyncStores
  <1>1. ShopInv => ZidSyncStores  BY DEF ShopInv, Fits, Synced, ZidSyncStores
  <1>2. QED  BY <1>1, ShopInvariant, PTL

-----------------------------------------------------------------------------
(* Sessions and settings: the inductive invariant                          *)

\* Calls that were let in with tokens.
LetIn(c) == call[c].pc \in {"checked", "loaded", "rotated", "half", "editing", "listening"}

\* Only tokens that were issued are let in.
TokensAreIssued ==
    \A c \in Calls : LetIn(c) =>
        /\ <<call[c].token.user, call[c].token.at>> \in issued
        /\ <<call[c].other.user, call[c].other.at>> \in issued

\* The client holds the last pair issued to it.
HeldIsLast ==
    \A u \in Users : held[u] <= Second(now) /\ \A s \in Seconds : <<u, s>> \in issued => s <= held[u]

\* Only tokens that were issued are blacklisted.
BlacklistedIsIssued ==
    \A t \in Tokens : blacklist[t] # 0 => <<t.user, t.at>> \in issued

\* A token taken back is blacklisted until its last second, unless that has begun.
StaysRevoked ==
    \A t \in revoked : \/ Expiry(t) * TicksPerSecond < blacklist[t] + TicksPerSecond
                       \/ Expiry(t) * TicksPerSecond < now + TicksPerSecond

TokenInv == TokensAreIssued /\ HeldIsLast /\ BlacklistedIsIssued /\ StaysRevoked

\* Calls of u that passed the check of is_active and may still have an effect.
Passed(u) ==
    {c \in Calls : call[c].pc \in {"loaded", "rotated", "editing"} /\ call[c].token.user = u}

Verified == {c \in Calls : call[c].pc = "verified"}

Answering == {w \in Workers : turn[w] = "automatic"}

\* What is over and what may still come, together, is within what can be at work.
LateInv ==
    \A u \in Users :
        /\ late[u] <= Cardinality(Calls)
        /\ u \notin active => late[u] + Cardinality(Passed(u)) <= Cardinality(Calls)

KeyInv == IF key = "revoked" THEN keyLate + Cardinality(Verified) < Cardinality(Calls)
          ELSE keyLate = 0

PauseInv == /\ lateAnswers <= Cardinality(Workers)
            /\ stored.paused => lateAnswers + Cardinality(Answering) <= Cardinality(Workers)

\* Until two edits overlap there is at most one, of the column as it stands.
EditInv ==
    ~overlapped =>
        /\ stored = intended
        /\ \A c \in Calls : call[c].pc = "editing" =>
              /\ edit[c].loaded = stored
              /\ \A d \in Calls : call[d].pc = "editing" => c = d

SettingsInv == SettingsTypeOK /\ TokenInv /\ LateInv /\ KeyInv /\ PauseInv /\ EditInv

CallType == [pc : {"idle", "found", "checked", "loaded", "rotated", "half", "editing", "verified",
                   "listening"},
             op : {"none", "login", "refresh", "logout", "use", "key", "socket"},
             token : Tokens, other : Tokens]

TokenTypes == /\ now \in 0 .. MaxTime /\ issued \subseteq Users \X Seconds
              /\ held \in [Users -> Seconds \cup {-1}] /\ blacklist \in [Tokens -> Nat]
              /\ revoked \subseteq Tokens

-----------------------------------------------------------------------------
(* Seconds and types                                                       *)

LEMMA Division ==
    ASSUME NEW a \in Int, NEW n \in Nat \ {0}
    PROVE  a \div n \in Int /\ (a \div n) * n <= a /\ a < (a \div n) * n + n
  OBVIOUS

LEMMA DivisionGrows ==
    ASSUME NEW a \in Nat, NEW b \in Nat, a <= b, NEW n \in Nat \ {0}
    PROVE  a \div n \in Nat /\ a \div n <= b \div n
  <1>1. PICK x \in Int, y \in Int : x = a \div n /\ y = b \div n  BY Division
  <1>2. x * n <= a /\ a < x * n + n /\ b < y * n + n  BY <1>1, Division
  <1>3. x <= y
    <2>1. SUFFICES ASSUME y + 1 <= x PROVE FALSE  BY <1>1
    <2>2. (y + 1) * n <= x * n  BY <1>1, <2>1
    <2>3. QED  BY <1>1, <1>2, <2>2
  <1>4. 0 <= x
    <2>1. SUFFICES ASSUME x + 1 <= 0 PROVE FALSE  BY <1>1
    <2>2. (x + 1) * n <= 0 * n  BY <1>1, <2>1
    <2>3. QED  BY <1>1, <1>2, <2>2
  <1>5. QED  BY <1>1, <1>3, <1>4

LEMMA SecondIn ==
    ASSUME NEW t \in 0 .. MaxTime
    PROVE  /\ Second(t) \in Seconds /\ Second(t) \in Nat
           /\ \A s \in t .. MaxTime : Second(t) <= Second(s)
  <1>1. MaxTime \in Nat /\ TicksPerSecond \in Nat \ {0}  BY SessionsAssumption
  <1>2. Second(t) \in Nat /\ Second(t) <= Second(MaxTime)
    BY <1>1, DivisionGrows DEF Second
  <1>3. Second(MaxTime) \in Nat  BY <1>1, DivisionGrows DEF Second
  <1>4. \A s \in t .. MaxTime : Second(t) <= Second(s)
    BY <1>1, DivisionGrows DEF Second
  <1>5. QED  BY <1>2, <1>3, <1>4 DEF Seconds

LEMMA NoCallType == NoCall \in CallType /\ NoToken \in Tokens /\ NoCall.pc = "idle"
  <1>1. 0 \in 0 .. MaxTime  BY SessionsAssumption
  <1>2. Second(0) \in Nat /\ Second(MaxTime) \in Nat /\ MaxTime \in 0 .. MaxTime
    BY <1>1, SecondIn, SessionsAssumption
  <1>3. 0 \in Seconds  BY <1>2 DEF Seconds
  <1>4. (CHOOSE u \in Users : TRUE) \in Users  BY SessionsAssumption
  <1>5. NoToken \in Tokens  BY <1>3, <1>4 DEF NoToken, Tokens
  <1>6. QED  BY <1>5 DEF NoCall, CallType

LEMMA TokenFields ==
    ASSUME NEW t \in Tokens
    PROVE  /\ t.user \in Users /\ t.at \in Seconds /\ t.at \in Nat /\ Expiry(t) \in Nat
           /\ Expiry(t) * TicksPerSecond \in Nat
  <1>1. t.user \in Users /\ t.at \in Seconds  BY DEF Tokens
  <1>2. t.at \in Nat
    <2>1. MaxTime \in 0 .. MaxTime  BY SessionsAssumption
    <2>2. QED  BY <1>1, <2>1, SecondIn DEF Seconds
  <1>3. Expiry(t) \in Nat  BY <1>2, SessionsAssumption DEF Expiry
  <1>4. QED  BY <1>1, <1>2, <1>3, SessionsAssumption

LEMMA HeldIsInt ==
    ASSUME TokenTypes, NEW u \in Users
    PROVE  held[u] \in Int /\ \A s \in Seconds : s \in Int
  <1>1. MaxTime \in 0 .. MaxTime  BY SessionsAssumption
  <1>2. \A s \in Seconds : s \in Int  BY <1>1, SecondIn DEF Seconds
  <1>3. held[u] \in Seconds \cup {-1}  BY DEF TokenTypes
  <1>4. QED  BY <1>2, <1>3

LEMMA CallMoves ==
    ASSUME SettingsTypeOK, NEW c \in Calls, NEW x \in CallType, call' = [call EXCEPT ![c] = x]
    PROVE  /\ call' \in [Calls -> CallType]
           /\ \A d \in Calls : call'[d] = IF d = c THEN x ELSE call[d]
  BY DEF SettingsTypeOK, SessionTypeOK, CallType

LEMMA Typed ==
    ASSUME SettingsInv
    PROVE  /\ TokenTypes /\ started \in 0 .. MaxCalls /\ late \in [Users -> Nat]
           /\ key \in {"none", "active", "revoked"} /\ keyLate \in Nat
           /\ active \subseteq Users /\ workspace \in {"active", "suspended"}
           /\ call \in [Calls -> CallType]
  BY DEF SettingsInv, SettingsTypeOK, SessionTypeOK, CallType, TokenTypes

LEMMA InUse ==
    ASSUME SettingsInv, NEW c \in Calls
    PROVE  call[c] \in CallType /\ call[c].token \in Tokens /\ call[c].other \in Tokens
  BY Typed DEF CallType

-----------------------------------------------------------------------------
(* Tokens                                                                  *)

\* A call goes on, with no token or with one that was issued.
LEMMA TokensKept ==
    ASSUME SettingsInv, UNCHANGED <<now, issued, held, blacklist, revoked>>,
           NEW c \in Calls, NEW x \in CallType, call' = [call EXCEPT ![c] = x],
           \/ x.pc \in {"idle", "found", "verified"}
           \/ /\ <<x.token.user, x.token.at>> \in issued
              /\ <<x.other.user, x.other.at>> \in issued
    PROVE  TokenInv' /\ TokenTypes'
  <1>1. \A d \in Calls : call'[d] = IF d = c THEN x ELSE call[d]
    BY CallMoves DEF SettingsInv
  <1>2. TokensAreIssued'
    BY <1>1 DEF SettingsInv, TokenInv, TokensAreIssued, LetIn
  <1>3. HeldIsLast' /\ BlacklistedIsIssued' /\ StaysRevoked'
    BY DEF SettingsInv, TokenInv, HeldIsLast, BlacklistedIsIssued, StaysRevoked, Second,
           Expiry
  <1>4. TokenTypes'  BY Typed DEF TokenTypes
  <1>5. QED  BY <1>2, <1>3, <1>4 DEF TokenInv

\* A pair is issued, of this second; it is the client's now.
LEMMA TokensGiven ==
    ASSUME SettingsInv, UNCHANGED <<now, blacklist, revoked>>, NEW u \in Users,
           GivePair(u, Second(now)), NEW c \in Calls, call' = [call EXCEPT ![c] = NoCall]
    PROVE  TokenInv' /\ TokenTypes'
  <1>1. \A d \in Calls : call'[d] = IF d = c THEN NoCall ELSE call[d]
    BY CallMoves, NoCallType DEF SettingsInv
  <1>2. TokenTypes  BY Typed
  <1>3. PICK n \in Seconds : n = Second(now)  BY <1>2, SecondIn DEF TokenTypes
  <1>4. issued' = issued \cup {<<u, n>>} /\ held' = [held EXCEPT ![u] = n]
    BY <1>3 DEF GivePair
  <1>5. TokensAreIssued'
    BY <1>1, <1>4, NoCallType DEF SettingsInv, TokenInv, TokensAreIssued, LetIn
  <1>6. HeldIsLast'
    <2>1. n \in Nat  BY <1>2, <1>3, SecondIn DEF TokenTypes
    <2>2. Second(now)' = n  BY <1>3 DEF Second
    <2>3. ASSUME NEW v \in Users
          PROVE  held'[v] <= n /\ \A s \in Seconds : <<v, s>> \in issued' => s <= held'[v]
      <3>1. held[v] <= n /\ \A s \in Seconds : <<v, s>> \in issued => s <= held[v]
        BY <1>3 DEF SettingsInv, TokenInv, HeldIsLast
      <3>2. held'[v] = IF v = u THEN n ELSE held[v]  BY <1>2, <1>4 DEF TokenTypes
      <3>3. held[v] \in Int /\ \A s \in Seconds : s \in Int  BY <1>2, HeldIsInt
      <3>4. QED  BY <1>4, <2>1, <3>1, <3>2, <3>3
    <2>4. QED  BY <2>2, <2>3 DEF HeldIsLast
  <1>7. BlacklistedIsIssued'
    BY <1>4 DEF SettingsInv, TokenInv, BlacklistedIsIssued
  <1>8. StaysRevoked'  BY DEF SettingsInv, TokenInv, StaysRevoked, Expiry
  <1>9. TokenTypes'  BY <1>2, <1>3, <1>4 DEF TokenTypes
  <1>10. QED  BY <1>5, <1>6, <1>7, <1>8, <1>9 DEF TokenInv

\* The entry lasts whole seconds, rounded down.
LEMMA BlacklistLasts ==
    ASSUME TokenTypes, NEW t \in Tokens
    PROVE  /\ BlacklistedFor(t) \in [Tokens -> Nat]
           /\ \A s \in Tokens : s # t => BlacklistedFor(t)[s] = blacklist[s]
           /\ \/ Expiry(t) * TicksPerSecond < BlacklistedFor(t)[t] + TicksPerSecond
              \/ Expiry(t) * TicksPerSecond < now + TicksPerSecond
  <1>1. /\ now \in Nat /\ TicksPerSecond \in Nat \ {0} /\ blacklist \in [Tokens -> Nat]
        /\ Expiry(t) * TicksPerSecond \in Nat
    BY TokenFields, SessionsAssumption DEF TokenTypes
  <1>2. PICK e \in Nat : e = Expiry(t) * TicksPerSecond  BY <1>1
  <1>3. PICK left \in Int : left = e - now  BY <1>1
  <1>4. PICK r \in Int : r = left \div TicksPerSecond  BY <1>1, Division
  <1>5. r * TicksPerSecond <= left /\ left < r * TicksPerSecond + TicksPerSecond
    BY <1>1, <1>4, Division
  <1>6. Remaining(t) = IF left > 0 THEN r ELSE 0
    BY <1>2, <1>3, <1>4 DEF Remaining
  <1>7. PICK m \in Int : m = r * TicksPerSecond  BY <1>1
  <1>8. left > 0 => r \in Nat
    <2>1. left > 0 => left \div TicksPerSecond \in Nat
      BY <1>1, DivisionGrows
    <2>2. QED  BY <1>4, <2>1
  <1>9. CASE Remaining(t) > 0
    <2>1. left > 0 /\ Remaining(t) = r /\ r \in Nat  BY <1>6, <1>8, <1>9
    <2>2. BlacklistedFor(t) = [blacklist EXCEPT ![t] = now + m]
      BY <1>7, <1>9, <2>1 DEF BlacklistedFor
    <2>3. m \in Nat  BY <1>1, <1>7, <2>1
    <2>4. BlacklistedFor(t)[t] = now + m  BY <1>1, <2>2
    <2>5. e < now + m + TicksPerSecond  BY <1>1, <1>3, <1>5, <1>7
    <2>6. QED  BY <1>1, <1>2, <2>2, <2>3, <2>4, <2>5
  <1>10. CASE ~(Remaining(t) > 0)
    <2>1. BlacklistedFor(t) = blacklist
      BY <1>1, <1>10 DEF BlacklistedFor
    <2>2. e < now + TicksPerSecond
      <3>1. CASE left > 0
        <4>1. r = 0  BY <1>6, <1>8, <1>10, <3>1
        <4>2. QED  BY <1>1, <1>3, <1>5, <4>1
      <3>2. CASE ~(left > 0)  BY <1>1, <1>3, <3>2
      <3>3. QED  BY <3>1, <3>2
    <2>3. QED  BY <1>1, <1>2, <2>1, <2>2
  <1>11. QED  BY <1>9, <1>10

\* A token that was issued is taken back, or nothing is; the call goes on.
LEMMA TokensTaken ==
    ASSUME SettingsInv, UNCHANGED <<now, issued, held>>, NEW t \in Tokens,
           <<t.user, t.at>> \in issued,
           blacklist' = BlacklistedFor(t), revoked' = revoked \cup {t},
           NEW c \in Calls, NEW x \in CallType, call' = [call EXCEPT ![c] = x],
           \/ x.pc = "idle"
           \/ /\ <<x.token.user, x.token.at>> \in issued
              /\ <<x.other.user, x.other.at>> \in issued
    PROVE  TokenInv' /\ TokenTypes'
  <1>1. \A d \in Calls : call'[d] = IF d = c THEN x ELSE call[d]
    BY CallMoves DEF SettingsInv
  <1>2. TokenTypes  BY Typed
  <1>3. /\ blacklist' \in [Tokens -> Nat] /\ \A s \in Tokens : s # t => blacklist'[s] = blacklist[s]
        /\ \/ Expiry(t) * TicksPerSecond < blacklist'[t] + TicksPerSecond
           \/ Expiry(t) * TicksPerSecond < now + TicksPerSecond
    BY <1>2, BlacklistLasts
  <1>4. TokensAreIssued'
    BY <1>1 DEF SettingsInv, TokenInv, TokensAreIssued, LetIn
  <1>5. HeldIsLast'  BY DEF SettingsInv, TokenInv, HeldIsLast, Second
  <1>6. BlacklistedIsIssued'
    BY <1>3 DEF SettingsInv, TokenInv, BlacklistedIsIssued
  <1>7. StaysRevoked'
    <2>1. ASSUME NEW s \in revoked'
          PROVE  \/ Expiry(s) * TicksPerSecond < blacklist'[s] + TicksPerSecond
                 \/ Expiry(s) * TicksPerSecond < now + TicksPerSecond
      <3>1. CASE s = t  BY <1>3, <3>1
      <3>2. CASE s # t
        <4>1. s \in revoked /\ s \in Tokens  BY <1>2, <2>1, <3>2 DEF TokenTypes
        <4>2. blacklist'[s] = blacklist[s]  BY <1>3, <3>2, <4>1
        <4>3. QED  BY <4>1, <4>2 DEF SettingsInv, TokenInv, StaysRevoked
      <3>3. QED  BY <3>1, <3>2
    <2>2. QED  BY <2>1 DEF StaysRevoked, Expiry
  <1>8. TokenTypes'  BY <1>2, <1>3 DEF TokenTypes
  <1>9. QED  BY <1>4, <1>5, <1>6, <1>7, <1>8 DEF TokenInv

\* Time passes.
LEMMA TokensTick ==
    ASSUME SettingsInv, UNCHANGED <<call, issued, held, blacklist, revoked>>,
           now < MaxTime, now' = now + 1
    PROVE  TokenInv' /\ TokenTypes'
  <1>1. TokenTypes  BY Typed
  <1>2. now \in Nat /\ now' \in now .. MaxTime /\ now' \in 0 .. MaxTime
    BY <1>1, SessionsAssumption DEF TokenTypes
  <1>3. PICK n \in Nat, m \in Nat : n = Second(now) /\ m = Second(now)' /\ n <= m
    <2>1. Second(now) \in Nat /\ Second(now') \in Nat /\ Second(now) <= Second(now')
      BY <1>1, <1>2, SecondIn DEF TokenTypes
    <2>2. QED  BY <2>1 DEF Second
  <1>4. TokensAreIssued'  BY DEF SettingsInv, TokenInv, TokensAreIssued, LetIn
  <1>5. HeldIsLast'
    <2>1. ASSUME NEW u \in Users
          PROVE  held[u] <= m /\ \A s \in Seconds : <<u, s>> \in issued => s <= held[u]
      <3>1. held[u] <= n /\ \A s \in Seconds : <<u, s>> \in issued => s <= held[u]
        BY <1>3 DEF SettingsInv, TokenInv, HeldIsLast
      <3>2. held[u] \in Int  BY <1>1, HeldIsInt
      <3>3. QED  BY <1>3, <3>1, <3>2
    <2>2. QED  BY <1>3, <2>1 DEF HeldIsLast
  <1>6. BlacklistedIsIssued'  BY DEF SettingsInv, TokenInv, BlacklistedIsIssued
  <1>7. StaysRevoked'
    <2>1. ASSUME NEW t \in revoked
          PROVE  \/ Expiry(t) * TicksPerSecond < blacklist[t] + TicksPerSecond
                 \/ Expiry(t) * TicksPerSecond < now' + TicksPerSecond
      <3>1. PICK e \in Nat : e = Expiry(t) * TicksPerSecond
        BY <1>1, TokenFields DEF TokenTypes
      <3>2. \/ e < blacklist[t] + TicksPerSecond \/ e < now + TicksPerSecond
        BY <3>1 DEF SettingsInv, TokenInv, StaysRevoked
      <3>3. e < now + TicksPerSecond => e < now' + TicksPerSecond
        BY <1>2, <3>1, SessionsAssumption
      <3>4. QED  BY <3>1, <3>2, <3>3
    <2>2. QED  BY <2>1 DEF StaysRevoked, Expiry
  <1>8. TokenTypes'  BY <1>1, <1>2 DEF TokenTypes
  <1>9. QED  BY <1>4, <1>5, <1>6, <1>7, <1>8 DEF TokenInv

\* Nothing of this changes.
LEMMA TokensSame ==
    ASSUME SettingsInv, UNCHANGED <<now, call, issued, held, blacklist, revoked>>
    PROVE  TokenInv' /\ TokenTypes'
  <1>1. TokenInv'
    BY DEF SettingsInv, TokenInv, TokensAreIssued, LetIn, HeldIsLast, BlacklistedIsIssued,
           StaysRevoked, Second, Expiry
  <1>2. TokenTypes'  BY Typed DEF TokenTypes
  <1>3. QED  BY <1>1, <1>2

-----------------------------------------------------------------------------
(* Late effects                                                            *)

LEMMA PassedFinite ==
    ASSUME NEW u
    PROVE  /\ IsFiniteSet(Passed(u)) /\ Cardinality(Passed(u)) \in Nat
           /\ IsFiniteSet(Calls) /\ Cardinality(Calls) \in Nat
           /\ Cardinality(Passed(u)) <= Cardinality(Calls)
  BY FS_Subset, FS_CardinalityType, SessionsAssumption DEF Passed

LEMMA PassedFiniteNext ==
    ASSUME NEW u
    PROVE  /\ IsFiniteSet(Passed(u)') /\ Cardinality(Passed(u)') \in Nat
           /\ Cardinality(Passed(u)') <= Cardinality(Calls)
  BY FS_Subset, FS_CardinalityType, SessionsAssumption DEF Passed

\* A call passes the check only while its user is active.
LEMMA LateKept ==
    ASSUME SettingsInv, UNCHANGED <<active, late>>,
           NEW c \in Calls, NEW x \in CallType, call' = [call EXCEPT ![c] = x],
           \/ x.pc \notin {"loaded", "rotated", "editing"}
           \/ x.token.user \in active
           \/ c \in Passed(x.token.user)
    PROVE  LateInv' /\ late' \in [Users -> Nat] /\ active' \subseteq Users
  <1>1. \A d \in Calls : call'[d] = IF d = c THEN x ELSE call[d]
    BY CallMoves DEF SettingsInv
  <1>2. ASSUME NEW u \in Users, u \notin active
        PROVE  late[u] + Cardinality(Passed(u)') <= Cardinality(Calls)
    <2>1. Passed(u)' \subseteq Passed(u)  BY <1>1, <1>2 DEF Passed
    <2>2. Cardinality(Passed(u)') <= Cardinality(Passed(u))
      BY <2>1, PassedFinite, FS_Subset
    <2>3. late[u] + Cardinality(Passed(u)) <= Cardinality(Calls)
      BY <1>2 DEF SettingsInv, LateInv
    <2>4. late[u] \in Nat  BY Typed
    <2>5. QED  BY <2>2, <2>3, <2>4, PassedFinite, PassedFiniteNext
  <1>3. LateInv'  BY <1>2 DEF SettingsInv, LateInv
  <1>4. QED  BY <1>3, Typed

\* A call that had passed the check takes effect and ends.
LEMMA LateEffect ==
    ASSUME SettingsInv, UNCHANGED active, NEW c \in Calls, call' = [call EXCEPT ![c] = NoCall],
           NEW v \in Users, c \in Passed(v), Effect(v)
    PROVE  LateInv' /\ late' \in [Users -> Nat] /\ active' \subseteq Users
  <1>1. \A d \in Calls : call'[d] = IF d = c THEN NoCall ELSE call[d]
    BY CallMoves, NoCallType DEF SettingsInv
  <1>2. late \in [Users -> Nat] /\ active \subseteq Users  BY Typed
  <1>3. /\ late' \in [Users -> Nat]
        /\ \A u \in Users : late'[u] = IF u = v /\ v \notin active THEN late[u] + 1 ELSE late[u]
    BY <1>2 DEF Effect
  <1>4. ASSUME NEW u \in Users, u \notin active
        PROVE  late'[u] + Cardinality(Passed(u)') <= Cardinality(Calls)
    <2>1. late[u] + Cardinality(Passed(u)) <= Cardinality(Calls) /\ late[u] \in Nat
      BY <1>2, <1>4 DEF SettingsInv, LateInv
    <2>2. CASE u = v
      <3>1. Passed(u)' = Passed(u) \ {c}  BY <1>1, NoCallType DEF Passed
      <3>2. Cardinality(Passed(u)') = Cardinality(Passed(u)) - 1
        BY <2>2, <3>1, PassedFinite, FS_RemoveElement
      <3>3. late'[u] = late[u] + 1  BY <1>3, <1>4, <2>2
      <3>4. QED  BY <2>1, <3>2, <3>3, PassedFinite, PassedFiniteNext
    <2>3. CASE u # v
      <3>1. Passed(u)' = Passed(u)  BY <1>1, <2>3, NoCallType DEF Passed
      <3>2. late'[u] = late[u]  BY <1>3, <2>3
      <3>3. QED  BY <2>1, <3>1, <3>2
    <2>4. QED  BY <2>2, <2>3
  <1>5. ASSUME NEW u \in Users PROVE late'[u] <= Cardinality(Calls)
    <2>1. CASE u = v /\ v \notin active
      BY <1>3, <1>4, <2>1, PassedFiniteNext, PassedFinite
    <2>2. CASE ~(u = v /\ v \notin active)
      BY <1>3, <2>2 DEF SettingsInv, LateInv
    <2>3. QED  BY <2>1, <2>2
  <1>6. QED  BY <1>2, <1>3, <1>4, <1>5 DEF LateInv

\* The operator switches a user off or on: counting starts again.
LEMMA LateReset ==
    ASSUME SettingsInv, UNCHANGED call, NEW v \in Users, late' = [late EXCEPT ![v] = 0],
           active' \subseteq Users, \A u \in Users : u # v => (u \in active' <=> u \in active)
    PROVE  LateInv' /\ late' \in [Users -> Nat]
  <1>1. late \in [Users -> Nat]  BY Typed
  <1>2. /\ late' \in [Users -> Nat]
        /\ \A u \in Users : late'[u] = IF u = v THEN 0 ELSE late[u]
    BY <1>1
  <1>3. \A u : Passed(u)' = Passed(u)  BY DEF Passed
  <1>4. ASSUME NEW u \in Users
        PROVE  /\ late'[u] <= Cardinality(Calls)
               /\ u \notin active' => late'[u] + Cardinality(Passed(u)') <= Cardinality(Calls)
    <2>1. CASE u = v  BY <1>2, <1>3, <2>1, PassedFinite
    <2>2. CASE u # v  BY <1>2, <1>3, <2>2 DEF SettingsInv, LateInv
    <2>3. QED  BY <2>1, <2>2
  <1>5. QED  BY <1>2, <1>4 DEF LateInv

-----------------------------------------------------------------------------
(* The API key                                                             *)

LEMMA VerifiedFinite ==
    /\ IsFiniteSet(Verified) /\ Cardinality(Verified) \in Nat
    /\ Cardinality(Verified) <= Cardinality(Calls) /\ Cardinality(Calls) \in Nat
  BY FS_Subset, FS_CardinalityType, SessionsAssumption DEF Verified

LEMMA VerifiedFiniteNext ==
    IsFiniteSet(Verified') /\ Cardinality(Verified') \in Nat
  BY FS_Subset, FS_CardinalityType, SessionsAssumption DEF Verified

\* No request is verified once the key is revoked.
LEMMA KeyKept ==
    ASSUME SettingsInv, UNCHANGED keyVars,
           NEW c \in Calls, NEW x \in CallType, call' = [call EXCEPT ![c] = x],
           x.pc = "verified" => key = "active"
    PROVE  KeyInv' /\ key' \in {"none", "active", "revoked"} /\ keyLate' \in Nat
  <1>1. \A d \in Calls : call'[d] = IF d = c THEN x ELSE call[d]
    BY CallMoves DEF SettingsInv
  <1>2. key' = key /\ keyLate' = keyLate /\ keyLate \in Nat  BY Typed DEF keyVars
  <1>3. CASE key = "revoked"
    <2>1. Verified' \subseteq Verified  BY <1>1, <1>3 DEF Verified
    <2>2. Cardinality(Verified') <= Cardinality(Verified)
      BY <2>1, VerifiedFinite, FS_Subset
    <2>3. keyLate + Cardinality(Verified) < Cardinality(Calls)
      BY <1>3 DEF SettingsInv, KeyInv
    <2>4. keyLate + Cardinality(Verified') < Cardinality(Calls)
      BY <1>2, <2>2, <2>3, VerifiedFinite, VerifiedFiniteNext
    <2>5. QED  BY <1>2, <1>3, <2>4, Typed DEF KeyInv
  <1>4. CASE key # "revoked"  BY <1>2, <1>4, Typed DEF SettingsInv, KeyInv
  <1>5. QED  BY <1>3, <1>4

\* The request that creates the key, or revokes it, is not made under the key.
LEMMA KeyChanged ==
    ASSUME SettingsInv, UNCHANGED keyLate, key # "revoked",
           key' \in {"active", "revoked"}, NEW c \in Calls, call[c].pc = "loaded",
           call' = [call EXCEPT ![c] = NoCall]
    PROVE  KeyInv' /\ key' \in {"none", "active", "revoked"} /\ keyLate' \in Nat
  <1>1. \A d \in Calls : call'[d] = IF d = c THEN NoCall ELSE call[d]
    BY CallMoves, NoCallType DEF SettingsInv
  <1>2. keyLate = 0 /\ keyLate' = 0  BY DEF SettingsInv, KeyInv
  <1>3. Verified' \subseteq Calls \ {c}  BY <1>1, NoCallType DEF Verified
  <1>4. /\ IsFiniteSet(Calls \ {c}) /\ Cardinality(Calls \ {c}) = Cardinality(Calls) - 1
    BY SessionsAssumption, FS_RemoveElement
  <1>5. Cardinality(Verified') <= Cardinality(Calls) - 1
    BY <1>3, <1>4, FS_Subset
  <1>6. 0 + Cardinality(Verified') < Cardinality(Calls)
    BY <1>5, VerifiedFinite, VerifiedFiniteNext
  <1>7. QED  BY <1>2, <1>6 DEF KeyInv

\* A request under the key is answered.
LEMMA KeyServed ==
    ASSUME SettingsInv, UNCHANGED key, NEW c \in Calls, call[c].pc = "verified",
           keyLate' = IF key = "revoked" THEN keyLate + 1 ELSE keyLate,
           call' = [call EXCEPT ![c] = NoCall]
    PROVE  KeyInv' /\ key' \in {"none", "active", "revoked"} /\ keyLate' \in Nat
  <1>1. \A d \in Calls : call'[d] = IF d = c THEN NoCall ELSE call[d]
    BY CallMoves, NoCallType DEF SettingsInv
  <1>2. keyLate \in Nat /\ key \in {"none", "active", "revoked"}  BY Typed
  <1>3. CASE key = "revoked"
    <2>1. Verified' = Verified \ {c}  BY <1>1, NoCallType DEF Verified
    <2>2. c \in Verified  BY DEF Verified
    <2>3. Cardinality(Verified') = Cardinality(Verified) - 1
      BY <2>1, <2>2, VerifiedFinite, FS_RemoveElement
    <2>4. keyLate + Cardinality(Verified) < Cardinality(Calls)
      BY <1>3 DEF SettingsInv, KeyInv
    <2>5. keyLate' = keyLate + 1  BY <1>3
    <2>6. keyLate' + Cardinality(Verified') < Cardinality(Calls)
      BY <1>2, <2>3, <2>4, <2>5, VerifiedFinite
    <2>7. QED  BY <1>2, <1>3, <2>5, <2>6 DEF KeyInv
  <1>4. CASE key # "revoked"  BY <1>2, <1>4 DEF SettingsInv, KeyInv
  <1>5. QED  BY <1>3, <1>4

LEMMA KeySame ==
    ASSUME SettingsInv, UNCHANGED <<call, keyVars>>
    PROVE  KeyInv' /\ key' \in {"none", "active", "revoked"} /\ keyLate' \in Nat
  <1>1. Verified' = Verified  BY DEF Verified
  <1>2. key' = key /\ keyLate' = keyLate  BY DEF keyVars
  <1>3. QED  BY <1>1, <1>2, Typed DEF SettingsInv, KeyInv

-----------------------------------------------------------------------------
(* The column                                                              *)

EditTypes ==
    /\ stored \in Settings /\ intended \in Settings
    /\ edit \in [Calls -> [op : Edits \cup {"none"}, loaded : Settings]]
    /\ \A c \in Calls : call[c].pc = "editing" <=> edit[c].op # "none"
    /\ turn \in [Workers -> {"idle", "automatic", "image"}]
    /\ overlapped \in BOOLEAN
    /\ lateAnswers \in Nat

LEMMA EditTyped ==
    ASSUME SettingsInv
    PROVE  EditTypes /\ PauseInv /\ EditInv
  BY DEF SettingsInv, SettingsTypeOK, EditTypes

LEMMA AnsweringFinite ==
    /\ IsFiniteSet(Answering) /\ Cardinality(Answering) \in Nat
    /\ Cardinality(Answering) <= Cardinality(Workers) /\ Cardinality(Workers) \in Nat
    /\ IsFiniteSet(Answering') /\ Cardinality(Answering') \in Nat
    /\ Cardinality(Answering') <= Cardinality(Workers)
  BY FS_Subset, FS_CardinalityType, WorkspaceSettingsAssumption DEF Answering

\* A call that is no edit goes on to something that is none.
LEMMA EditsKept ==
    ASSUME SettingsInv, UNCHANGED settingsVars,
           NEW c \in Calls, NEW x \in CallType, call' = [call EXCEPT ![c] = x],
           call[c].pc # "editing", x.pc # "editing"
    PROVE  EditTypes' /\ PauseInv' /\ EditInv'
  <1>1. \A d \in Calls : call'[d] = IF d = c THEN x ELSE call[d]
    BY CallMoves DEF SettingsInv
  <1>2. EditTypes /\ PauseInv /\ EditInv  BY EditTyped
  <1>3. EditTypes'  BY <1>1, <1>2 DEF EditTypes, settingsVars
  <1>4. PauseInv'  BY <1>2 DEF PauseInv, Answering, settingsVars
  <1>5. EditInv'  BY <1>1, <1>2 DEF EditInv, settingsVars
  <1>6. QED  BY <1>3, <1>4, <1>5

LEMMA EditsSame ==
    ASSUME SettingsInv, UNCHANGED <<call, settingsVars>>
    PROVE  EditTypes' /\ PauseInv' /\ EditInv'
  <1>1. EditTypes /\ PauseInv /\ EditInv  BY EditTyped
  <1>2. EditTypes'  BY <1>1 DEF EditTypes, settingsVars
  <1>3. PauseInv'  BY <1>1 DEF PauseInv, Answering, settingsVars
  <1>4. EditInv'  BY <1>1 DEF EditInv, settingsVars
  <1>5. QED  BY <1>2, <1>3, <1>4

LEMMA ChangedType ==
    ASSUME NEW settings \in Settings, NEW op \in Edits
    PROVE  Changed(settings, op) \in Settings
  BY DEF Settings, Edits, Changed

LEMMA DefaultType == Default \in Settings /\ Default.paused = FALSE
  BY DEF Default, Settings

\* An edit loads the column; overlapped says whether another was at work.
LEMMA EditLoads ==
    ASSUME SettingsInv, NEW c \in Calls, NEW op \in Edits, LoadSettings(c, op),
           NEW x \in CallType, x.pc = "editing", call' = [call EXCEPT ![c] = x]
    PROVE  EditTypes' /\ PauseInv' /\ EditInv'
  <1>1. \A d \in Calls : call'[d] = IF d = c THEN x ELSE call[d]
    BY CallMoves DEF SettingsInv
  <1>2. EditTypes /\ PauseInv /\ EditInv  BY EditTyped
  <1>3. /\ call[c].pc = "loaded" /\ UNCHANGED <<stored, turn, intended, lateAnswers>>
        /\ edit' = [edit EXCEPT ![c] = [op |-> op, loaded |-> stored]]
        /\ overlapped' = (overlapped \/ \E d \in Calls : call[d].pc = "editing")
    BY DEF LoadSettings
  <1>4. /\ \A d \in Calls : edit'[d] = IF d = c THEN [op |-> op, loaded |-> stored] ELSE edit[d]
        /\ edit' \in [Calls -> [op : Edits \cup {"none"}, loaded : Settings]]
    BY <1>2, <1>3 DEF EditTypes
  <1>5. EditTypes'  BY <1>1, <1>2, <1>3, <1>4 DEF EditTypes, Edits
  <1>6. PauseInv'  BY <1>2, <1>3 DEF PauseInv, Answering
  <1>7. EditInv'
    <2>1. SUFFICES ASSUME ~overlapped' PROVE EditInv'  BY DEF EditInv
    <2>2. ~overlapped /\ \A d \in Calls : call[d].pc # "editing"  BY <1>3, <2>1
    <2>3. stored = intended  BY <1>2, <2>2 DEF EditInv
    <2>4. \A d \in Calls : call'[d].pc = "editing" => d = c  BY <1>1, <2>2
    <2>5. edit'[c].loaded = stored  BY <1>4
    <2>6. QED  BY <1>3, <2>3, <2>4, <2>5 DEF EditInv
  <1>8. QED  BY <1>5, <1>6, <1>7

\* An edit stores the column; alone, it changes what the last edit left.
LEMMA EditStores ==
    ASSUME SettingsInv, NEW c \in Calls, StoreSettings(c)
    PROVE  EditTypes' /\ PauseInv' /\ EditInv'
  <1>1. \A d \in Calls : call'[d] = IF d = c THEN NoCall ELSE call[d]
    BY CallMoves, NoCallType DEF SettingsInv, StoreSettings, Return
  <1>2. EditTypes /\ PauseInv /\ EditInv  BY EditTyped
  <1>3. /\ call[c].pc = "editing" /\ UNCHANGED <<turn, overlapped>>
        /\ intended' = Changed(intended, edit[c].op)
        /\ edit' = [edit EXCEPT ![c] = NoEdit]
        /\ lateAnswers' = IF stored'.paused = stored.paused THEN lateAnswers ELSE 0
    BY DEF StoreSettings
  <1>4. edit[c].op \in Edits /\ edit[c].loaded \in Settings  BY <1>2, <1>3 DEF EditTypes
  <1>5. PICK new \in Settings : new = Changed(edit[c].loaded, edit[c].op)
    BY <1>4, ChangedType
  <1>6. stored' = IF new = edit[c].loaded THEN stored ELSE new
    BY <1>5 DEF StoreSettings
  <1>7. /\ \A d \in Calls : edit'[d] = IF d = c THEN NoEdit ELSE edit[d]
        /\ edit' \in [Calls -> [op : Edits \cup {"none"}, loaded : Settings]]
    BY <1>2, <1>3, DefaultType DEF EditTypes, NoEdit
  <1>8. EditTypes'
    <2>1. stored' \in Settings  BY <1>2, <1>6 DEF EditTypes
    <2>2. intended' \in Settings  BY <1>2, <1>3, <1>4, ChangedType DEF EditTypes
    <2>3. \A d \in Calls : call'[d].pc = "editing" <=> edit'[d].op # "none"
      BY <1>1, <1>2, <1>7, NoCallType DEF EditTypes, NoEdit
    <2>4. lateAnswers' \in Nat  BY <1>2, <1>3 DEF EditTypes
    <2>5. QED  BY <1>2, <1>3, <1>7, <2>1, <2>2, <2>3, <2>4 DEF EditTypes
  <1>9. PauseInv'
    <2>1. Answering' = Answering  BY <1>3 DEF Answering
    <2>2. CASE stored'.paused = stored.paused  BY <1>2, <1>3, <2>1, <2>2 DEF PauseInv
    <2>3. CASE stored'.paused # stored.paused
      BY <1>3, <2>1, <2>3, AnsweringFinite DEF PauseInv
    <2>4. QED  BY <2>2, <2>3
  <1>10. EditInv'
    <2>1. SUFFICES ASSUME ~overlapped' PROVE EditInv'  BY DEF EditInv
    <2>2. /\ stored = intended /\ edit[c].loaded = stored
          /\ \A d \in Calls : call[d].pc = "editing" => c = d
      BY <1>2, <1>3, <2>1 DEF EditInv
    <2>3. stored' = new /\ intended' = new  BY <1>3, <1>5, <1>6, <2>2
    <2>4. \A d \in Calls : call'[d].pc # "editing"  BY <1>1, <2>2, NoCallType
    <2>5. QED  BY <2>3, <2>4 DEF EditInv
  <1>11. QED  BY <1>8, <1>9, <1>10

\* A worker computes an answer only while the automation is not paused ...
LEMMA AnswerRead ==
    ASSUME SettingsInv, NEW w \in Workers, ReadSettings(w)
    PROVE  EditTypes' /\ PauseInv' /\ EditInv'
  <1>1. EditTypes /\ PauseInv /\ EditInv  BY EditTyped
  <1>2. /\ ~stored.paused /\ turn' = [turn EXCEPT ![w] = "automatic"] /\ call' = call
        /\ UNCHANGED <<stored, edit, intended, overlapped, lateAnswers>>
    BY DEF ReadSettings, sessionVars
  <1>3. EditTypes'  BY <1>1, <1>2 DEF EditTypes
  <1>4. PauseInv'  BY <1>1, <1>2 DEF PauseInv
  <1>5. EditInv'  BY <1>1, <1>2 DEF EditInv
  <1>6. QED  BY <1>3, <1>4, <1>5

\* ... and sends it, late or not.
LEMMA AnswerSent ==
    ASSUME SettingsInv, NEW w \in Workers, SendAnswer(w)
    PROVE  EditTypes' /\ PauseInv' /\ EditInv'
  <1>1. EditTypes /\ PauseInv /\ EditInv  BY EditTyped
  <1>2. /\ turn[w] = "automatic" /\ turn' = [turn EXCEPT ![w] = "idle"] /\ call' = call
        /\ lateAnswers' = IF stored.paused THEN lateAnswers + 1 ELSE lateAnswers
        /\ UNCHANGED <<stored, edit, intended, overlapped>>
    BY DEF SendAnswer, sessionVars
  <1>3. turn \in [Workers -> {"idle", "automatic", "image"}] /\ lateAnswers \in Nat
    BY <1>1 DEF EditTypes
  <1>4. \A v \in Workers : turn'[v] = IF v = w THEN "idle" ELSE turn[v]  BY <1>2, <1>3
  <1>5. EditTypes'  BY <1>1, <1>2, <1>3 DEF EditTypes
  <1>6. PauseInv'
    <2>1. Answering' = Answering \ {w} /\ w \in Answering
      BY <1>2, <1>4 DEF Answering
    <2>2. Cardinality(Answering') = Cardinality(Answering) - 1
      BY <2>1, AnsweringFinite, FS_RemoveElement
    <2>3. CASE stored.paused
      <3>1. lateAnswers + Cardinality(Answering) <= Cardinality(Workers)
        BY <1>1, <2>3 DEF PauseInv
      <3>2. lateAnswers' = lateAnswers + 1  BY <1>2, <2>3
      <3>3. /\ lateAnswers' + Cardinality(Answering') <= Cardinality(Workers)
            /\ lateAnswers' <= Cardinality(Workers)
        BY <1>3, <2>2, <3>1, <3>2, AnsweringFinite
      <3>4. QED  BY <3>3 DEF PauseInv
    <2>4. CASE ~stored.paused  BY <1>1, <1>2, <2>4 DEF PauseInv
    <2>5. QED  BY <2>3, <2>4
  <1>7. EditInv'  BY <1>1, <1>2 DEF EditInv
  <1>8. QED  BY <1>5, <1>6, <1>7

\* An image is answered without a look at the column.
LEMMA ImageAnswered ==
    ASSUME SettingsInv, NEW w \in Workers, AnalyseImage(w) \/ SendImageAnswer(w)
    PROVE  EditTypes' /\ PauseInv' /\ EditInv'
  <1>1. EditTypes /\ PauseInv /\ EditInv  BY EditTyped
  <1>2. /\ turn[w] # "automatic" /\ call' = call
        /\ \E t \in {"idle", "image"} : turn' = [turn EXCEPT ![w] = t]
        /\ UNCHANGED <<stored, edit, intended, overlapped, lateAnswers>>
    BY DEF AnalyseImage, SendImageAnswer, sessionVars
  <1>3. EditTypes'  BY <1>1, <1>2 DEF EditTypes
  <1>4. Answering' = Answering
    <2>1. turn \in [Workers -> {"idle", "automatic", "image"}]  BY <1>1 DEF EditTypes
    <2>2. \A v \in Workers : turn'[v] = "automatic" <=> turn[v] = "automatic"
      BY <1>2, <2>1
    <2>3. QED  BY <2>2 DEF Answering
  <1>5. PauseInv'  BY <1>1, <1>2, <1>4 DEF PauseInv
  <1>6. EditInv'  BY <1>1, <1>2 DEF EditInv
  <1>7. QED  BY <1>3, <1>5, <1>6

-----------------------------------------------------------------------------
(* Every step keeps the invariant                                          *)

LEMMA Assembled ==
    ASSUME TokenInv', TokenTypes', LateInv', late' \in [Users -> Nat], active' \subseteq Users,
           KeyInv', key' \in {"none", "active", "revoked"}, keyLate' \in Nat,
           EditTypes', PauseInv', EditInv', call' \in [Calls -> CallType],
           started' \in 0 .. MaxCalls, workspace' \in {"active", "suspended"}
    PROVE  SettingsInv'
  BY DEF SettingsInv, SettingsTypeOK, SessionTypeOK, TokenTypes, EditTypes, CallType

\* Goto changes the place in the handler, nothing else.
LEMMA GoesTo ==
    ASSUME SettingsInv, NEW c \in Calls, Goto(c, "loaded") \/ Goto(c, "rotated")
                                         \/ Goto(c, "half") \/ Goto(c, "editing")
    PROVE  \E x \in CallType :
              /\ x.token = call[c].token /\ x.other = call[c].other
              /\ x.op = call[c].op /\ call' = [call EXCEPT ![c] = x] /\ started' = started
              /\ Goto(c, "loaded") => x.pc = "loaded"
              /\ Goto(c, "rotated") => x.pc = "rotated"
              /\ Goto(c, "half") => x.pc = "half"
              /\ Goto(c, "editing") => x.pc = "editing"
  <1>1. call[c] \in CallType /\ call \in [Calls -> CallType]  BY Typed, InUse
  <1>2. PICK pc \in {"loaded", "rotated", "half", "editing"} : Goto(c, pc)  OBVIOUS
  <1> DEFINE x == [call[c] EXCEPT !.pc = pc]
  <1>3. x \in CallType /\ x.pc = pc /\ x.token = call[c].token /\ x.other = call[c].other
        /\ x.op = call[c].op
    BY <1>1 DEF CallType
  <1>4. call' = [call EXCEPT ![c] = x] /\ started' = started  BY <1>2 DEF Goto
  <1>5. \A q \in {"loaded", "rotated", "half", "editing"} : Goto(c, q) => q = pc
    <2>1. TAKE q \in {"loaded", "rotated", "half", "editing"}
    <2>2. HAVE Goto(c, q)
    <2>3. call'[c].pc = q /\ call'[c].pc = pc  BY <1>1, <1>2, <2>2 DEF Goto, CallType
    <2>4. QED  BY <2>3
  <1> HIDE DEF x
  <1>6. QED  BY <1>3, <1>4, <1>5

\* A handler moves on without touching anything but its own locals.
LEMMA CallSteps ==
    ASSUME SettingsInv, NEW c \in Calls, NEW x \in CallType, call' = [call EXCEPT ![c] = x],
           UNCHANGED <<now, active, workspace, issued, held, blacklist, revoked, late, keyVars>>,
           UNCHANGED settingsVars, started' \in 0 .. MaxCalls,
           call[c].pc # "editing", x.pc # "editing", x.pc = "verified" => key = "active",
           x.pc \in {"loaded", "rotated"} => x.token.user \in active,
           \/ x.pc \in {"idle", "found", "verified"}
           \/ /\ <<x.token.user, x.token.at>> \in issued
              /\ <<x.other.user, x.other.at>> \in issued
    PROVE  SettingsInv'
  <1>1. TokenInv' /\ TokenTypes'  BY TokensKept
  <1>2. LateInv' /\ late' \in [Users -> Nat] /\ active' \subseteq Users
    <2>1. \/ x.pc \notin {"loaded", "rotated", "editing"} \/ x.token.user \in active
      OBVIOUS
    <2>2. QED  BY <2>1, LateKept
  <1>3. KeyInv' /\ key' \in {"none", "active", "revoked"} /\ keyLate' \in Nat  BY KeyKept
  <1>4. EditTypes' /\ PauseInv' /\ EditInv'  BY EditsKept
  <1>5. call' \in [Calls -> CallType]  BY CallMoves DEF SettingsInv
  <1>6. workspace' \in {"active", "suspended"}  BY Typed
  <1>7. QED  BY <1>1, <1>2, <1>3, <1>4, <1>5, <1>6, Assembled

\* Requests start ...
LEMMA BeginKeeps ==
    ASSUME SettingsInv, NEW c \in Calls, NEW x \in CallType, Begin(c, x),
           UNCHANGED <<now, active, workspace, issued, held, blacklist, revoked, late, keyVars>>,
           UNCHANGED settingsVars,
           \/ x.pc = "found"
           \/ x.pc = "verified" /\ key = "active"
           \/ /\ x.pc \in {"checked", "listening"}
              /\ <<x.token.user, x.token.at>> \in issued
              /\ <<x.other.user, x.other.at>> \in issued
    PROVE  SettingsInv'
  <1>1. call[c].pc = "idle" /\ call' = [call EXCEPT ![c] = x] /\ started < MaxCalls
        /\ started' = started + 1
    BY DEF Begin
  <1>2. started' \in 0 .. MaxCalls  BY <1>1, Typed, SessionsAssumption
  <1>3. QED  BY <1>1, <1>2, CallSteps

LEMMA AcceptKeeps ==
    ASSUME SettingsInv, UNCHANGED settingsVars, NEW c \in Calls,
           NEW op \in {"refresh", "logout", "use"}, NEW t \in Tokens, NEW other \in Tokens,
           Accept(c, op, t, other)
    PROVE  SettingsInv'
  <1>1. PICK x \in CallType : x = [pc |-> "checked", op |-> op, token |-> t, other |-> other]
    BY DEF CallType
  <1>2. /\ Begin(c, x)
        /\ <<x.token.user, x.token.at>> \in issued /\ <<x.other.user, x.other.at>> \in issued
        /\ UNCHANGED <<now, active, workspace, issued, held, blacklist, revoked, late, keyVars>>
    BY <1>1 DEF Accept
  <1>3. x.pc = "checked"  BY <1>1
  <1>4. QED  BY <1>2, <1>3, BeginKeeps

\* A socket is opened with a token that was issued, and closed again.
LEMMA OpenSocketKeeps ==
    ASSUME SettingsInv, UNCHANGED settingsVars, NEW c \in Calls, NEW u \in Users,
           NEW at \in Seconds, OpenSocket(c, u, at)
    PROVE  SettingsInv'
  <1>1. PICK t \in Tokens : t = [kind |-> "access", user |-> u, at |-> at]  BY DEF Tokens
  <1>2. t.user = u /\ t.at = at  BY <1>1
  <1>3. PICK x \in CallType : x = [pc |-> "listening", op |-> "socket", token |-> t, other |-> t]
    BY DEF CallType
  <1>4. /\ Begin(c, x) /\ <<u, at>> \in issued
        /\ UNCHANGED <<now, active, workspace, issued, held, blacklist, revoked, late, keyVars>>
    BY <1>1, <1>3 DEF OpenSocket
  <1>5. x.pc = "listening" /\ x.token = t /\ x.other = t  BY <1>3
  <1>6. QED  BY <1>2, <1>4, <1>5, BeginKeeps

LEMMA CloseSocketKeeps ==
    ASSUME SettingsInv, UNCHANGED settingsVars, NEW c \in Calls, CloseSocket(c)
    PROVE  SettingsInv'
  <1>1. /\ call[c].pc = "listening" /\ call' = [call EXCEPT ![c] = NoCall] /\ started' = started
        /\ UNCHANGED <<now, active, workspace, issued, held, blacklist, revoked, late, keyVars>>
    BY DEF CloseSocket, Return
  <1>2. NoCall \in CallType /\ NoCall.pc = "idle"  BY NoCallType
  <1>3. started' \in 0 .. MaxCalls  BY <1>1, Typed
  <1>4. QED  BY <1>1, <1>2, <1>3, CallSteps

LEMMA FindWorkspaceKeeps ==
    ASSUME SettingsInv, UNCHANGED settingsVars, NEW c \in Calls, NEW u \in Users,
           FindWorkspace(c, u)
    PROVE  SettingsInv'
  <1> DEFINE t == [NoToken EXCEPT !.user = u]
             x == [NoCall EXCEPT !.pc = "found", !.op = "login", !.token = t]
  <1>1. NoCall \in CallType /\ NoToken \in Tokens  BY NoCallType
  <1>2. t \in Tokens  BY <1>1 DEF Tokens
  <1>3. x \in CallType /\ x.pc = "found"
    <2> HIDE DEF t
    <2>1. QED  BY <1>1, <1>2 DEF CallType
  <1>4. Begin(c, x)  BY DEF FindWorkspace
  <1>5. UNCHANGED <<now, active, workspace, issued, held, blacklist, revoked, late, keyVars>>
    BY DEF FindWorkspace
  <1> HIDE DEF t, x
  <1>6. QED  BY <1>3, <1>4, <1>5, BeginKeeps

LEMMA VerifyKeyKeeps ==
    ASSUME SettingsInv, UNCHANGED settingsVars, NEW c \in Calls, VerifyKey(c)
    PROVE  SettingsInv'
  <1> DEFINE x == [NoCall EXCEPT !.pc = "verified", !.op = "key"]
  <1>1. NoCall \in CallType  BY NoCallType
  <1>2. x \in CallType /\ x.pc = "verified"  BY <1>1 DEF CallType
  <1>3. Begin(c, x)  BY DEF VerifyKey
  <1>4. UNCHANGED <<now, active, workspace, issued, held, blacklist, revoked, late, keyVars>>
    BY DEF VerifyKey
  <1>5. key = "active"  BY DEF VerifyKey
  <1> HIDE DEF x
  <1>6. QED  BY <1>2, <1>3, <1>4, <1>5, BeginKeeps

\* ... load their user ...
LEMMA LoadUserKeeps ==
    ASSUME SettingsInv, UNCHANGED settingsVars, NEW c \in Calls, LoadUser(c)
    PROVE  SettingsInv'
  <1>1. call[c] \in CallType /\ started \in 0 .. MaxCalls  BY InUse, Typed
  <1>2. /\ call[c].pc = "checked" /\ started' = started
        /\ UNCHANGED <<now, active, workspace, issued, held, blacklist, revoked, late, keyVars>>
    BY DEF LoadUser, Goto, Return
  <1>3. /\ <<call[c].token.user, call[c].token.at>> \in issued
        /\ <<call[c].other.user, call[c].other.at>> \in issued
    BY <1>2 DEF SettingsInv, TokenInv, TokensAreIssued, LetIn
  <1>4. CASE call[c].token.user \in active
    <2>1. PICK x \in CallType : /\ x.pc = "loaded" /\ x.token = call[c].token
                                /\ x.other = call[c].other
                                /\ call' = [call EXCEPT ![c] = x]
      BY <1>4, GoesTo DEF LoadUser
    <2>2. QED  BY <1>1, <1>2, <1>3, <1>4, <2>1, CallSteps
  <1>5. CASE call[c].token.user \notin active
    <2>1. call' = [call EXCEPT ![c] = NoCall]  BY <1>5 DEF LoadUser, Return
    <2>2. QED  BY <1>1, <1>2, <2>1, NoCallType, CallSteps
  <1>6. QED  BY <1>4, <1>5

\* ... and end, with an effect or without.
LEMMA ReturnKeeps ==
    ASSUME SettingsInv, NEW c \in Calls, Return(c),
           call[c].pc \in {"found", "loaded", "rotated", "half", "verified"},
           UNCHANGED <<active, workspace>>, UNCHANGED settingsVars, TokenInv', TokenTypes',
           \/ UNCHANGED late
           \/ Effect(call[c].token.user) /\ c \in Passed(call[c].token.user),
           KeyInv', key' \in {"none", "active", "revoked"}, keyLate' \in Nat
    PROVE  SettingsInv'
  <1>1. call' = [call EXCEPT ![c] = NoCall] /\ started' = started  BY DEF Return
  <1>2. started' \in 0 .. MaxCalls /\ workspace' \in {"active", "suspended"}  BY <1>1, Typed
  <1>3. NoCall \in CallType /\ NoCall.pc = "idle"  BY NoCallType
  <1>4. LateInv' /\ late' \in [Users -> Nat] /\ active' \subseteq Users
    <2>1. CASE UNCHANGED late  BY <1>1, <1>3, <2>1, LateKept
    <2>2. CASE Effect(call[c].token.user) /\ c \in Passed(call[c].token.user)
      <3>1. PICK u \in Users : u = call[c].token.user  BY InUse, TokenFields
      <3>2. QED  BY <1>1, <2>2, <3>1, LateEffect
    <2>3. QED  BY <2>1, <2>2
  <1>5. EditTypes' /\ PauseInv' /\ EditInv'  BY <1>1, <1>3, EditsKept
  <1>6. call' \in [Calls -> CallType]  BY <1>1, <1>3, CallMoves DEF SettingsInv
  <1>7. QED  BY <1>2, <1>4, <1>5, <1>6, Assembled

LEMMA LoginKeeps ==
    ASSUME SettingsInv, UNCHANGED settingsVars, NEW c \in Calls, Login(c)
    PROVE  SettingsInv'
  <1>1. /\ call[c].pc = "found" /\ Return(c)
        /\ UNCHANGED <<now, active, workspace, blacklist, revoked, late, keyVars>>
    BY DEF Login
  <1>2. call' = [call EXCEPT ![c] = NoCall] /\ NoCall \in CallType /\ NoCall.pc = "idle"
    BY <1>1, NoCallType DEF Return
  <1>3. PICK u \in Users : u = call[c].token.user  BY InUse, TokenFields
  <1>4. TokenInv' /\ TokenTypes'
    <2>1. CASE u \in active
      <3>1. GivePair(u, Second(now))  BY <1>3, <2>1 DEF Login
      <3>2. QED  BY <1>1, <1>2, <3>1, TokensGiven
    <2>2. CASE u \notin active
      <3>1. UNCHANGED <<issued, held>>  BY <1>3, <2>2 DEF Login
      <3>2. QED  BY <1>1, <1>2, <3>1, TokensKept
    <2>3. QED  BY <2>1, <2>2
  <1>5. KeyInv' /\ key' \in {"none", "active", "revoked"} /\ keyLate' \in Nat
    BY <1>1, <1>2, KeyKept
  <1>6. QED  BY <1>1, <1>4, <1>5, ReturnKeeps

LEMMA IssueRotatedKeeps ==
    ASSUME SettingsInv, UNCHANGED settingsVars, NEW c \in Calls, IssueRotated(c)
    PROVE  SettingsInv'
  <1>1. /\ call[c].pc = "rotated" /\ Return(c) /\ Effect(call[c].token.user)
        /\ UNCHANGED <<now, active, workspace, blacklist, revoked, keyVars>>
    BY DEF IssueRotated
  <1>2. call' = [call EXCEPT ![c] = NoCall] /\ NoCall \in CallType /\ NoCall.pc = "idle"
    BY <1>1, NoCallType DEF Return
  <1>3. PICK u \in Users : u = call[c].token.user  BY InUse, TokenFields
  <1>4. GivePair(u, Second(now))  BY <1>3 DEF IssueRotated
  <1>5. TokenInv' /\ TokenTypes'  BY <1>1, <1>2, <1>4, TokensGiven
  <1>6. KeyInv' /\ key' \in {"none", "active", "revoked"} /\ keyLate' \in Nat
    BY <1>1, <1>2, KeyKept
  <1>7. c \in Passed(call[c].token.user)  BY <1>1 DEF Passed
  <1>8. QED  BY <1>1, <1>5, <1>6, <1>7, ReturnKeeps

\* refresh and logout take tokens back on their way ...
LEMMA TakeKeeps ==
    ASSUME SettingsInv, UNCHANGED settingsVars, NEW c \in Calls, call[c].pc = "loaded",
           UNCHANGED <<now, active, workspace, issued, held, late, keyVars>>,
           Goto(c, "rotated") \/ Goto(c, "half"),
           \/ UNCHANGED <<blacklist, revoked>>
           \/ /\ blacklist' = BlacklistedFor(call[c].token)
              /\ revoked' = revoked \cup {call[c].token}
    PROVE  SettingsInv'
  <1>1. PICK x \in CallType :
            /\ x.token = call[c].token /\ x.other = call[c].other
            /\ call' = [call EXCEPT ![c] = x] /\ started' = started
            /\ x.pc \in {"rotated", "half"}
    BY GoesTo
  <1>2. /\ <<call[c].token.user, call[c].token.at>> \in issued
        /\ <<call[c].other.user, call[c].other.at>> \in issued
    BY DEF SettingsInv, TokenInv, TokensAreIssued, LetIn
  <1>3. TokenInv' /\ TokenTypes'
    <2>1. CASE UNCHANGED <<blacklist, revoked>>  BY <1>1, <1>2, <2>1, TokensKept
    <2>2. CASE /\ blacklist' = BlacklistedFor(call[c].token)
               /\ revoked' = revoked \cup {call[c].token}
      BY <1>1, <1>2, <2>2, InUse, TokensTaken
    <2>3. QED  BY <2>1, <2>2
  <1>4. LateInv' /\ late' \in [Users -> Nat] /\ active' \subseteq Users
    <2>1. c \in Passed(x.token.user)  BY <1>1 DEF Passed
    <2>2. QED  BY <1>1, <2>1, LateKept
  <1>5. KeyInv' /\ key' \in {"none", "active", "revoked"} /\ keyLate' \in Nat
    BY <1>1, KeyKept
  <1>6. EditTypes' /\ PauseInv' /\ EditInv'  BY <1>1, EditsKept
  <1>7. call' \in [Calls -> CallType]  BY <1>1, CallMoves DEF SettingsInv
  <1>8. started' \in 0 .. MaxCalls /\ workspace' \in {"active", "suspended"}  BY <1>1, Typed
  <1>9. QED  BY <1>3, <1>4, <1>5, <1>6, <1>7, <1>8, Assembled

LEMMA RotateKeeps ==
    ASSUME SettingsInv, UNCHANGED settingsVars, NEW c \in Calls, Rotate(c)
    PROVE  SettingsInv'
  <1>1. /\ call[c].pc = "loaded" /\ Goto(c, "rotated")
        /\ UNCHANGED <<now, active, workspace, issued, held, late, keyVars>>
    BY DEF Rotate
  <1>2. /\ blacklist' = BlacklistedFor(call[c].token)
        /\ revoked' = revoked \cup {call[c].token}
    BY DEF Rotate
  <1>3. QED  BY <1>1, <1>2, TakeKeeps

LEMMA RevokeAccessKeeps ==
    ASSUME SettingsInv, UNCHANGED settingsVars, NEW c \in Calls, RevokeAccess(c)
    PROVE  SettingsInv'
  <1>1. /\ call[c].pc = "loaded" /\ Goto(c, "half")
        /\ UNCHANGED <<now, active, workspace, issued, held, late, keyVars>>
    BY DEF RevokeAccess
  <1>2. \/ UNCHANGED <<blacklist, revoked>>
        \/ /\ blacklist' = BlacklistedFor(call[c].token)
           /\ revoked' = revoked \cup {call[c].token}
    BY DEF RevokeAccess
  <1>3. QED  BY <1>1, <1>2, TakeKeeps

\* ... or at their end.
LEMMA RevokeRefreshKeeps ==
    ASSUME SettingsInv, UNCHANGED settingsVars, NEW c \in Calls, RevokeRefresh(c)
    PROVE  SettingsInv'
  <1>1. /\ call[c].pc = "half" /\ Return(c)
        /\ UNCHANGED <<now, active, workspace, issued, held, late, keyVars>>
    BY DEF RevokeRefresh
  <1>2. call' = [call EXCEPT ![c] = NoCall] /\ NoCall \in CallType /\ NoCall.pc = "idle"
    BY <1>1, NoCallType DEF Return
  <1>3. <<call[c].other.user, call[c].other.at>> \in issued
    BY <1>1 DEF SettingsInv, TokenInv, TokensAreIssued, LetIn
  <1>4. TokenInv' /\ TokenTypes'
    <2>1. CASE Decodes(call[c].other)
      <3>1. /\ blacklist' = BlacklistedFor(call[c].other)
            /\ revoked' = revoked \cup {call[c].other}
        BY <2>1 DEF RevokeRefresh
      <3>2. QED  BY <1>1, <1>2, <1>3, <3>1, InUse, TokensTaken
    <2>2. CASE ~Decodes(call[c].other)
      <3>1. UNCHANGED <<blacklist, revoked>>  BY <2>2 DEF RevokeRefresh
      <3>2. QED  BY <1>1, <1>2, <3>1, TokensKept
    <2>3. QED  BY <2>1, <2>2
  <1>5. KeyInv' /\ key' \in {"none", "active", "revoked"} /\ keyLate' \in Nat
    BY <1>1, <1>2, KeyKept
  <1>6. QED  BY <1>1, <1>4, <1>5, ReturnKeeps

LEMMA KeyActionsKeep ==
    ASSUME SettingsInv, UNCHANGED settingsVars, NEW c \in Calls, CreateKey(c) \/ RevokeKey(c)
    PROVE  SettingsInv'
  <1>1. /\ call[c].pc = "loaded" /\ Return(c) /\ Effect(call[c].token.user)
        /\ UNCHANGED <<now, active, workspace, issued, held, blacklist, revoked, keyLate>>
        /\ key # "revoked" /\ key' \in {"active", "revoked"}
    BY DEF CreateKey, RevokeKey
  <1>2. call' = [call EXCEPT ![c] = NoCall] /\ NoCall \in CallType /\ NoCall.pc = "idle"
    BY <1>1, NoCallType DEF Return
  <1>3. TokenInv' /\ TokenTypes'  BY <1>1, <1>2, TokensKept
  <1>4. KeyInv' /\ key' \in {"none", "active", "revoked"} /\ keyLate' \in Nat
    BY <1>1, <1>2, KeyChanged
  <1>5. c \in Passed(call[c].token.user)  BY <1>1 DEF Passed
  <1>6. QED  BY <1>1, <1>3, <1>4, <1>5, ReturnKeeps

LEMMA ServeKeyKeeps ==
    ASSUME SettingsInv, UNCHANGED settingsVars, NEW c \in Calls, ServeKey(c)
    PROVE  SettingsInv'
  <1>1. /\ call[c].pc = "verified" /\ Return(c)
        /\ keyLate' = IF key = "revoked" THEN keyLate + 1 ELSE keyLate
        /\ UNCHANGED <<now, active, workspace, issued, held, blacklist, revoked, late, key>>
    BY DEF ServeKey
  <1>2. call' = [call EXCEPT ![c] = NoCall] /\ NoCall \in CallType /\ NoCall.pc = "idle"
    BY <1>1, NoCallType DEF Return
  <1>3. TokenInv' /\ TokenTypes'  BY <1>1, <1>2, TokensKept
  <1>4. KeyInv' /\ key' \in {"none", "active", "revoked"} /\ keyLate' \in Nat
    BY <1>1, <1>2, KeyServed
  <1>5. QED  BY <1>1, <1>3, <1>4, ReturnKeeps

LEMMA ServeKeeps ==
    ASSUME SettingsInv, NEW c \in Calls, Serve(c)
    PROVE  SettingsInv'
  <1>1. /\ call[c].pc = "loaded" /\ Return(c) /\ Effect(call[c].token.user)
        /\ UNCHANGED <<now, active, workspace, issued, held, blacklist, revoked, keyVars>>
        /\ UNCHANGED settingsVars
    BY DEF Serve
  <1>2. call' = [call EXCEPT ![c] = NoCall] /\ NoCall \in CallType /\ NoCall.pc = "idle"
    BY <1>1, NoCallType DEF Return
  <1>3. TokenInv' /\ TokenTypes'  BY <1>1, <1>2, TokensKept
  <1>4. KeyInv' /\ key' \in {"none", "active", "revoked"} /\ keyLate' \in Nat
    BY <1>1, <1>2, KeyKept
  <1>5. c \in Passed(call[c].token.user)  BY <1>1 DEF Passed
  <1>6. QED  BY <1>1, <1>3, <1>4, <1>5, ReturnKeeps

LEMMA LoadSettingsKeeps ==
    ASSUME SettingsInv, NEW c \in Calls, NEW op \in Edits, LoadSettings(c, op)
    PROVE  SettingsInv'
  <1>1. /\ call[c].pc = "loaded" /\ Goto(c, "editing")
        /\ UNCHANGED <<now, active, workspace, issued, held, blacklist, revoked, late, keyVars>>
    BY DEF LoadSettings
  <1>2. PICK x \in CallType :
            /\ x.token = call[c].token /\ x.other = call[c].other
            /\ call' = [call EXCEPT ![c] = x] /\ started' = started /\ x.pc = "editing"
    BY <1>1, GoesTo
  <1>3. /\ <<call[c].token.user, call[c].token.at>> \in issued
        /\ <<call[c].other.user, call[c].other.at>> \in issued
    BY <1>1 DEF SettingsInv, TokenInv, TokensAreIssued, LetIn
  <1>4. TokenInv' /\ TokenTypes'  BY <1>1, <1>2, <1>3, TokensKept
  <1>5. LateInv' /\ late' \in [Users -> Nat] /\ active' \subseteq Users
    <2>1. c \in Passed(x.token.user)  BY <1>1, <1>2 DEF Passed
    <2>2. QED  BY <1>1, <1>2, <2>1, LateKept
  <1>6. KeyInv' /\ key' \in {"none", "active", "revoked"} /\ keyLate' \in Nat
    BY <1>1, <1>2, KeyKept
  <1>7. EditTypes' /\ PauseInv' /\ EditInv'  BY <1>2, EditLoads
  <1>8. call' \in [Calls -> CallType]  BY <1>2, CallMoves DEF SettingsInv
  <1>9. started' \in 0 .. MaxCalls /\ workspace' \in {"active", "suspended"}
    BY <1>1, <1>2, Typed
  <1>10. QED  BY <1>4, <1>5, <1>6, <1>7, <1>8, <1>9, Assembled

LEMMA StoreSettingsKeeps ==
    ASSUME SettingsInv, NEW c \in Calls, StoreSettings(c)
    PROVE  SettingsInv'
  <1>1. /\ call[c].pc = "editing" /\ Return(c) /\ Effect(call[c].token.user)
        /\ UNCHANGED <<now, active, workspace, issued, held, blacklist, revoked, keyVars>>
    BY DEF StoreSettings
  <1>2. call' = [call EXCEPT ![c] = NoCall] /\ NoCall \in CallType /\ NoCall.pc = "idle"
    BY <1>1, NoCallType DEF Return
  <1>3. TokenInv' /\ TokenTypes'  BY <1>1, <1>2, TokensKept
  <1>4. LateInv' /\ late' \in [Users -> Nat] /\ active' \subseteq Users
    <2>1. PICK u \in Users : u = call[c].token.user  BY InUse, TokenFields
    <2>2. c \in Passed(u)  BY <1>1, <2>1 DEF Passed
    <2>3. QED  BY <1>1, <1>2, <2>1, <2>2, LateEffect
  <1>5. KeyInv' /\ key' \in {"none", "active", "revoked"} /\ keyLate' \in Nat
    BY <1>1, <1>2, KeyKept
  <1>6. EditTypes' /\ PauseInv' /\ EditInv'  BY EditStores
  <1>7. call' \in [Calls -> CallType]  BY <1>2, CallMoves DEF SettingsInv
  <1>8. started' \in 0 .. MaxCalls /\ workspace' \in {"active", "suspended"}
    BY <1>1, Typed DEF Return
  <1>9. QED  BY <1>3, <1>4, <1>5, <1>6, <1>7, <1>8, Assembled

\* No call moves: the operator, the clock and the workers.
LEMMA SwitchKeeps ==
    ASSUME SettingsInv, UNCHANGED settingsVars, NEW u \in Users, Suspend(u) \/ Activate(u)
    PROVE  SettingsInv'
  <1>1. /\ UNCHANGED <<now, workspace, issued, held, blacklist, call, revoked, started, keyVars>>
        /\ late' = [late EXCEPT ![u] = 0]
    BY DEF Suspend, Activate
  <1>2. active' \subseteq Users /\ \A v \in Users : v # u => (v \in active' <=> v \in active)
    BY Typed DEF Suspend, Activate
  <1>3. TokenInv' /\ TokenTypes'  BY <1>1, TokensSame
  <1>4. LateInv' /\ late' \in [Users -> Nat]  BY <1>1, <1>2, LateReset
  <1>5. KeyInv' /\ key' \in {"none", "active", "revoked"} /\ keyLate' \in Nat
    BY <1>1, KeySame
  <1>6. EditTypes' /\ PauseInv' /\ EditInv'  BY <1>1, EditsSame
  <1>7. /\ call' \in [Calls -> CallType] /\ started' \in 0 .. MaxCalls
        /\ workspace' \in {"active", "suspended"}
    BY <1>1, Typed
  <1>8. QED  BY <1>2, <1>3, <1>4, <1>5, <1>6, <1>7, Assembled

LEMMA LateSame ==
    ASSUME SettingsInv, UNCHANGED <<call, active, late>>
    PROVE  LateInv' /\ late' \in [Users -> Nat] /\ active' \subseteq Users
  <1>1. \A u : Passed(u)' = Passed(u)  BY DEF Passed
  <1>2. QED  BY <1>1, Typed DEF SettingsInv, LateInv

LEMMA SetStatusKeeps ==
    ASSUME SettingsInv, UNCHANGED settingsVars, NEW given \in {"active", "suspended"},
           SetStatus(given)
    PROVE  SettingsInv'
  <1>1. /\ UNCHANGED <<now, active, issued, held, blacklist, call, revoked, late, started,
                      keyVars>>
        /\ workspace' = given
    BY DEF SetStatus
  <1>2. TokenInv' /\ TokenTypes'  BY <1>1, TokensSame
  <1>3. LateInv' /\ late' \in [Users -> Nat] /\ active' \subseteq Users  BY <1>1, LateSame
  <1>4. KeyInv' /\ key' \in {"none", "active", "revoked"} /\ keyLate' \in Nat
    BY <1>1, KeySame
  <1>5. EditTypes' /\ PauseInv' /\ EditInv'  BY <1>1, EditsSame
  <1>6. /\ call' \in [Calls -> CallType] /\ started' \in 0 .. MaxCalls
        /\ workspace' \in {"active", "suspended"}
    BY <1>1, Typed
  <1>7. QED  BY <1>2, <1>3, <1>4, <1>5, <1>6, Assembled

LEMMA TickKeeps ==
    ASSUME SettingsInv, UNCHANGED settingsVars, Tick
    PROVE  SettingsInv'
  <1>1. /\ UNCHANGED <<active, workspace, issued, held, blacklist, call, revoked, late, started,
                      keyVars>>
        /\ now < MaxTime /\ now' = now + 1
    BY DEF Tick
  <1>2. TokenInv' /\ TokenTypes'  BY <1>1, TokensTick
  <1>3. LateInv' /\ late' \in [Users -> Nat] /\ active' \subseteq Users  BY <1>1, LateSame
  <1>4. KeyInv' /\ key' \in {"none", "active", "revoked"} /\ keyLate' \in Nat
    BY <1>1, KeySame
  <1>5. EditTypes' /\ PauseInv' /\ EditInv'  BY <1>1, EditsSame
  <1>6. /\ call' \in [Calls -> CallType] /\ started' \in 0 .. MaxCalls
        /\ workspace' \in {"active", "suspended"}
    BY <1>1, Typed
  <1>7. QED  BY <1>2, <1>3, <1>4, <1>5, <1>6, Assembled

LEMMA WorkersKeep ==
    ASSUME SettingsInv, UNCHANGED sessionVars, EditTypes', PauseInv', EditInv'
    PROVE  SettingsInv'
  <1>1. UNCHANGED <<now, active, workspace, issued, held, blacklist, call, revoked, late,
                    started, keyVars>>
    BY DEF sessionVars, keyVars
  <1>2. TokenInv' /\ TokenTypes'  BY <1>1, TokensSame
  <1>3. LateInv' /\ late' \in [Users -> Nat] /\ active' \subseteq Users  BY <1>1, LateSame
  <1>4. KeyInv' /\ key' \in {"none", "active", "revoked"} /\ keyLate' \in Nat
    BY <1>1, KeySame
  <1>5. /\ call' \in [Calls -> CallType] /\ started' \in 0 .. MaxCalls
        /\ workspace' \in {"active", "suspended"}
    BY <1>1, Typed
  <1>6. QED  BY <1>2, <1>3, <1>4, <1>5, Assembled

-----------------------------------------------------------------------------
LEMMA TokenMade ==
    ASSUME NEW u \in Users, NEW at \in Seconds, NEW kind \in {"access", "refresh"}
    PROVE  [kind |-> kind, user |-> u, at |-> at] \in Tokens
  BY DEF Tokens

LEMMA SettingsStarts ==
    ASSUME SettingsInit
    PROVE  SettingsInv
  <1>1. SessionInit /\ NoCall \in CallType /\ NoCall.pc = "idle"
    BY NoCallType DEF SettingsInit
  <1>2. 0 \in 0 .. MaxTime /\ 0 \in 0 .. MaxCalls /\ Cardinality(Calls) \in Nat
    BY FS_CardinalityType, SessionsAssumption
  <1>3. Second(0) \in Nat  BY <1>2, SecondIn
  <1>4. TokenTypes  BY <1>1, <1>2 DEF SessionInit, TokenTypes
  <1>5. TokenInv
    <2>1. TokensAreIssued  BY <1>1 DEF SessionInit, TokensAreIssued, LetIn
    <2>2. HeldIsLast
      <3>1. now = 0 /\ issued = {} /\ \A u \in Users : held[u] = -1
        BY <1>1 DEF SessionInit
      <3>2. -1 <= Second(0)  BY <1>3
      <3>3. QED  BY <3>1, <3>2 DEF HeldIsLast
    <2>3. BlacklistedIsIssued  BY <1>1 DEF SessionInit, BlacklistedIsIssued
    <2>4. StaysRevoked  BY <1>1 DEF SessionInit, StaysRevoked
    <2>5. QED  BY <2>1, <2>2, <2>3, <2>4 DEF TokenInv
  <1>6. LateInv  BY <1>1, <1>2 DEF SessionInit, LateInv
  <1>7. KeyInv  BY <1>1 DEF SessionInit, KeyInv
  <1>8. EditTypes /\ EditInv
    BY <1>1, DefaultType DEF SettingsInit, SessionInit, EditTypes, EditInv, NoEdit
  <1>9. PauseInv  BY DefaultType, AnsweringFinite DEF SettingsInit, PauseInv
  <1>10. SettingsTypeOK
    BY <1>1, <1>2, <1>4, <1>8
       DEF SettingsTypeOK, SessionTypeOK, SessionInit, TokenTypes, EditTypes, CallType
  <1>11. QED  BY <1>5, <1>6, <1>7, <1>8, <1>9, <1>10 DEF SettingsInv

LEMMA SettingsSteps ==
    ASSUME SettingsInv, [SettingsNext]_allVars
    PROVE  SettingsInv'
  <1>1. ASSUME SessionStep, UNCHANGED settingsVars PROVE SettingsInv'
    <2>1. ASSUME NEW c \in Calls, NEW u \in Users, FindWorkspace(c, u) PROVE SettingsInv'
      BY <1>1, <2>1, FindWorkspaceKeeps
    <2>2. ASSUME NEW c \in Calls, NEW u \in Users, NEW at \in Seconds,
                 StartRefresh(c, u, at) \/ StartUse(c, u, at)
          PROVE  SettingsInv'
      <3>1. PICK t \in Tokens : t = [kind |-> "refresh", user |-> u, at |-> at]  BY TokenMade
      <3>2. PICK s \in Tokens : s = [kind |-> "access", user |-> u, at |-> at]  BY TokenMade
      <3>3. Accept(c, "refresh", t, t) \/ Accept(c, "use", s, s)
        BY <2>2, <3>1, <3>2 DEF StartRefresh, StartUse
      <3>4. QED  BY <1>1, <3>3, AcceptKeeps
    <2>3. ASSUME NEW c \in Calls, NEW u \in Users, NEW at \in Seconds, NEW other \in Seconds,
                 StartLogout(c, u, at, other)
          PROVE  SettingsInv'
      <3>1. PICK t \in Tokens : t = [kind |-> "access", user |-> u, at |-> at]  BY TokenMade
      <3>2. PICK s \in Tokens : s = [kind |-> "refresh", user |-> u, at |-> other]
        BY TokenMade
      <3>3. Accept(c, "logout", t, s)  BY <2>3, <3>1, <3>2 DEF StartLogout
      <3>4. QED  BY <1>1, <3>3, AcceptKeeps
    <2>4. ASSUME NEW c \in Calls, LoadUser(c) PROVE SettingsInv'
      BY <1>1, <2>4, LoadUserKeeps
    <2>5. ASSUME NEW c \in Calls, Login(c) PROVE SettingsInv'  BY <1>1, <2>5, LoginKeeps
    <2>6. ASSUME NEW c \in Calls, Rotate(c) PROVE SettingsInv'  BY <1>1, <2>6, RotateKeeps
    <2>7. ASSUME NEW c \in Calls, IssueRotated(c) PROVE SettingsInv'
      BY <1>1, <2>7, IssueRotatedKeeps
    <2>8. ASSUME NEW c \in Calls, RevokeAccess(c) PROVE SettingsInv'
      BY <1>1, <2>8, RevokeAccessKeeps
    <2>9. ASSUME NEW c \in Calls, RevokeRefresh(c) PROVE SettingsInv'
      BY <1>1, <2>9, RevokeRefreshKeeps
    <2>10. ASSUME NEW c \in Calls, CreateKey(c) \/ RevokeKey(c) PROVE SettingsInv'
      BY <1>1, <2>10, KeyActionsKeep
    <2>11. ASSUME NEW c \in Calls, VerifyKey(c) PROVE SettingsInv'
      BY <1>1, <2>11, VerifyKeyKeeps
    <2>12. ASSUME NEW c \in Calls, ServeKey(c) PROVE SettingsInv'
      BY <1>1, <2>12, ServeKeyKeeps
    <2>13. ASSUME NEW u \in Users, Suspend(u) \/ Activate(u) PROVE SettingsInv'
      BY <1>1, <2>13, SwitchKeeps
    <2>14. ASSUME NEW given \in {"active", "suspended"}, SetStatus(given)
           PROVE  SettingsInv'
      BY <1>1, <2>14, SetStatusKeeps
    <2>15. ASSUME Tick PROVE SettingsInv'  BY <1>1, <2>15, TickKeeps
    <2>17. ASSUME NEW c \in Calls, NEW u \in Users, NEW at \in Seconds, OpenSocket(c, u, at)
           PROVE  SettingsInv'
      BY <1>1, <2>17, OpenSocketKeeps
    <2>18. ASSUME NEW c \in Calls, CloseSocket(c) PROVE SettingsInv'
      BY <1>1, <2>18, CloseSocketKeeps
    <2>16. QED
      BY <1>1, <2>1, <2>2, <2>3, <2>4, <2>5, <2>6, <2>7, <2>8, <2>9, <2>10, <2>11, <2>12,
         <2>13, <2>14, <2>15, <2>17, <2>18 DEF SessionStep
  <1>2. ASSUME NEW c \in Calls, NEW op \in Edits, LoadSettings(c, op) PROVE SettingsInv'
    BY <1>2, LoadSettingsKeeps
  <1>3. ASSUME NEW c \in Calls, StoreSettings(c) PROVE SettingsInv'
    BY <1>3, StoreSettingsKeeps
  <1>4. ASSUME NEW c \in Calls, Serve(c) PROVE SettingsInv'  BY <1>4, ServeKeeps
  <1>5. ASSUME NEW w \in Workers, ReadSettings(w) PROVE SettingsInv'
    <2>1. EditTypes' /\ PauseInv' /\ EditInv'  BY <1>5, AnswerRead
    <2>2. UNCHANGED sessionVars  BY <1>5 DEF ReadSettings
    <2>3. QED  BY <2>1, <2>2, WorkersKeep
  <1>6. ASSUME NEW w \in Workers, SendAnswer(w) PROVE SettingsInv'
    <2>1. EditTypes' /\ PauseInv' /\ EditInv'  BY <1>6, AnswerSent
    <2>2. UNCHANGED sessionVars  BY <1>6 DEF SendAnswer
    <2>3. QED  BY <2>1, <2>2, WorkersKeep
  <1>7. ASSUME UNCHANGED allVars PROVE SettingsInv'
    <2>1. UNCHANGED sessionVars /\ UNCHANGED settingsVars  BY <1>7 DEF allVars
    <2>2. UNCHANGED call  BY <2>1 DEF sessionVars
    <2>3. EditTypes' /\ PauseInv' /\ EditInv'  BY <2>1, <2>2, EditsSame
    <2>4. QED  BY <2>1, <2>3, WorkersKeep
  <1>8. ASSUME NEW w \in Workers, AnalyseImage(w) \/ SendImageAnswer(w) PROVE SettingsInv'
    <2>1. EditTypes' /\ PauseInv' /\ EditInv'  BY <1>8, ImageAnswered
    <2>2. UNCHANGED sessionVars  BY <1>8 DEF AnalyseImage, SendImageAnswer
    <2>3. QED  BY <2>1, <2>2, WorkersKeep
  <1>9. QED  BY <1>1, <1>2, <1>3, <1>4, <1>5, <1>6, <1>7, <1>8 DEF SettingsNext

-----------------------------------------------------------------------------
(* The theorems                                                            *)

LEMMA SettingsAlways == SettingsSpec => []SettingsInv
  <1>1. SettingsInit => SettingsInv  BY SettingsStarts
  <1>2. SettingsInv /\ [SettingsNext]_allVars => SettingsInv'  BY SettingsSteps
  <1>3. QED  BY <1>1, <1>2, PTL DEF SettingsSpec

\* Every variable of the sessions and of the settings keeps its type, and a
\* handler is between load and store exactly when it holds what it loaded.
THEOREM SettingsTypeCorrect == SettingsSpec => []SettingsTypeOK
  <1>1. SettingsInv => SettingsTypeOK  BY DEF SettingsInv
  <1>2. QED  BY <1>1, SettingsAlways, PTL

\* Whatever the number of tabs, workers and open sockets: of the requests of a
\* suspended user, of those under a revoked key and of the texts of a paused
\* workspace, only what had passed its check still has an effect.
THEOREM ChecksHold == SettingsSpec => []ChecksTakeHold
  <1>1. ASSUME SettingsInv PROVE ChecksTakeHold
    <2>1. LateInv /\ KeyInv /\ PauseInv  BY <1>1 DEF SettingsInv
    <2>2. LateWithinCalls  BY <2>1 DEF LateInv, LateWithinCalls
    <2>3. RevokedKeyStops
      <3>1. 0 < Cardinality(Calls)  BY FS_EmptySet, FS_CardinalityType, SessionsAssumption
      <3>2. keyLate \in Nat  BY <1>1, Typed
      <3>3. QED  BY <2>1, <3>1, <3>2, VerifiedFinite DEF KeyInv, RevokedKeyStops
    <2>4. TextsPause  BY <2>1 DEF PauseInv, TextsPause
    <2>5. QED  BY <2>2, <2>3, <2>4 DEF ChecksTakeHold
  <1>2. QED  BY <1>1, SettingsAlways, PTL

\* Edits of the column that do not overlap do not undo each other.
THEOREM LoneEditsMerge == SettingsSpec => []EditsMerge
  <1>1. SettingsInv => EditsMerge  BY DEF SettingsInv, EditInv, EditsMerge
  <1>2. QED  BY <1>1, SettingsAlways, PTL

\* Only Accept lets a call in, and not with a token that is on the blacklist.
LEMMA LetInIsAccepted ==
    ASSUME SettingsInv, SettingsNext, NEW c \in Calls,
           call[c].pc = "idle", call'[c].pc = "checked"
    PROVE  call'[c].token \in Tokens /\ ~Blacklisted(call'[c].token)
  <1>1. call \in [Calls -> CallType] /\ NoCall.pc = "idle"  BY Typed, NoCallType
  <1>2. ASSUME NEW d \in Calls, NEW op, NEW t \in Tokens, NEW other, Accept(d, op, t, other)
        PROVE  call'[c].token \in Tokens /\ ~Blacklisted(call'[c].token)
    <2>1. /\ call' = [call EXCEPT ![d] = [pc |-> "checked", op |-> op, token |-> t,
                                         other |-> other]]
          /\ ~Blacklisted(t)
      BY <1>2 DEF Accept, Begin
    <2>2. c = d  BY <1>1, <2>1
    <2>3. QED  BY <1>1, <2>1, <2>2
  <1>3. ASSUME NEW d \in Calls, NEW u \in Users, NEW at \in Seconds,
               StartRefresh(d, u, at) \/ StartUse(d, u, at)
        PROVE  call'[c].token \in Tokens /\ ~Blacklisted(call'[c].token)
    <2>1. PICK t \in Tokens : t = [kind |-> "refresh", user |-> u, at |-> at]  BY TokenMade
    <2>2. PICK s \in Tokens : s = [kind |-> "access", user |-> u, at |-> at]  BY TokenMade
    <2>3. Accept(d, "refresh", t, t) \/ Accept(d, "use", s, s)
      BY <1>3, <2>1, <2>2 DEF StartRefresh, StartUse
    <2>4. QED  BY <1>2, <2>3
  <1>4. ASSUME NEW d \in Calls, NEW u \in Users, NEW at \in Seconds, NEW other \in Seconds,
               StartLogout(d, u, at, other)
        PROVE  call'[c].token \in Tokens /\ ~Blacklisted(call'[c].token)
    <2>1. PICK t \in Tokens : t = [kind |-> "access", user |-> u, at |-> at]  BY TokenMade
    <2>2. Accept(d, "logout", t, [kind |-> "refresh", user |-> u, at |-> other])
      BY <1>4, <2>1 DEF StartLogout
    <2>3. QED  BY <1>2, <2>2
  <1>5. ASSUME NEW d \in Calls, NEW x, call' = [call EXCEPT ![d] = x],
               call[d].pc # "idle" \/ x.pc # "checked"
        PROVE  FALSE
    <2>1. CASE c = d  BY <1>1, <1>5, <2>1
    <2>2. CASE c # d  BY <1>1, <1>5, <2>2
    <2>3. QED  BY <2>1, <2>2
  <1>6. ASSUME NEW d \in Calls, call[d].pc # "idle", Return(d) \/ \E q : Goto(d, q)
        PROVE  FALSE
    <2>1. PICK x : call' = [call EXCEPT ![d] = x]  BY <1>6 DEF Return, Goto
    <2>2. QED  BY <1>5, <1>6, <2>1
  <1>7. ASSUME NEW d \in Calls, NEW u \in Users, FindWorkspace(d, u) PROVE FALSE
    <2>1. PICK x : call' = [call EXCEPT ![d] = x] /\ x.pc = "found"
      BY <1>7 DEF FindWorkspace, Begin, NoCall
    <2>2. QED  BY <1>5, <2>1
  <1>13. ASSUME NEW d \in Calls, NEW u \in Users, NEW at \in Seconds, OpenSocket(d, u, at)
         PROVE  FALSE
    <2>1. PICK x : call' = [call EXCEPT ![d] = x] /\ x.pc = "listening"
      BY <1>13 DEF OpenSocket, Begin
    <2>2. QED  BY <1>5, <2>1
  <1>8. ASSUME NEW d \in Calls, VerifyKey(d) PROVE FALSE
    <2>1. PICK x : call' = [call EXCEPT ![d] = x] /\ x.pc = "verified"
      BY <1>8 DEF VerifyKey, Begin, NoCall
    <2>2. QED  BY <1>5, <2>1
  <1>9. ASSUME NEW d \in Calls,
               \/ LoadUser(d) \/ Login(d) \/ Rotate(d) \/ IssueRotated(d)
               \/ RevokeAccess(d) \/ RevokeRefresh(d) \/ CreateKey(d) \/ RevokeKey(d)
               \/ ServeKey(d) \/ StoreSettings(d) \/ Serve(d) \/ CloseSocket(d)
               \/ \E op \in Edits : LoadSettings(d, op)
        PROVE  FALSE
    <2>1. call[d].pc # "idle" /\ (Return(d) \/ \E q : Goto(d, q))
      BY <1>9 DEF LoadUser, Login, Rotate, IssueRotated, RevokeAccess, RevokeRefresh,
                  CreateKey, RevokeKey, ServeKey, StoreSettings, Serve, LoadSettings, CloseSocket
    <2>2. QED  BY <1>6, <2>1
  <1>10. UNCHANGED call => FALSE  OBVIOUS
  <1>11. ASSUME \/ \E u \in Users : Suspend(u) \/ Activate(u)
                \/ \E given \in {"active", "suspended"} : SetStatus(given)
                \/ Tick
                \/ \E w \in Workers : \/ ReadSettings(w) \/ SendAnswer(w)
                                      \/ AnalyseImage(w) \/ SendImageAnswer(w)
         PROVE  FALSE
    BY <1>10, <1>11 DEF Suspend, Activate, SetStatus, Tick, ReadSettings, SendAnswer,
                        AnalyseImage, SendImageAnswer, sessionVars
  <1>12. QED
    BY <1>3, <1>4, <1>7, <1>8, <1>9, <1>11, <1>13 DEF SettingsNext, SessionStep

\* ... and what starts to listen is a socket.
LEMMA ListensIsSocket ==
    ASSUME SettingsInv, SettingsNext, NEW c \in Calls,
           call[c].pc = "idle", call'[c].pc = "listening"
    PROVE  call'[c].op = "socket"
  <1>1. call \in [Calls -> CallType] /\ NoCall.pc = "idle"  BY Typed, NoCallType
  <1>2. ASSUME NEW d \in Calls, NEW x, call' = [call EXCEPT ![d] = x], x.pc # "listening"
        PROVE  FALSE
    <2>1. CASE c = d  BY <1>1, <1>2, <2>1
    <2>2. CASE c # d  BY <1>1, <1>2, <2>2
    <2>3. QED  BY <2>1, <2>2
  <1>3. ASSUME NEW d \in Calls, NEW u \in Users, NEW at \in Seconds, OpenSocket(d, u, at)
        PROVE  call'[c].op = "socket"
    <2> DEFINE t == [kind |-> "access", user |-> u, at |-> at]
               socket == [pc |-> "listening", op |-> "socket", token |-> t, other |-> t]
    <2>0. call' = [call EXCEPT ![d] = socket]  BY <1>3 DEF OpenSocket, Begin
    <2>3. socket.pc = "listening" /\ socket.op = "socket"  OBVIOUS
    <2> HIDE DEF socket
    <2>1. PICK x : call' = [call EXCEPT ![d] = x] /\ x.pc = "listening" /\ x.op = "socket"
      BY <2>0, <2>3
    <2>2. c = d  BY <1>1, <2>1
    <2>4. QED  BY <1>1, <2>1, <2>2
  <1>4. ASSUME NEW d \in Calls, NEW op, NEW t, NEW other, Accept(d, op, t, other)
        PROVE  FALSE
    <2>1. PICK x : call' = [call EXCEPT ![d] = x] /\ x.pc = "checked"
      BY <1>4 DEF Accept, Begin
    <2>2. QED  BY <1>2, <2>1
  <1>5. ASSUME NEW d \in Calls, NEW u \in Users, NEW at \in Seconds,
               \/ StartRefresh(d, u, at) \/ StartUse(d, u, at)
               \/ \E other \in Seconds : StartLogout(d, u, at, other)
        PROVE  FALSE
    BY <1>4, <1>5 DEF StartRefresh, StartUse, StartLogout
  <1>6. ASSUME NEW d \in Calls, NEW u \in Users, FindWorkspace(d, u) PROVE FALSE
    <2>1. PICK x : call' = [call EXCEPT ![d] = x] /\ x.pc = "found"
      BY <1>6 DEF FindWorkspace, Begin, NoCall
    <2>2. QED  BY <1>2, <2>1
  <1>7. ASSUME NEW d \in Calls, VerifyKey(d) PROVE FALSE
    <2>1. PICK x : call' = [call EXCEPT ![d] = x] /\ x.pc = "verified"
      BY <1>7 DEF VerifyKey, Begin, NoCall
    <2>2. QED  BY <1>2, <2>1
  <1>8. ASSUME NEW d \in Calls, call[d].pc # "idle", Return(d) \/ \E q : Goto(d, q)
        PROVE  FALSE
    <2>1. PICK x : call' = [call EXCEPT ![d] = x]  BY <1>8 DEF Return, Goto
    <2>2. CASE c = d  BY <1>8, <2>2
    <2>3. CASE c # d  BY <1>1, <2>1, <2>3
    <2>4. QED  BY <2>2, <2>3
  <1>9. ASSUME NEW d \in Calls,
               \/ LoadUser(d) \/ Login(d) \/ Rotate(d) \/ IssueRotated(d)
               \/ RevokeAccess(d) \/ RevokeRefresh(d) \/ CreateKey(d) \/ RevokeKey(d)
               \/ ServeKey(d) \/ StoreSettings(d) \/ Serve(d) \/ CloseSocket(d)
               \/ \E op \in Edits : LoadSettings(d, op)
        PROVE  FALSE
    <2>1. call[d].pc # "idle" /\ (Return(d) \/ \E q : Goto(d, q))
      BY <1>9 DEF LoadUser, Login, Rotate, IssueRotated, RevokeAccess, RevokeRefresh,
                  CreateKey, RevokeKey, ServeKey, StoreSettings, Serve, LoadSettings, CloseSocket
    <2>2. QED  BY <1>8, <2>1
  <1>10. UNCHANGED call => FALSE  OBVIOUS
  <1>11. ASSUME \/ \E u \in Users : Suspend(u) \/ Activate(u)
                \/ \E given \in {"active", "suspended"} : SetStatus(given)
                \/ Tick
                \/ \E w \in Workers : \/ ReadSettings(w) \/ SendAnswer(w)
                                      \/ AnalyseImage(w) \/ SendImageAnswer(w)
         PROVE  FALSE
    BY <1>10, <1>11 DEF Suspend, Activate, SetStatus, Tick, ReadSettings, SendAnswer,
                        AnalyseImage, SendImageAnswer, sessionVars
  <1>12. QED
    BY <1>3, <1>5, <1>6, <1>7, <1>9, <1>11 DEF SettingsNext, SessionStep

\* A token taken back by a refresh or a logout opens WebSockets only: it lets no
\* request in before the second in which it expires.
THEOREM RevokedListensAtMost == SettingsSpec => RevokedOnlyListens
  <1>1. ASSUME SettingsInv, SettingsNext, NEW c \in Calls,
               call[c].pc = "idle", call'[c].pc = "checked", call'[c].token \in revoked
        PROVE  now + TicksPerSecond > Expiry(call'[c].token) * TicksPerSecond
    <2>1. PICK t \in Tokens : t = call'[c].token /\ ~Blacklisted(t)
      BY <1>1, LetInIsAccepted
    <2>2. /\ now \in Nat /\ blacklist[t] \in Nat /\ TicksPerSecond \in Nat
          /\ Expiry(t) * TicksPerSecond \in Nat
      BY <1>1, Typed, TokenFields, SessionsAssumption DEF TokenTypes
    <2>3. PICK e \in Nat : e = Expiry(t) * TicksPerSecond  BY <2>2
    <2>4. e < blacklist[t] + TicksPerSecond \/ e < now + TicksPerSecond
      BY <1>1, <2>1, <2>3 DEF SettingsInv, TokenInv, StaysRevoked
    <2>5. blacklist[t] <= now  BY <2>1, <2>2 DEF Blacklisted
    <2>6. now + TicksPerSecond > e  BY <2>2, <2>3, <2>4, <2>5
    <2>7. QED  BY <2>1, <2>3, <2>6
  <1>2. ASSUME SettingsInv, [SettingsNext]_allVars
        PROVE  [\A c \in Calls :
                  /\ call[c].pc = "idle" /\ call'[c].pc \in {"checked", "listening"}
                  /\ call'[c].token \in revoked
                  => \/ call'[c].op = "socket"
                     \/ now + TicksPerSecond
                           > Expiry(call'[c].token) * TicksPerSecond]_sessionVars
    <2>1. CASE SettingsNext  BY <1>1, <1>2, <2>1, ListensIsSocket
    <2>2. CASE UNCHANGED allVars  BY <2>2 DEF allVars
    <2>3. QED  BY <1>2, <2>1, <2>2
  <1>3. QED  BY <1>2, SettingsAlways, PTL DEF SettingsSpec, RevokedOnlyListens

\* The pair a client gets is not one that was taken back, unless it is the pair
\* the client had.
THEOREM NewPairsWork == SettingsSpec => NewPairWorks
  <1>1. ASSUME SettingsInv, NEW u \in Users, NEW v \in Users, GivePair(v, Second(now)),
               UNCHANGED <<now, blacklist>>, held'[u] # held[u]
        PROVE  now' >= blacklist'[[kind |-> "refresh", user |-> u, at |-> held'[u]]]
    <2>1. TokenTypes  BY <1>1, Typed
    <2>2. PICK n \in Seconds : n = Second(now) /\ n \in Nat
      BY <2>1, SecondIn DEF TokenTypes
    <2>3. held'[u] = n  BY <1>1, <2>1, <2>2 DEF GivePair, TokenTypes
    <2>4. held[u] <= n /\ \A s \in Seconds : <<u, s>> \in issued => s <= held[u]
      BY <1>1, <2>2 DEF SettingsInv, TokenInv, HeldIsLast
    <2>5. held[u] \in Int  BY <2>1, HeldIsInt
    <2>6. <<u, n>> \notin issued  BY <1>1, <2>2, <2>3, <2>4, <2>5
    <2>7. PICK t \in Tokens : t = [kind |-> "refresh", user |-> u, at |-> n]  BY TokenMade
    <2>8. t.user = u /\ t.at = n  BY <2>7
    <2>9. blacklist[t] = 0  BY <1>1, <2>6, <2>8 DEF SettingsInv, TokenInv, BlacklistedIsIssued
    <2>10. now \in Nat /\ now' = now /\ blacklist' = blacklist  BY <1>1, <2>1 DEF TokenTypes
    <2>11. QED  BY <2>3, <2>7, <2>9, <2>10
  <1>2. ASSUME SettingsInv, SettingsNext, NEW u \in Users, held'[u] # held[u]
        PROVE  /\ UNCHANGED <<now, blacklist>>
               /\ \E v \in Users : GivePair(v, Second(now))
    <2>1. ASSUME NEW c \in Calls, Login(c) \/ IssueRotated(c)
          PROVE  /\ UNCHANGED <<now, blacklist>>
                 /\ \E v \in Users : GivePair(v, Second(now))
      <3>1. call[c].token.user \in Users  BY <1>2, InUse, TokenFields
      <3>2. UNCHANGED <<now, blacklist>>  BY <2>1 DEF Login, IssueRotated
      <3>3. GivePair(call[c].token.user, Second(now))
        BY <1>2, <2>1 DEF Login, IssueRotated
      <3>4. QED  BY <3>1, <3>2, <3>3
    <2>2. ASSUME NEW c \in Calls,
                 \/ LoadUser(c) \/ Rotate(c) \/ RevokeAccess(c) \/ RevokeRefresh(c)
                 \/ CreateKey(c) \/ RevokeKey(c) \/ VerifyKey(c) \/ ServeKey(c)
                 \/ StoreSettings(c) \/ Serve(c) \/ \E op \in Edits : LoadSettings(c, op)
                 \/ CloseSocket(c)
          PROVE  held' = held
      BY <2>2 DEF LoadUser, Rotate, RevokeAccess, RevokeRefresh, CreateKey, RevokeKey,
                  VerifyKey, ServeKey, StoreSettings, Serve, LoadSettings, CloseSocket
    <2>3. ASSUME NEW c \in Calls, NEW v \in Users,
                 \/ FindWorkspace(c, v)
                 \/ \E at \in Seconds :
                       \/ StartRefresh(c, v, at) \/ StartUse(c, v, at) \/ OpenSocket(c, v, at)
                       \/ \E other \in Seconds : StartLogout(c, v, at, other)
          PROVE  held' = held
      BY <2>3 DEF FindWorkspace, StartRefresh, StartUse, StartLogout, Accept, OpenSocket
    <2>4. ASSUME \/ \E v \in Users : Suspend(v) \/ Activate(v)
                 \/ \E given \in {"active", "suspended"} : SetStatus(given)
                 \/ Tick
                 \/ \E w \in Workers : \/ ReadSettings(w) \/ SendAnswer(w)
                                       \/ AnalyseImage(w) \/ SendImageAnswer(w)
          PROVE  held' = held
      BY <2>4 DEF Suspend, Activate, SetStatus, Tick, ReadSettings, SendAnswer, AnalyseImage,
                  SendImageAnswer, sessionVars
    <2>5. QED  BY <1>2, <2>1, <2>2, <2>3, <2>4 DEF SettingsNext, SessionStep
  <1>3. ASSUME SettingsInv, [SettingsNext]_allVars
        PROVE  [\A u \in Users : held'[u] # held[u] =>
                   now' >= blacklist'[[kind |-> "refresh", user |-> u, at |-> held'[u]]]]_sessionVars
    <2>1. CASE SettingsNext  BY <1>1, <1>2, <1>3, <2>1
    <2>2. CASE UNCHANGED allVars  BY <2>2 DEF allVars
    <2>3. QED  BY <1>3, <2>1, <2>2
  <1>4. QED  BY <1>3, SettingsAlways, PTL DEF SettingsSpec, NewPairWorks
=============================================================================
