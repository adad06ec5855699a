----------------------------- MODULE StoreOrders -----------------------------
(***************************************************************************)
(* Orders of a connected shop as this program reads and changes them       *)
(* (radd/actions, radd/admin/integrations_router.py):                      *)
(*                                                                         *)
(*   a turn with the intent order_status  -> one GET, or two (Shopify)     *)
(*   POST /admin/salla/track-shipment     -> one GET                       *)
(*   POST /admin/salla/cancel-order       -> GET, look at the status, POST *)
(*   POST /admin/salla/create-return      -> GET, look at the status, POST *)
(*                                                                         *)
(* The shop moves on between two calls, refuses what it likes, and a call  *)
(* that it carried out may still end in an exception here. The branches of *)
(* detect_and_run_action that cancel, return and track are never reached:  *)
(* its only caller asks for the status of an order.                        *)
(***************************************************************************)
EXTENDS Naturals, FiniteSets

CONSTANTS
    Requests,     \* handler tasks: turns of a worker and requests of admins
    Orders,       \* order numbers people mention
    MaxRequests   \* bound: requests begun

\* What the bound has to be.
StoreOrdersAssumption == MaxRequests \in Nat

VARIABLES
    status,     \* the shop: [Orders -> slug, or "none" while it has no such order]
    delivered,  \* orders that were delivered at some time (history)
    returned,   \* the shop: orders with a return request
    req,        \* [Requests -> locals of a handler]
    begun       \* requests begun

vars == <<status, delivered, returned, req, begun>>

Idle == [pc |-> "idle", kind |-> "none", order |-> CHOOSE o \in Orders : TRUE,
         answer |-> "none"]

Goto(r, fields) == req' = [req EXCEPT ![r] = fields]

Answer(r, answer) ==
    /\ Goto(r, [req[r] EXCEPT !.pc = "answered", !.answer = answer])
    /\ UNCHANGED begun

Shop == <<status, delivered, returned>>

-----------------------------------------------------------------------------
(* The shop *)

\* What an order may become when nobody here asks for it. Delivered, canceled and
\* refunded orders never go back.
After(s) ==
    CASE s = "none" -> {"pending"}
      [] s = "pending" -> {"processing", "canceled"}
      [] s = "processing" -> {"in_transit", "canceled"}
      [] s = "in_transit" -> {"delivered"}
      [] s \in {"delivered", "canceled"} -> {"refunded"}
      [] OTHER -> {}

ShopMoves(o) ==
    /\ \E s \in After(status[o]) :
          /\ status' = [status EXCEPT ![o] = s]
          /\ delivered' = IF s = "delivered" THEN delivered \cup {o} ELSE delivered
    /\ UNCHANGED <<returned, req, begun>>

-----------------------------------------------------------------------------
(* Turns and requests *)

Begin(r, o, kind) ==
    /\ req[r].pc = "idle" /\ begun < MaxRequests
    /\ begun' = begun + 1
    /\ Goto(r, [pc |-> "search", kind |-> kind, order |-> o, answer |-> "none"])
    /\ UNCHANGED Shop

\* detect_and_run_action: the order's status, at Salla or at Shopify. A message
\* without a number, or a shop without tokens, is answered by the pipeline.
AskStatus(r, o, platform) == Begin(r, o, platform)

Cancel(r, o) == Begin(r, o, "cancel")
CreateReturn(r, o) == Begin(r, o, "return")
Track(r, o) == Begin(r, o, "track")

\* Statuses a cancellation is not tried for.
Final == {"delivered", "canceled", "refunded"}

Eligible(s) == s = "delivered"

\* GET orders?reference_id=...: the first order found, as it is now.
Finds(r, kind) == req[r].pc = "search" /\ req[r].kind = kind /\ status[req[r].order] # "none"

Misses(r) ==
    /\ req[r].pc = "search" /\ req[r].kind # "shopify" /\ status[req[r].order] = "none"
    /\ Answer(r, "not_found")
    /\ UNCHANGED Shop

FindToTell(r) ==
    /\ Finds(r, "salla")
    /\ Answer(r, "found")
    /\ UNCHANGED Shop

FindToTrack(r) ==
    /\ Finds(r, "track")
    /\ Answer(r, "found")
    /\ UNCHANGED Shop

FindToCancel(r) ==
    /\ Finds(r, "cancel")
    /\ \/ status[req[r].order] \in Final /\ Answer(r, "cannot_cancel")
       \/ /\ status[req[r].order] \notin Final
          /\ Goto(r, [req[r] EXCEPT !.pc = "post"]) /\ UNCHANGED begun
    /\ UNCHANGED Shop

FindToReturn(r) ==
    /\ Finds(r, "return")
    /\ \/ ~Eligible(status[req[r].order]) /\ Answer(r, "not_eligible")
       \/ /\ Eligible(status[req[r].order])
          /\ Goto(r, [req[r] EXCEPT !.pc = "post"]) /\ UNCHANGED begun
    /\ UNCHANGED Shop

\* Shopify: by name, then by id, where every answer but 200 means there is none.
SearchShopify(r) ==
    /\ req[r].pc = "search" /\ req[r].kind = "shopify"
    /\ \/ status[req[r].order] # "none" /\ Answer(r, "found")
       \/ status[req[r].order] = "none" /\ Goto(r, [req[r] EXCEPT !.pc = "by id"]) /\ UNCHANGED begun
    /\ UNCHANGED Shop

SearchById(r) ==
    /\ req[r].pc = "by id"
    /\ \/ status[req[r].order] # "none" /\ Answer(r, "found")
       \/ Answer(r, "not_found")
    /\ UNCHANGED Shop

\* A call ends in an HTTP error or an exception. The customer of a Salla shop is
\* then told that there is no such order; at a Shopify shop the turn fails in the
\* call of logging that should have noted it.
SearchFails(r) ==
    /\ req[r].pc \in {"search", "by id"}
    /\ Answer(r, IF req[r].kind = "salla" THEN "not_found" ELSE "failed")
    /\ UNCHANGED Shop

\* The shop carries the request out, whatever became of the order since the GET.
CarriedOut(r) ==
    LET o == req[r].order IN
    \/ req[r].kind = "cancel" /\ status' = [status EXCEPT ![o] = "canceled"]
                              /\ UNCHANGED <<delivered, returned>>
    \/ req[r].kind = "return" /\ returned' = returned \cup {o}
                              /\ UNCHANGED <<status, delivered>>

Post(r) ==
    /\ req[r].pc = "post" /\ CarriedOut(r)
    /\ Answer(r, "done")

\* It was carried out, and the reply is lost or its body cannot be read.
PostThenFails(r) ==
    /\ req[r].pc = "post" /\ CarriedOut(r)
    /\ Answer(r, "failed")

\* Variant: the status code of the reply is not looked at.
PostRefusedUnread(r) ==
    /\ req[r].pc = "post"
    /\ Answer(r, "done")
    /\ UNCHANGED Shop

PostRefused(r) ==
    /\ req[r].pc = "post"
    /\ \/ Answer(r, "api_rejected")
       \/ Answer(r, "failed")
    /\ UNCHANGED Shop

Leave(r) ==
    /\ req[r].pc = "answered"
    /\ Goto(r, Idle)
    /\ UNCHANGED <<status, delivered, returned, begun>>

Init ==
    /\ status = [o \in Orders |-> "none"]
    /\ delivered = {} /\ returned = {}
    /\ req = [r \in Requests |-> Idle]
    /\ begun = 0

Next ==
    \/ \E o \in Orders : ShopMoves(o)
    \/ \E r \in Requests, o \in Orders :
          \/ AskStatus(r, o, "salla") \/ AskStatus(r, o, "shopify")
          \/ Cancel(r, o) \/ CreateReturn(r, o) \/ Track(r, o)
    \/ \E r \in Requests :
          \/ Misses(r) \/ FindToTell(r) \/ FindToTrack(r) \/ FindToCancel(r) \/ FindToReturn(r)
          \/ SearchShopify(r) \/ SearchById(r) \/ SearchFails(r)
          \/ Post(r) \/ PostThenFails(r) \/ PostRefused(r) \/ Leave(r)

Spec == Init /\ [][Next]_vars

-----------------------------------------------------------------------------

Statuses == {"none", "pending", "processing", "in_transit"} \cup Final

\* Every variable has its type.
TypeOK ==
    /\ status \in [Orders -> Statuses]
    /\ delivered \subseteq Orders /\ returned \subseteq Orders
    /\ req \in [Requests ->
          [pc : {"idle", "search", "by id", "post", "answered"},
           kind : {"none", "salla", "shopify", "cancel", "return", "track"},
           order : Orders \cup {Idle.order},
           answer : {"none", "found", "not_found", "cannot_cancel", "not_eligible",
                     "done", "api_rejected", "failed"}]]
    /\ begun \in 0 .. MaxRequests

\* What an admin is told of a write stays true: a canceled order is canceled or
\* refunded, one that could not be canceled still cannot, and a return that was
\* created exists (cancel_order, create_return_request).
AnswersStand ==
    \A r \in Requests : req[r].pc = "answered" =>
        LET q == req[r] IN
        /\ q.answer = "done" /\ q.kind = "cancel" => status[q.order] \in {"canceled", "refunded"}
        /\ q.answer = "done" /\ q.kind = "return" => q.order \in returned
        /\ q.answer = "cannot_cancel" => status[q.order] \in Final

\* "Only delivered orders can be returned": the order of a return had been
\* delivered, however the calls of two requests and the shop interleaved.
ReturnedWasDelivered == returned \subseteq delivered

\* Whatever the shop does between two calls, what staff were told of a write holds
\* (cancel_order and create_return_request look at the status one call earlier).
WritesAreTrue == AnswersStand /\ ReturnedWasDelivered
=============================================================================
