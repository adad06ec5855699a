------------------------------- MODULE MCStore -------------------------------
(* The two ways this program deals with a shop: its catalogue is imported and *)
(* its orders are asked about. They share no variable, so a behaviour moves   *)
(* one of them. Two requests; two orders; three products, of which a page     *)
(* shows two and one has no name.                                             *)
EXTENDS StoreCatalogue, TLC

CONSTANTS
    r1, r2,
    Orders, MaxAsked    \* StoreOrders

VARIABLES status, delivered, returned, req, begun, side

orders == <<status, delivered, returned, req, begun>>

O == INSTANCE StoreOrders WITH MaxRequests <- MaxAsked

ASSUME MCStoreAssumption == O!StoreOrdersAssumption

MCListing == <<"rose", "nameless", "oud">>

MCSymmetry == Permutations(Requests)

MCInit == Init /\ O!Init /\ side \in {"catalogue", "orders"}

MCNext ==
    \/ side = "catalogue" /\ Next /\ UNCHANGED <<orders, side>>
    \/ side = "orders" /\ O!Next /\ UNCHANGED <<vars, side>>

MCSpec == MCInit /\ [][MCNext]_<<vars, orders, side>>

\* Whatever the shop does between two calls, what staff were told of a write to
\* an order holds (StoreOrders).
WritesAreTrue == O!WritesAreTrue
=============================================================================
