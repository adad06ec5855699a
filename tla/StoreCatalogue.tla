---------------------------- MODULE StoreCatalogue ----------------------------
(***************************************************************************)
(* The imports that fill a workspace: syncs of a Zid or Salla shop, starter *)
(* packs, seasonal questions, the Instagram channel.                        *)
(*                                                                          *)
(* A request is one transaction. It searches a row by a key that is unique  *)
(* by convention only (the product's id in the metadata, the title of the   *)
(* policies, the type of the channel), then inserts or updates; nobody sees *)
(* that before its commit, and an updated row is locked until then. The     *)
(* shop changes at any time, and staff delete documents. The indexing that  *)
(* follows is in KnowledgeBase. Versions of a content number the changes of *)
(* the shop. In a malformed one a field that should hold a text for each    *)
(* language is a plain string, or the like: .get raises.                    *)
(***************************************************************************)
EXTENDS Naturals, Sequences, FiniteSets

CONSTANTS
    Requests,       \* requests being served at the same time
    Listing,        \* the order in which the shop lists its products
    PageSize,       \* products of one page (50); only the first is fetched
    Nameless,       \* products without a name
    Malformed,      \* versions of a product, or of the policies, the sync cannot convert
    Policies,       \* "سياسات المتجر (Zid)", the title of the policies
    Instagram,      \* the channel of type instagram
    Seasons,        \* titles of seasonal documents
    Packs,          \* sectors that have a starter pack
    OtherSectors,   \* sectors an admin may name that have none
    FirstSector,    \* workspace.sector at first
    MaxRequests,    \* bound: requests
    MaxChanges,     \* bound: changes of the shop
    MaxDeletes      \* bound: documents deleted by staff

Products == {Listing[i] : i \in DOMAIN Listing}
Shown == Products \cup {Policies}
Keys == Shown \cup {Instagram}

ASSUME CatalogueAssumption ==
    /\ Policies \notin Products /\ Instagram \notin Shown /\ Seasons \cap Keys = {}
    /\ Listing \in Seq(Products) /\ \A i, j \in DOMAIN Listing : Listing[i] = Listing[j] => i = j
    /\ Nameless \subseteq Products /\ Malformed \subseteq Nat /\ PageSize \in Nat \ {0}
    /\ Packs \cap OtherSectors = {}
    /\ {MaxRequests, MaxChanges, MaxDeletes} \subseteq Nat

VARIABLES
    shop,       \* [Shown -> version of its content, 0 when it is not for sale]
    rows,       \* sequence of committed rows: key, content, deleted
    request,    \* [Requests -> locals of a request]
    sector,     \* workspace.sector
    count,      \* requests, changes and deletions so far
    raced       \* keys two overlapping requests both missed

vars == <<shop, rows, request, sector, count, raced>>

-----------------------------------------------------------------------------
NoRequest == [phase |-> "none", todo |-> {}, fetched |-> [k \in {} |-> 0],
              pc |-> "look", key |-> "none", target |-> 0, seen |-> 0,
              made |-> <<>>, wrote |-> [d \in {} |-> 0], dead |-> FALSE, alone |-> TRUE]

Busy(r) == request[r].phase # "none"

\* Rows of key k a search finds: soft-deleted documents are not found.
Live(k) == {d \in DOMAIN rows : rows[d].key = k /\ ~rows[d].deleted}

\* Variant: the products are searched by an id without its prefix zid_.
FoundUnprefixed(k) == IF k \in Products THEN {} ELSE Live(k)

\* find_by_salla_id, find_by_title, the query of the channel.
Found(k) == Live(k)

Place(p) == CHOOSE i \in DOMAIN Listing : Listing[i] = p

\* The first page of the products that are for sale.
FirstPage ==
    LET sold == {p \in Products : shop[p] > 0}
    IN  [p \in {q \in sold : Cardinality({o \in sold : Place(o) < Place(q)}) < PageSize}
           |-> shop[p]]

\* A request starts; it is alone unless another one is being served.
Start(r, new) ==
    /\ ~Busy(r) /\ count.requests < MaxRequests
    /\ count' = [count EXCEPT !.requests = @ + 1]
    /\ request' = [v \in Requests |->
                     IF v = r THEN [new EXCEPT !.alone = \A u \in Requests : ~Busy(u)]
                     ELSE [request[v] EXCEPT !.alone = @ /\ ~Busy(v)]]
    /\ UNCHANGED <<shop, rows, sector, raced>>

\* POST /admin/zid/sync: the products are fetched; when that fails there are none.
ZidSync(r) ==
    \E page \in {FirstPage, [k \in {} |-> 0]} :
       Start(r, [NoRequest EXCEPT !.phase = "products", !.fetched = page,
                                  !.todo = DOMAIN page])

\* POST /admin/channels/instagram.
InstagramSetup(r) ==
    Start(r, [NoRequest EXCEPT !.phase = "channel", !.todo = {Instagram},
                               !.fetched = [k \in {Instagram} |-> count.requests + 1]])

-----------------------------------------------------------------------------
(* POST /admin/salla/sync: create_document and update_document are called   *)
(* with arguments they do not take. The TypeError ends the products, then   *)
(* the policies; the answer is "synced" all the same.                       *)

Local(r, new) ==
    /\ request' = [request EXCEPT ![r] = new]
    /\ UNCHANGED <<shop, rows, sector, count>>

\* fetch_all_products, of every page, for sale or not; a page that is refused ends
\* the list, an exception leaves none.
SallaListings ==
    {{Listing[i] : i \in 1 .. n} :
        n \in {m \in 0 .. Len(Listing) : m % PageSize = 0 \/ m = Len(Listing)}}

SallaSync(r) ==
    \E listed \in SallaListings :
       Start(r, [NoRequest EXCEPT !.phase = "salla", !.pc = "call", !.todo = listed,
                                  !.fetched = [p \in listed |-> shop[p]]])

\* The first product is searched, and its write raises.
SallaWriteRaises(r) ==
    /\ request[r].pc = "call" /\ request[r].todo # {}
    /\ Local(r, [request[r] EXCEPT !.todo = {}])
    /\ UNCHANGED raced

\* store_policies_to_kb_content: one document for each policy the shop names, if
\* it names one; they are tried in turn.
SallaPolicies == {{}, {Policies}}

\* fetch_store_info, which may be refused or raise; then the policies go the way
\* of the products.
SallaStoreInfo(r) ==
    /\ request[r].phase = "salla" /\ request[r].todo = {}
    /\ \E docs \in SallaPolicies :
          Local(r, [request[r] EXCEPT !.phase = "salla policies", !.todo = docs,
                                      !.fetched = [k \in docs |-> shop[k]]])
    /\ UNCHANGED raced

-----------------------------------------------------------------------------
(* One key of a request                                                    *)

\* k is the next of what is left, in the order of the listing.
Looking(r, k) ==
    /\ request[r].pc = "look" /\ k \in request[r].todo
    /\ \A l \in request[r].todo \ {k} : Place(k) < Place(l)

\* Back at the head of the loop.
Onward(q, k) ==
    [q EXCEPT !.pc = "look", !.key = "none", !.todo = @ \ {k}, !.target = 0, !.seen = 0]

\* What a Zid sync that fetched f passes over: a product without a name; a product
\* or policies whose conversion raises. Each exception is caught, and the answer is
\* "synced" all the same.
PassedOver(f) == Nameless \cup {k \in Shown \cap DOMAIN f : f[k] \in Malformed}

\* The key is passed over; once a flush has failed that befalls every key, as every
\* search raises.
SkipKey(r) ==
    /\ \E k \in request[r].todo :
          /\ Looking(r, k) /\ (request[r].dead \/ k \in PassedOver(request[r].fetched))
          /\ Local(r, Onward(request[r], k))
    /\ UNCHANGED raced

Searches(r, k) == Looking(r, k) /\ ~request[r].dead /\ k \notin PassedOver(request[r].fetched)

\* Exactly one row: it will be updated.
FindOne(r) ==
    /\ \E k \in request[r].todo : \E d \in Found(k) :
          /\ Searches(r, k) /\ Found(k) = {d}
          /\ Local(r, [request[r] EXCEPT !.pc = "update", !.key = k, !.todo = @ \ {k},
                                         !.target = d, !.seen = rows[d].content])
    /\ UNCHANGED raced

\* Request q has inserted k, or is about to.
Inserts(q, k) ==
    \/ q.pc = "create" /\ q.key = k
    \/ \E i \in DOMAIN q.made : q.made[i].key = k

\* None: one will be inserted, whoever else inserts it.
FindNone(r) ==
    \E k \in request[r].todo :
       /\ Searches(r, k) /\ Found(k) = {}
       /\ Local(r, [request[r] EXCEPT !.pc = "create", !.key = k, !.todo = @ \ {k}])
       /\ raced' = IF \E v \in Requests \ {r} : Inserts(request[v], k) THEN raced \cup {k} ELSE raced

\* Two: scalar_one_or_none raises. A sync passes the product over, now and in
\* every later sync; the setup of the channel fails.
FindTwo(r) ==
    /\ \E k \in request[r].todo :
          /\ Searches(r, k) /\ Cardinality(Found(k)) > 1
          /\ Local(r, IF request[r].phase = "channel" THEN NoRequest
                      ELSE Onward(request[r], k))
    /\ UNCHANGED raced

Locked(d) == \E v \in Requests : d \in DOMAIN request[v].wrote

With(f, d, content) == [e \in DOMAIN f \cup {d} |-> IF e = d THEN content ELSE f[e]]

\* update_document: the content is written when it differs from the loaded one,
\* as soon as no other transaction holds the row.
Update(r) ==
    LET q == request[r]
        d == q.target
    IN  /\ q.pc = "update"
        /\ IF q.fetched[q.key] = q.seen
           THEN Local(r, Onward(q, q.key))
           ELSE ~Locked(d) /\ Local(r, [Onward(q, q.key) EXCEPT
                                          !.wrote = With(@, d, q.fetched[q.key])])
        /\ UNCHANGED raced

\* create_document: approved from the start.
Create(r) ==
    LET q == request[r]
    IN  /\ q.pc = "create"
        /\ Local(r, [Onward(q, q.key) EXCEPT
                       !.made = Append(@, [key |-> q.key, deleted |-> FALSE,
                                           content |-> q.fetched[q.key]])])
        /\ UNCHANGED raced

\* The database refuses a flush (a title longer than its column, no owner to name
\* as the uploader, a lost connection): the session rolls the transaction back. A
\* sync goes on with the next product; the setup of the channel fails.
FlushFails(r) ==
    /\ request[r].pc \in {"update", "create"}
    /\ Local(r, IF request[r].phase = "channel" THEN NoRequest
                ELSE [Onward(request[r], request[r].key) EXCEPT
                           !.dead = TRUE, !.made = <<>>,
                           !.wrote = [d \in {} |-> 0]])
    /\ UNCHANGED raced

Finished(r) == request[r].pc = "look" /\ request[r].todo = {}

\* After the products the shop's policies are fetched, or cannot be.
FetchPolicies(r) ==
    /\ request[r].phase = "products" /\ Finished(r)
    /\ \/ Local(r, [request[r] EXCEPT !.phase = "policies"])
       \/ Local(r, [request[r] EXCEPT !.phase = "policies", !.todo = {Policies},
                                      !.fetched = With(@, Policies, shop[Policies])])
    /\ UNCHANGED raced

\* Variant: only the inserts are committed.
StoredInserts(q) == rows \o q.made

\* What a transaction leaves in the tables.
Stored(q) ==
    [d \in DOMAIN rows |->
        IF d \in DOMAIN q.wrote THEN [rows[d] EXCEPT !.content = q.wrote[d]] ELSE rows[d]]
    \o q.made

\* The transaction commits and the request is answered.
Commit(r) ==
    /\ request[r].phase \in {"policies", "channel"} /\ Finished(r) /\ ~request[r].dead
    /\ rows' = Stored(request[r])
    /\ request' = [request EXCEPT ![r].phase = "answered", ![r].made = <<>>,
                                  ![r].wrote = [d \in {} |-> 0]]
    /\ UNCHANGED <<shop, sector, count, raced>>

\* After a failed flush the commit is refused and the answer is an error.
CommitRefused(r) ==
    /\ request[r].phase = "policies" /\ Finished(r) /\ request[r].dead
    /\ Local(r, NoRequest)
    /\ UNCHANGED raced

\* The answer is sent; or, before the commit, the API process dies and nothing is
\* stored.
Leave(r) ==
    /\ Busy(r)
    /\ Local(r, NoRequest)
    /\ UNCHANGED raced

-----------------------------------------------------------------------------
(* Requests that take one step                                             *)

Ask ==
    /\ count.requests < MaxRequests
    /\ count' = [count EXCEPT !.requests = @ + 1]

\* POST /admin/seasonal/generate-kb inserts whatever the model wrote, and does not
\* look for an earlier document of the season. Without an answer nothing happens.
GenerateSeasonal(s) ==
    /\ Ask
    /\ rows' = Append(rows, [key |-> s, content |-> 1, deleted |-> FALSE])
    /\ UNCHANGED <<shop, request, sector, raced>>

\* POST /admin/starter-pack: a pack names arguments create_document does not take,
\* as the Salla sync does, and has no answer. A sector without a pack is not refused and becomes the workspace's.
StarterPack ==
    /\ Ask
    /\ \/ UNCHANGED sector
       \/ sector' \in OtherSectors
    /\ UNCHANGED <<shop, rows, request, raced>>

-----------------------------------------------------------------------------
(* The shop and the staff                                                  *)

\* A product or the policies change, in one form or the other; a product is sold no
\* longer or again.
ShopChanges(k) ==
    /\ count.changes < MaxChanges
    /\ shop' \in {[shop EXCEPT ![k] = 2 * count.changes + i] : i \in {2, 3}}
                 \cup (IF k \in Products THEN {[shop EXCEPT ![k] = 0]} ELSE {})
    /\ count' = [count EXCEPT !.changes = @ + 1]
    /\ UNCHANGED <<rows, request, sector, raced>>

\* DELETE /kb/documents/{id}: a soft delete, once the row is not locked.
StaffDeletes(d) ==
    /\ ~rows[d].deleted /\ ~Locked(d) /\ rows[d].key # Instagram
    /\ count.deletes < MaxDeletes
    /\ rows' = [rows EXCEPT ![d].deleted = TRUE]
    /\ count' = [count EXCEPT !.deletes = @ + 1]
    /\ request' = [v \in Requests |-> [request[v] EXCEPT !.alone = @ /\ ~Busy(v)]]
    /\ UNCHANGED <<shop, sector, raced>>

-----------------------------------------------------------------------------
Init ==
    /\ shop = [k \in Shown |-> 1]
    /\ rows = <<>>
    /\ request = [r \in Requests |-> NoRequest]
    /\ sector = FirstSector
    /\ count = [requests |-> 0, changes |-> 0, deletes |-> 0]
    /\ raced = {}

Step(r) ==
    \/ SkipKey(r) \/ FindOne(r) \/ FindNone(r) \/ FindTwo(r)
    \/ Update(r) \/ Create(r) \/ FlushFails(r) \/ FetchPolicies(r)
    \/ Commit(r) \/ CommitRefused(r) \/ SallaWriteRaises(r) \/ SallaStoreInfo(r)

Next ==
    \/ \E r \in Requests : ZidSync(r) \/ SallaSync(r) \/ InstagramSetup(r) \/ Step(r) \/ Leave(r)
    \/ \E s \in Seasons : GenerateSeasonal(s)
    \/ StarterPack
    \/ \E k \in Shown : ShopChanges(k)
    \/ \E d \in DOMAIN rows : StaffDeletes(d)

Spec == Init /\ [][Next]_vars

-----------------------------------------------------------------------------
(* Properties                                                              *)

Versions == 0 .. 2 * MaxChanges + MaxRequests + 1

Row == [key : Keys \cup Seasons, content : Versions, deleted : BOOLEAN]

\* Functions defined on some of D.
Partial(D, V) == UNION {[K -> V] : K \in SUBSET D}

Phases == {"none", "products", "policies", "channel", "answered", "salla", "salla policies"}

RequestType ==
    [phase : Phases, pc : {"look", "call", "update", "create"}, todo : SUBSET Keys,
     key : Keys \cup {"none"}, target : DOMAIN rows \cup {0}, seen : Versions,
     fetched : Partial(Keys, Versions), made : Seq(Row), wrote : Partial(DOMAIN rows, Versions),
     dead : BOOLEAN, alone : BOOLEAN]

TypeOK ==
    /\ shop \in [Shown -> Versions]
    /\ rows \in Seq(Row)
    /\ sector \in OtherSectors \cup {FirstSector}
    /\ raced \subseteq Keys
    /\ count \in [requests : 0 .. MaxRequests, changes : 0 .. MaxChanges, deletes : 0 .. MaxDeletes]
    /\ request \in [Requests -> RequestType]
    /\ \A r \in Requests :
          /\ request[r].todo \subseteq DOMAIN request[r].fetched
          /\ request[r].pc \in {"update", "create"} => request[r].key \in DOMAIN request[r].fetched
          /\ request[r].pc = "update" => request[r].target \in DOMAIN rows

\* The keys are unique by convention only: a product, the policies or the channel
\* has two live rows only if two overlapping requests both searched for it in
\* vain, however often the imports are repeated, fail or are cut short, and
\* whatever staff delete in between.
OneUnlessRaced == \A k \in Keys : Cardinality(Live(k)) <= 1 \/ k \in raced

\* A Zid sync or a setup of the channel that is answered, and that no other request
\* and no deletion overlapped, has left a live row with the fetched content for each
\* key it did not pass over, unless there were two before: what is missing after the
\* answer "synced" are the nameless, the malformed and the doubled, never more.
ZidSyncStores ==
    \A r \in Requests :
       request[r].phase = "answered" /\ request[r].alone =>
          \A k \in DOMAIN request[r].fetched \ PassedOver(request[r].fetched) :
             \/ Cardinality(Live(k)) > 1
             \/ \E d \in Live(k) : rows[d].content = request[r].fetched[k]
=============================================================================
