---------------------------- MODULE Registration ----------------------------
(***************************************************************************)
(* Creating a product on a marketplace: the handler of                     *)
(* POST /api/markets/<market>/products (src/src/web/httpServer.ts), the    *)
(* registration ledger that makes it idempotent, the catalog mapping that  *)
(* records the created product, and the marketplace itself.                *)
(*                                                                         *)
(* One tenant and one market: ledger rows are keyed by tenant, market and  *)
(* idempotency key, mappings by tenant, SKU and market, and no operation   *)
(* touches two tenants or two markets.                                     *)
(*                                                                         *)
(* The ledger and the catalog each run their mutations one at a time and   *)
(* publish the new state after its snapshot is durable, so a mutation is   *)
(* one step here and the variable is both the memory and the file: a crash *)
(* between the write and the publication is a crash right after the step.  *)
(***************************************************************************)
EXTENDS Naturals, FiniteSets

CONSTANTS
    Handlers,     \* requests the server is processing at the same time
    Keys,         \* idempotency keys
    Skus,         \* master SKUs
    Bodies,       \* (masterSku, payload) pairs a client may submit
    SkuOf,        \* the master SKU of each body
    Products,     \* product numbers the marketplace may hand out
    NoProduct,    \* null
    NoSku,        \* the SKU is not in the catalog
    MaxFailures,  \* bound: failed verdicts after which clients give a key up
    Faults        \* TRUE: the process may die and a snapshot write may fail

ASSUME RegistrationAssumption ==
    /\ SkuOf \in [Bodies -> Skus]
    /\ NoProduct \notin Products
    /\ NoSku \notin Products \union {NoProduct}
    /\ MaxFailures \in Nat
    /\ Faults \in BOOLEAN

VARIABLES
    handler,   \* [Handlers -> Handler], requests in progress
    ledger,    \* [Keys -> Row], registrationLedger.json
    catalog,   \* [Skus -> ...], the market's product id of each catalog entry
    wire,      \* POSTs on their way to, or being worked on by, the marketplace
    made,      \* [Products -> Post], which POST created each product
    sent,      \* history: POSTs sent for each key
    failed,    \* history: FAILED verdicts written for each key
    edited     \* history: SKUs whose catalog entry a user has overwritten

vars == <<handler, ledger, catalog, wire, made, sent, failed, edited>>
historyVars == <<sent, failed, edited>>

(***************************************************************************)
(* Types                                                                   *)
(***************************************************************************)
Post == [key : Keys, body : Bodies, n : Nat]
NoPost == [key |-> "none", body |-> "none", n |-> 0]

\* A row of the ledger; "none" stands for a key without a row.
Row == [status : {"PENDING", "FAILED"}, body : Bodies, id : {NoProduct}]
       \union [status : {"COMPLETED"}, body : Bodies, id : Products]
NoRow == [status |-> "none", body |-> "none", id |-> NoProduct]

\* at: the await the handler is suspended in.
\*   claiming    registrationLedger.claim
\*   verifying   marketConnections.verify
\*   posting     marketConnections.registerProduct
\*   mapping     catalog.setMarketplaceMapping
\*   finishing   registrationLedger.finish
Active == [at : {"claiming", "verifying", "posting", "mapping", "finishing"},
           key : Keys, body : Bodies, n : Nat, id : Products \union {NoProduct}]
Idle == [at |-> "idle", key |-> "none", body |-> "none", n |-> 0, id |-> NoProduct]

TypeOK ==
    /\ handler \in [Handlers -> Active \union {Idle}]
    /\ ledger \in [Keys -> Row \union {NoRow}]
    /\ catalog \in [Skus -> Products \union {NoProduct, NoSku}]
    /\ wire \subseteq Post
    /\ made \in [Products -> Post \union {NoPost}]
    /\ sent \in [Keys -> Nat]
    /\ failed \in [Keys -> Nat]
    /\ edited \subseteq Skus

-----------------------------------------------------------------------------
Init ==
    /\ handler = [h \in Handlers |-> Idle]
    /\ ledger = [k \in Keys |-> NoRow]
    /\ catalog = [s \in Skus |-> NoProduct]
    /\ wire = {}
    /\ made = [p \in Products |-> NoPost]
    /\ sent = [k \in Keys |-> 0]
    /\ failed = [k \in Keys |-> 0]
    /\ edited = {}

MyRow(h) == ledger[handler[h].key]
MySku(h) == SkuOf[handler[h].body]
MyPost(h) == [key |-> handler[h].key, body |-> handler[h].body, n |-> handler[h].n]
Created == {p \in Products : made[p] # NoPost}

GoIdle(h) == handler' = [handler EXCEPT ![h] = Idle]

(***************************************************************************)
(* The request.  404 when the SKU is unknown, 409 when the market already  *)
(* has a product id; otherwise the handler queues its claim.               *)
(***************************************************************************)
Request(h, k, b) ==
    /\ handler[h] = Idle
    /\ failed[k] < MaxFailures
    /\ catalog[SkuOf[b]] = NoProduct
    /\ handler' = [handler EXCEPT ![h] =
            [at |-> "claiming", key |-> k, body |-> b, n |-> 0, id |-> NoProduct]]
    /\ UNCHANGED <<ledger, catalog, wire, made, historyVars>>

(***************************************************************************)
(* registrationLedger.claim                                                *)
(***************************************************************************)
ClaimableWhilePending(row, b) ==        \* mutant: PENDING is not fail-closed
    row = NoRow \/ (row.body = b /\ row.status \in {"FAILED", "PENDING"})
ClaimableWhenCompleted(row, b) ==       \* mutant: a finished key is not replayed
    row = NoRow \/ (row.body = b /\ row.status \in {"FAILED", "COMPLETED"})
\* May the handler take the key?  A new key, or one whose last verdict was FAILED.
Claimable(row, b) == row = NoRow \/ (row.body = b /\ row.status = "FAILED")

ClaimGranted(h) ==
    /\ handler[h].at = "claiming"
    /\ Claimable(MyRow(h), handler[h].body)
    /\ ledger' = [ledger EXCEPT ![handler[h].key] =
            [status |-> "PENDING", body |-> handler[h].body, id |-> NoProduct]]
    /\ handler' = [handler EXCEPT ![h].at = "verifying"]
    /\ UNCHANGED <<catalog, wire, made, historyVars>>

\* "cached" (200) when COMPLETED, "conflict" (409) when PENDING or another body.
ClaimRefused(h) ==
    /\ handler[h].at = "claiming"
    /\ ~Claimable(MyRow(h), handler[h].body)
    /\ GoIdle(h)
    /\ UNCHANGED <<ledger, catalog, wire, made, historyVars>>

\* persistRows throws: nothing is published and the request ends with a 500.
ClaimWriteFails(h) ==
    /\ Faults
    /\ handler[h].at = "claiming"
    /\ Claimable(MyRow(h), handler[h].body)
    /\ GoIdle(h)
    /\ UNCHANGED <<ledger, catalog, wire, made, historyVars>>

(***************************************************************************)
(* marketConnections.verify and registerProduct                            *)
(***************************************************************************)
\* Verification fails, or the market does not support registration: a FAILED
\* verdict without any POST.  Naver's registerProduct, which refuses without a
\* POST, is this step too.
VerifyFails(h) ==
    /\ handler[h].at = "verifying"
    /\ handler' = [handler EXCEPT ![h].at = "finishing"]
    /\ UNCHANGED <<ledger, catalog, wire, made, historyVars>>

\* The connection is live: requestJson sends the POST, once.
VerifyOk(h) ==
    LET k == handler[h].key IN
    /\ handler[h].at = "verifying"
    /\ sent' = [sent EXCEPT ![k] = @ + 1]
    /\ handler' = [handler EXCEPT ![h].at = "posting", ![h].n = sent'[k]]
    /\ wire' = wire \union {[key |-> k, body |-> handler[h].body, n |-> sent'[k]]}
    /\ UNCHANGED <<ledger, catalog, made, failed, edited>>

\* The marketplace creates the product, whether or not anybody still waits.
RemoteCreates(w, p) ==
    /\ made[p] = NoPost
    /\ made' = [made EXCEPT ![p] = w]
    /\ wire' = wire \ {w}
    /\ UNCHANGED <<handler, ledger, catalog, historyVars>>

RemoteRejects(w) ==
    /\ wire' = wire \ {w}
    /\ UNCHANGED <<handler, ledger, catalog, made, historyVars>>

\* A 2xx response with a product number reaches the handler.
PostAnswered(h, p) ==
    /\ handler[h].at = "posting"
    /\ made[p] = MyPost(h)
    /\ handler' = [handler EXCEPT ![h].at = "mapping", ![h].id = p]
    /\ UNCHANGED <<ledger, catalog, wire, made, historyVars>>

PostFailsUncaught(h) ==                 \* mutant: the error escapes the handler
    /\ handler[h].at = "posting"
    /\ GoIdle(h)
    /\ UNCHANGED <<ledger, catalog, wire, made, historyVars>>
\* Every other ending: an error status, an unreadable response or the 20 s
\* timeout.  registerProduct turns them all into ok: false, and the POST may
\* still be on the wire or have created a product.
PostFails(h) ==
    /\ handler[h].at = "posting"
    /\ handler' = [handler EXCEPT ![h].at = "finishing"]
    /\ UNCHANGED <<ledger, catalog, wire, made, historyVars>>

(***************************************************************************)
(* catalog.setMarketplaceMapping, then registrationLedger.finish           *)
(***************************************************************************)
MapSkipped(h) ==                        \* mutant: the ledger is finished unmapped
    /\ handler[h].at = "mapping"
    /\ handler' = [handler EXCEPT ![h].at = "finishing"]
    /\ UNCHANGED <<ledger, catalog, wire, made, historyVars>>
\* A SKU deleted meanwhile has no entry to map: null, which the handler ignores.
MapProduct(h) ==
    /\ handler[h].at = "mapping"
    /\ catalog' = IF catalog[MySku(h)] = NoSku THEN catalog
                  ELSE [catalog EXCEPT ![MySku(h)] = handler[h].id]
    /\ handler' = [handler EXCEPT ![h].at = "finishing"]
    /\ UNCHANGED <<ledger, wire, made, historyVars>>

MapWriteFails(h) ==
    /\ Faults
    /\ handler[h].at = "mapping"
    /\ catalog[MySku(h)] # NoSku
    /\ GoIdle(h)
    /\ UNCHANGED <<ledger, catalog, wire, made, historyVars>>

VerdictAlwaysDone(h) == "COMPLETED"     \* mutant: result.ok is not looked at
\* The handler reached finish with a product number, or without one.
Verdict(h) == IF handler[h].id = NoProduct THEN "FAILED" ELSE "COMPLETED"

Finish(h) ==
    LET k == handler[h].key IN
    /\ handler[h].at = "finishing"
    /\ ledger' = [ledger EXCEPT ![k].status = Verdict(h), ![k].id = handler[h].id]
    /\ failed' = IF Verdict(h) = "FAILED" THEN [failed EXCEPT ![k] = @ + 1] ELSE failed
    /\ GoIdle(h)
    /\ UNCHANGED <<catalog, wire, made, sent, edited>>
FinishWriteFails(h) ==
    /\ Faults
    /\ handler[h].at = "finishing"
    /\ GoIdle(h)
    /\ UNCHANGED <<ledger, catalog, wire, made, historyVars>>

(***************************************************************************)
(* The rest of the system                                                  *)
(***************************************************************************)
\* POST /api/catalog replaces the whole entry, mapping included, by what the
\* client sent: no mapping, or the number of a product that exists.
UserUpserts(s, p) ==
    /\ p \in Created \union {NoProduct}
    /\ catalog' = [catalog EXCEPT ![s] = p]
    /\ edited' = edited \union {s}
    /\ UNCHANGED <<handler, ledger, wire, made, sent, failed>>

UserRemoves(s) ==
    /\ catalog[s] # NoSku
    /\ catalog' = [catalog EXCEPT ![s] = NoSku]
    /\ edited' = edited \union {s}
    /\ UNCHANGED <<handler, ledger, wire, made, sent, failed>>

RecoveredAsFailed(row) ==               \* mutant: an unmapped PENDING row is reopened
    IF row.status # "PENDING" THEN row
    ELSE IF catalog[SkuOf[row.body]] \in Products
         THEN [row EXCEPT !.status = "COMPLETED", !.id = catalog[SkuOf[row.body]]]
         ELSE [row EXCEPT !.status = "FAILED"]
\* reconcileMapped: a PENDING row whose SKU has a mapping is COMPLETED with it.
Recovered(row) ==
    IF row.status = "PENDING" /\ catalog[SkuOf[row.body]] \in Products
    THEN [row EXCEPT !.status = "COMPLETED", !.id = catalog[SkuOf[row.body]]]
    ELSE row

\* The process dies and starts again: handlers are gone, POSTs on the wire are not.
Restart ==
    /\ Faults
    /\ handler' = [h \in Handlers |-> Idle]
    /\ ledger' = [k \in Keys |-> Recovered(ledger[k])]
    /\ UNCHANGED <<catalog, wire, made, historyVars>>

Claim(h) == ClaimGranted(h) \/ ClaimRefused(h)
Verify(h) == VerifyOk(h) \/ VerifyFails(h)
Register(h) == PostFails(h) \/ \E p \in Products : PostAnswered(h, p)

\* What the event loop does for a request once it has been accepted.
Step(h) == Claim(h) \/ Verify(h) \/ Register(h) \/ MapProduct(h) \/ Finish(h)
WriteFails(h) == ClaimWriteFails(h) \/ MapWriteFails(h) \/ FinishWriteFails(h)
Remote == \E w \in wire : RemoteRejects(w) \/ \E p \in Products : RemoteCreates(w, p)
User == \E s \in Skus : UserRemoves(s) \/ \E p \in Products \union {NoProduct} : UserUpserts(s, p)

Next ==
    \/ \E h \in Handlers, k \in Keys, b \in Bodies : Request(h, k, b)
    \/ \E h \in Handlers : Step(h) \/ WriteFails(h)
    \/ Remote
    \/ User
    \/ Restart

Spec == Init /\ [][Next]_vars

(***************************************************************************)
(* The event loop runs every continuation that is ready, every await ends  *)
(* (file operations complete, fetch is aborted after 20 s): each accepted  *)
(* request makes progress.  Nothing is assumed of users, the marketplace   *)
(* or crashes.                                                             *)
(***************************************************************************)
FairSpec == Spec /\ \A h \in Handlers : WF_vars(Step(h))
(***************************************************************************)
(* Safety                                                                  *)
(***************************************************************************)
\* The handler has claimed its key and has not given the verdict yet.
Holds(h) == handler[h].at \in {"verifying", "posting", "mapping", "finishing"}

\* Of all requests in progress that carry the same key, at most one is past the
\* claim, and its row still says PENDING for the body it submitted: duplicates
\* of a request in progress never reach the marketplace (claim, lines 80-124).
OneHolderPerKey ==
    /\ \A h \in Handlers : Holds(h) =>
            MyRow(h).status = "PENDING" /\ MyRow(h).body = handler[h].body
    /\ \A g, h \in Handlers : Holds(g) /\ Holds(h) /\ handler[g].key = handler[h].key => g = h

\* A key is POSTed again only after a FAILED verdict on its previous POST.  In
\* particular a POST whose outcome was lost to a crash or to a failed write
\* (a row left PENDING) is never repeated, not even after restarts.
RetryOnlyAfterVerdict == \A k \in Keys : sent[k] <= failed[k] + 1

\* A row is COMPLETED only if its SKU is mapped to a product, unless a user
\* overwrote or deleted the catalog entry: the mapping is durable before the
\* verdict, whatever crashes in between.
CompletedIsMapped ==
    \A k \in Keys : ledger[k].status = "COMPLETED" =>
        LET s == SkuOf[ledger[k].body] IN s \in edited \/ catalog[s] \in Products

\* The product number a replay of a COMPLETED key answers with is a product that
\* the marketplace created for the same SKU, even when the verdict was recovered
\* at startup (unless a user typed a mapping for the SKU).
CompletedIsReal ==
    \A k \in Keys : ledger[k].status = "COMPLETED" =>
        LET s == SkuOf[ledger[k].body]
            p == made[ledger[k].id]
        IN  s \in edited \/ (p # NoPost /\ SkuOf[p.body] = s)

\* Both: what a replay answers is a product that is there and in use.
CompletedIsBacked == CompletedIsMapped /\ CompletedIsReal

\* Once COMPLETED, a row never changes: every later request with the key gets
\* the same product number, across restarts.
CompletedIsFinal ==
    [][\A k \in Keys : ledger[k].status = "COMPLETED" => ledger'[k] = ledger[k]]_vars

(***************************************************************************)
(* Liveness, without crashes and write failures                            *)
(***************************************************************************)
\* Every claim is followed by a verdict: whatever goes wrong between claim and
\* finish is caught and recorded, so a client may retry with the same key.
PendingResolves ==
    \A k \in Keys : ledger[k].status = "PENDING" ~> ledger[k].status # "PENDING"

(***************************************************************************)
(* What the README promises and the code does not keep                     *)
(***************************************************************************)
\* README.md:34, "a duplicate registration of the same SKU on the same market is
\* blocked": the marketplace creates at most one product for a SKU.
OneProductPerSku ==
    \A p, q \in Created : SkuOf[made[p].body] = SkuOf[made[q].body] => p = q
=============================================================================
