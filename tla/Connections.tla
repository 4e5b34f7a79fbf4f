---------------------------- MODULE Connections ----------------------------
(***************************************************************************)
(* What a tenant has connected, and how much of it its plan allows: the    *)
(* requests of src/src/web/httpServer.ts that save or remove market        *)
(* credentials, link a Naver seller account and save or remove catalog     *)
(* products, on credentialStore.ts, marketLinkStore.ts and catalog.ts.     *)
(*                                                                         *)
(* A request looks at its tenant's plan and possessions and then awaits:   *)
(* the body of the request, and the turn of its mutation in the store.     *)
(* Each store implements a durable register (SnapshotStore), so a mutation *)
(* is one step here, and a restart only makes waiting requests fail.       *)
(***************************************************************************)
EXTENDS Naturals, FiniteSets

CONSTANTS
    Tenants,
    Admins,           \* those who may save API keys of Naver
    Markets, Naver,
    SellerAccounts,   \* accountUid of Naver sellers
    MasterSkus,
    Requests,         \* requests in progress at the same time
    FreeMarketLimit, FreeProductLimit,
    NoAccount

ASSUME ConnectionsAssumption ==
    /\ Admins \subseteq Tenants /\ Naver \in Markets
    /\ NoAccount \notin SellerAccounts
    /\ FreeMarketLimit \in Nat \ {0} /\ FreeProductLimit \in Nat \ {0}
    /\ IsFiniteSet(Requests)

VARIABLES
    credentials,  \* EncryptedCredentialStore: who has keys of which market
    links,        \* MarketplaceLinkStore: [Tenants -> the linked Naver account]
    products,     \* ProductCatalog: [Tenants -> their Master SKUs]
    pro,          \* tenants whose effectivePlan is not "free"
    waiting,      \* [Requests -> what they have been granted]
    wasPro        \* history: tenants that have been in pro

storeVars == <<credentials, links, products>>
tenantPlanVars == <<pro, wasPro>>
connectionVars == <<credentials, links, products, pro, waiting, wasPro>>

\* reading: the body of a product, with the plan the request began under.
Job == [op : {"link"}, tenant : Tenants]
    \union [op : {"credentials"}, tenant : Tenants, market : Markets]
    \union [op : {"reading"}, tenant : Tenants, free : BOOLEAN]
    \union [op : {"product"}, tenant : Tenants, sku : MasterSkus]
NotAsked == [op |-> "none"]

ConnectionsTypeOK ==
    /\ credentials \subseteq Tenants \X Markets
    /\ \A t \in Tenants \ Admins : <<t, Naver>> \notin credentials
    /\ links \in [Tenants -> SellerAccounts \union {NoAccount}]
    /\ products \in [Tenants -> SUBSET MasterSkus]
    /\ pro \subseteq wasPro /\ wasPro \subseteq Tenants
    /\ waiting \in [Requests -> Job \union {NotAsked}]

ConnectionsInit ==
    /\ credentials = {}
    /\ links = [t \in Tenants |-> NoAccount]
    /\ products = [t \in Tenants |-> {}]
    /\ pro = {} /\ wasPro = {}
    /\ waiting = [r \in Requests |-> NotAsked]

-----------------------------------------------------------------------------
IsFree(t) == t \notin pro
IsLinked(t) == links[t] # NoAccount
KeysOf(t) == {m \in Markets : <<t, m>> \in credentials}

\* Mutant: the delegated link is not counted.
ConnectedByKey(t) == KeysOf(t)

\* connectedMarketCount: a market counts once, however it is connected.
Connected(t) == KeysOf(t) \union (IF IsLinked(t) THEN {Naver} ELSE {})

MarketsLeft(t) == IsFree(t) => Cardinality(Connected(t)) < FreeMarketLimit

\* tenantForExternalAccountIdIn
Owners(account) == {t \in Tenants : links[t] = account}

Grant(r, job) ==
    /\ waiting[r] = NotAsked
    /\ waiting' = [waiting EXCEPT ![r] = job]
    /\ UNCHANGED <<storeVars, tenantPlanVars>>

Settled(r) ==
    /\ waiting' = [waiting EXCEPT ![r] = NotAsked]
    /\ UNCHANGED tenantPlanVars

(***************************************************************************)
(* POST and DELETE /api/markets/naver/solution-link                        *)
(***************************************************************************)
AskLink(r, t) ==
    /\ IsLinked(t) \/ MarketsLeft(t)
    /\ Grant(r, [op |-> "link", tenant |-> t])

\* The body has come with a token that verifyNaverSolutionSellerJwt accepts for
\* account; the mutation refuses an account of another tenant and a second
\* account of this one.
Link(r, account) ==
    /\ waiting[r].op = "link"
    /\ LET t == waiting[r].tenant
       IN  /\ Owners(account) \subseteq {t}
           /\ links[t] \in {account, NoAccount}
           /\ links' = [links EXCEPT ![t] = account]
    /\ Settled(r)
    /\ UNCHANGED <<credentials, products>>

Unlink(t) ==
    /\ links' = [links EXCEPT ![t] = NoAccount]
    /\ UNCHANGED <<credentials, products, tenantPlanVars, waiting>>

(***************************************************************************)
(* PUT and DELETE /api/markets/connections/:market                         *)
(***************************************************************************)
AskCredentials(r, t, m) ==
    /\ m = Naver => t \in Admins
    /\ m \in KeysOf(t) \/ MarketsLeft(t)
    /\ Grant(r, [op |-> "credentials", tenant |-> t, market |-> m])

SaveCredentials(r) ==
    /\ waiting[r].op = "credentials"
    /\ credentials' = credentials \union {<<waiting[r].tenant, waiting[r].market>>}
    /\ Settled(r)
    /\ UNCHANGED <<links, products>>

RemoveCredentials(t, m) ==
    /\ credentials' = credentials \ {<<t, m>>}
    /\ UNCHANGED <<links, products, tenantPlanVars, waiting>>

(***************************************************************************)
(* POST and DELETE /api/catalog.  Here the body comes between the plan and *)
(* the count.                                                              *)
(***************************************************************************)
AskProduct(r, t) == Grant(r, [op |-> "reading", tenant |-> t, free |-> IsFree(t)])

CheckProduct(r, s) ==
    /\ waiting[r].op = "reading"
    /\ LET t == waiting[r].tenant
       IN  /\ \/ ~waiting[r].free
              \/ s \in products[t]
              \/ Cardinality(products[t]) < FreeProductLimit
           /\ waiting' = [waiting EXCEPT ![r] = [op |-> "product", tenant |-> t, sku |-> s]]
    /\ UNCHANGED <<storeVars, tenantPlanVars>>

SaveProduct(r) ==
    /\ waiting[r].op = "product"
    /\ products' = [products EXCEPT ![waiting[r].tenant] = @ \union {waiting[r].sku}]
    /\ Settled(r)
    /\ UNCHANGED <<credentials, links>>

RemoveProduct(t, s) ==
    /\ products' = [products EXCEPT ![t] = @ \ {s}]
    /\ UNCHANGED <<credentials, links, tenantPlanVars, waiting>>

-----------------------------------------------------------------------------
\* The token, the body or the limit refuses the request, its write fails, or the
\* server restarts.
RequestFails(r) ==
    /\ waiting[r] # NotAsked
    /\ Settled(r)
    /\ UNCHANGED storeVars

\* A payment, or the end of the days it paid for (Billing)
PlanChanges(t) ==
    /\ pro' = IF t \in pro THEN pro \ {t} ELSE pro \union {t}
    /\ wasPro' = wasPro \union pro'
    /\ UNCHANGED <<storeVars, waiting>>

ConnectsMarkets ==
    \/ \E r \in Requests, t \in Tenants :
        AskLink(r, t) \/ \E m \in Markets : AskCredentials(r, t, m)
    \/ \E r \in Requests :
        SaveCredentials(r) \/ \E account \in SellerAccounts : Link(r, account)
    \/ \E t \in Tenants : Unlink(t) \/ \E m \in Markets : RemoveCredentials(t, m)

SavesProducts ==
    \/ \E r \in Requests, t \in Tenants : AskProduct(r, t)
    \/ \E r \in Requests : SaveProduct(r) \/ \E s \in MasterSkus : CheckProduct(r, s)
    \/ \E t \in Tenants, s \in MasterSkus : RemoveProduct(t, s)

ConnectionsNext ==
    \/ ConnectsMarkets \/ SavesProducts
    \/ \E r \in Requests : RequestFails(r)
    \/ \E t \in Tenants : PlanChanges(t)

ConnectionsSpec == ConnectionsInit /\ [][ConnectionsNext]_connectionVars

-----------------------------------------------------------------------------
(***************************************************************************)
(* Property                                                                *)
(***************************************************************************)
\* What the requests in progress will add.
Coming(t) ==
    {waiting[r].market : r \in {r \in Requests : waiting[r].op = "credentials" /\ waiting[r].tenant = t}}
    \union {Naver : r \in {r \in Requests : waiting[r].op = "link" /\ waiting[r].tenant = t}}
ComingProducts(t) ==
    {waiting[r].sku : r \in {r \in Requests : waiting[r].op = "product" /\ waiting[r].tenant = t}}

\* No two tenants have linked one seller account, in whatever order they link
\* and unlink.  And a tenant who never paid has no more markets and products
\* than the FREE plan allows, but for requests checked side by side: each may
\* find the last place free, so their number bounds the excess ("FREE ...
\* up to", httpServer.ts:222, 256 and 305, is exceeded by as many).
ConnectionsHold ==
    /\ \A account \in SellerAccounts : Cardinality(Owners(account)) <= 1
    /\ \A t \in Tenants \ wasPro :
        LET excess == Cardinality(Requests) - 1
        IN  /\ Cardinality(Connected(t) \union Coming(t)) <= FreeMarketLimit + excess
            /\ Cardinality(products[t] \union ComingProducts(t)) <= FreeProductLimit + excess
=============================================================================
