----------------------------- MODULE DeskProofs -----------------------------
(***************************************************************************)
(* Safety of the seller's desk, proved for any number of tenants, markets, *)
(* products, plans and pages and any questions: first of each of its parts *)
(* by an inductive invariant of its own, the markets and products of a     *)
(* tenant (Connections), the form that approves an upload (UploadForm),    *)
(* what a page shows (Workspace), the shipments that are sent in batches   *)
(* (Shipments) and the advice of the planners (Planners), and then of the  *)
(* desk, whose parts have no variable in common.                           *)
(***************************************************************************)
EXTENDS Desk, TLAPS, FiniteSetTheorems, SequenceTheorems, WellFoundedInduction

-----------------------------------------------------------------------------
(***************************************************************************)
(* Connections: the inductive invariant                                    *)
(***************************************************************************)
\* What a request was granted it may do; a tenant who never paid is read the
\* FREE plan.
GrantedByRight ==
    \A r \in Requests :
        /\ waiting[r].op = "credentials" /\ waiting[r].market = Naver => waiting[r].tenant \in Admins
        /\ waiting[r].op = "reading" /\ waiting[r].tenant \notin wasPro => waiting[r].free

OneOwner ==
    \A t, u \in Tenants : links[t] = links[u] /\ links[t] # NoAccount => t = u

\* What a tenant has or will have
MarketsOf(t) == Connected(t) \union Coming(t)
ProductsOf(t) == products[t] \union ComingProducts(t)

AtMost(S, limit) == IsFiniteSet(S) /\ Cardinality(S) <= limit + (Cardinality(Requests) - 1)

WithinPlan ==
    \A t \in Tenants \ wasPro :
        AtMost(MarketsOf(t), FreeMarketLimit) /\ AtMost(ProductsOf(t), FreeProductLimit)

ConnectionsInv ==
    /\ ConnectionsTypeOK
    /\ GrantedByRight
    /\ OneOwner
    /\ WithinPlan

-----------------------------------------------------------------------------
LEMMA Excess == Cardinality(Requests) \in Nat /\ FreeMarketLimit \in Nat /\ FreeProductLimit \in Nat
BY ConnectionsAssumption, FS_CardinalityType

\* Less stays within the limit.
LEMMA AtMostLess ==
    ASSUME NEW S, NEW limit \in Nat, AtMost(S, limit), NEW T, T \subseteq S
    PROVE  AtMost(T, limit)
<1>1. IsFiniteSet(T) /\ Cardinality(T) <= Cardinality(S)
    BY FS_Subset DEF AtMost
<1>2. Cardinality(T) \in Int /\ Cardinality(S) \in Int
    BY <1>1, FS_CardinalityType DEF AtMost
<1>3. QED BY <1>1, <1>2, Excess DEF AtMost

\* With a place left, each request adds at most one.
LEMMA AtMostRoom ==
    ASSUME NEW S, IsFiniteSet(S), NEW limit \in Nat, Cardinality(S) < limit,
           NEW f, NEW R \in SUBSET Requests
    PROVE  AtMost(S \union {f[r] : r \in R}, limit)
<1> DEFINE T == {f[r] : r \in R}
           g == [r \in R |-> f[r]]
<1>1. IsFiniteSet(R) /\ Cardinality(R) <= Cardinality(Requests)
    BY ConnectionsAssumption, FS_Subset
<1>2. g \in Surjection(R, T)
    BY DEF Surjection
<1> HIDE DEF T, g
<1>3. IsFiniteSet(T) /\ Cardinality(T) <= Cardinality(R)
    BY <1>1, <1>2, FS_Surjection
<1>4. IsFiniteSet(S \union T) /\
      Cardinality(S \union T) = Cardinality(S) + Cardinality(T) - Cardinality(S \cap T)
    BY <1>3, FS_Union
<1>5. IsFiniteSet(S \cap T)
    BY FS_Subset
<1>6. /\ Cardinality(S) \in Nat /\ Cardinality(T) \in Nat /\ Cardinality(S \cap T) \in Nat
      /\ Cardinality(R) \in Nat
    BY <1>1, <1>3, <1>5, FS_CardinalityType
<1>7. QED BY <1>1, <1>3, <1>4, <1>6, Excess DEF AtMost, T

-----------------------------------------------------------------------------
LEMMA ConnectionsInitInv == ConnectionsInit => ConnectionsInv
<1> SUFFICES ASSUME ConnectionsInit PROVE ConnectionsInv
    OBVIOUS
<1>1. ConnectionsTypeOK /\ GrantedByRight /\ OneOwner
    BY ConnectionsAssumption
    DEF ConnectionsInit, ConnectionsTypeOK, GrantedByRight, OneOwner, NotAsked
<1>2. \A t \in Tenants : MarketsOf(t) = {} /\ ProductsOf(t) = {}
    BY DEF ConnectionsInit, MarketsOf, ProductsOf, Connected, KeysOf, IsLinked, Coming, ComingProducts, NotAsked
<1>3. AtMost({}, FreeMarketLimit) /\ AtMost({}, FreeProductLimit)
    BY FS_EmptySet, Excess, ConnectionsAssumption DEF AtMost
<1>4. QED BY <1>1, <1>2, <1>3 DEF WithinPlan, ConnectionsInv

LEMMA ConnectionsTypeStep ==
    ConnectionsTypeOK /\ GrantedByRight /\ [ConnectionsNext]_connectionVars
    => ConnectionsTypeOK' /\ GrantedByRight'
<1> SUFFICES ASSUME ConnectionsTypeOK, GrantedByRight, [ConnectionsNext]_connectionVars
             PROVE  ConnectionsTypeOK' /\ GrantedByRight'
    OBVIOUS
<1> USE DEF storeVars, tenantPlanVars
<1>1. ASSUME NEW r \in Requests, NEW job \in Job, Grant(r, job),
             job.op = "credentials" /\ job.market = Naver => job.tenant \in Admins,
             job.op = "reading" /\ job.tenant \notin wasPro => job.free
      PROVE  ConnectionsTypeOK' /\ GrantedByRight'
    BY <1>1 DEF Grant, ConnectionsTypeOK, GrantedByRight
<1>2. ASSUME NEW r \in Requests, NEW t \in Tenants, AskLink(r, t)
      PROVE  ConnectionsTypeOK' /\ GrantedByRight'
    <2>1. [op |-> "link", tenant |-> t] \in Job
        BY DEF Job
    <2>2. QED BY <1>1, <1>2, <2>1 DEF AskLink
<1>3. ASSUME NEW r \in Requests, NEW t \in Tenants, NEW m \in Markets, AskCredentials(r, t, m)
      PROVE  ConnectionsTypeOK' /\ GrantedByRight'
    <2>1. [op |-> "credentials", tenant |-> t, market |-> m] \in Job
        BY DEF Job
    <2>2. QED BY <1>1, <1>3, <2>1 DEF AskCredentials
<1>4. ASSUME NEW r \in Requests, NEW t \in Tenants, AskProduct(r, t)
      PROVE  ConnectionsTypeOK' /\ GrantedByRight'
    <2>1. [op |-> "reading", tenant |-> t, free |-> IsFree(t)] \in Job
        BY DEF Job, IsFree
    <2>2. t \notin wasPro => IsFree(t)
        BY DEF ConnectionsTypeOK, IsFree
    <2>3. QED BY <1>1, <1>4, <2>1, <2>2 DEF AskProduct
<1>5. ASSUME NEW r \in Requests, NEW s \in MasterSkus, CheckProduct(r, s)
      PROVE  ConnectionsTypeOK' /\ GrantedByRight'
    <2>1. waiting[r].tenant \in Tenants
        BY <1>5 DEF CheckProduct, ConnectionsTypeOK, Job, NotAsked
    <2>2. [op |-> "product", tenant |-> waiting[r].tenant, sku |-> s] \in Job
        BY <2>1 DEF Job
    <2>3. QED BY <1>5, <2>2 DEF CheckProduct, ConnectionsTypeOK, GrantedByRight
<1>6. ASSUME NEW r \in Requests, Settled(r)
      PROVE  /\ waiting' \in [Requests -> Job \union {NotAsked}]
             /\ pro' \subseteq wasPro' /\ wasPro' \subseteq Tenants /\ GrantedByRight'
    BY <1>6 DEF Settled, ConnectionsTypeOK, GrantedByRight, NotAsked
<1>7. ASSUME NEW r \in Requests, SaveCredentials(r)
      PROVE  ConnectionsTypeOK' /\ GrantedByRight'
    <2>1. waiting[r].tenant \in Tenants /\ waiting[r].market \in Markets
        BY <1>7 DEF SaveCredentials, ConnectionsTypeOK, Job, NotAsked
    <2>2. waiting[r].market = Naver => waiting[r].tenant \in Admins
        BY <1>7 DEF SaveCredentials, GrantedByRight
    <2>3. credentials' \subseteq Tenants \X Markets /\ \A t \in Tenants \ Admins : <<t, Naver>> \notin credentials'
        BY <1>7, <2>1, <2>2 DEF SaveCredentials, ConnectionsTypeOK
    <2>4. QED BY <1>6, <1>7, <2>3 DEF SaveCredentials, ConnectionsTypeOK
<1>8. ASSUME NEW r \in Requests, NEW account \in SellerAccounts, Link(r, account)
      PROVE  ConnectionsTypeOK' /\ GrantedByRight'
    BY <1>6, <1>8 DEF Link, ConnectionsTypeOK
<1>9. ASSUME NEW r \in Requests, SaveProduct(r)
      PROVE  ConnectionsTypeOK' /\ GrantedByRight'
    <2>1. waiting[r].sku \in MasterSkus
        BY <1>9 DEF SaveProduct, ConnectionsTypeOK, Job, NotAsked
    <2>2. products' \in [Tenants -> SUBSET MasterSkus]
        BY <1>9, <2>1 DEF SaveProduct, ConnectionsTypeOK
    <2>3. QED BY <1>6, <1>9, <2>2 DEF SaveProduct, ConnectionsTypeOK
<1>10. ASSUME NEW r \in Requests, RequestFails(r)
       PROVE  ConnectionsTypeOK' /\ GrantedByRight'
    BY <1>6, <1>10 DEF RequestFails, ConnectionsTypeOK
<1>11. ASSUME NEW t \in Tenants,
              \/ Unlink(t) \/ PlanChanges(t) \/ \E m \in Markets : RemoveCredentials(t, m)
              \/ \E s \in MasterSkus : RemoveProduct(t, s)
       PROVE  ConnectionsTypeOK' /\ GrantedByRight'
    BY <1>11 DEF Unlink, PlanChanges, RemoveCredentials, RemoveProduct, ConnectionsTypeOK, GrantedByRight
<1>12. CASE UNCHANGED connectionVars
    BY <1>12 DEF connectionVars, ConnectionsTypeOK, GrantedByRight
<1>13. QED
    BY <1>2, <1>3, <1>4, <1>5, <1>7, <1>8, <1>9, <1>10, <1>11, <1>12
    DEF ConnectionsNext, ConnectsMarkets, SavesProducts
LEMMA OwnerStep ==
    ConnectionsTypeOK /\ OneOwner /\ [ConnectionsNext]_connectionVars => OneOwner'
<1> SUFFICES ASSUME ConnectionsTypeOK, OneOwner, [ConnectionsNext]_connectionVars PROVE OneOwner'
    OBVIOUS
<1>1. ASSUME NEW r \in Requests, NEW account \in SellerAccounts, Link(r, account) PROVE OneOwner'
    <2>1. PICK t : t = waiting[r].tenant
        OBVIOUS
    <2>2. t \in Tenants
        BY <1>1, <2>1 DEF Link, ConnectionsTypeOK, Job, NotAsked
    <2>3. \A u \in Tenants : links[u] = account => u = t
        BY <1>1, <2>1 DEF Link, Owners
    <2>4. links' = [links EXCEPT ![t] = account]
        BY <1>1, <2>1 DEF Link
    <2>5. QED BY <2>2, <2>3, <2>4 DEF OneOwner, ConnectionsTypeOK
<1>2. ASSUME NEW t \in Tenants, Unlink(t) PROVE OneOwner'
    BY <1>2 DEF Unlink, OneOwner, ConnectionsTypeOK
<1>3. CASE UNCHANGED links
    BY <1>3 DEF OneOwner
<1>4. QED
    BY <1>1, <1>2, <1>3
    DEF ConnectionsNext, ConnectsMarkets, SavesProducts, AskLink, AskCredentials, SaveCredentials,
        RemoveCredentials, AskProduct, CheckProduct, SaveProduct, RemoveProduct, RequestFails,
        PlanChanges, Grant, Settled, storeVars, tenantPlanVars, connectionVars

\* A step of a tenant who never paid adds no market, or finds a place left.
LEMMA MarketsStep ==
    ASSUME ConnectionsTypeOK, [ConnectionsNext]_connectionVars, NEW t \in Tenants \ wasPro'
    PROVE  \/ MarketsOf(t)' \subseteq MarketsOf(t)
           \/ Cardinality(Connected(t)) < FreeMarketLimit /\ UNCHANGED <<credentials, links>>
<1> USE DEF storeVars, tenantPlanVars
<1> DEFINE Adds(r) ==
        IF waiting[r].op = "credentials" /\ waiting[r].tenant = t THEN {waiting[r].market}
        ELSE IF waiting[r].op = "link" /\ waiting[r].tenant = t THEN {Naver} ELSE {}
<1>1. Coming(t) = UNION {Adds(r) : r \in Requests}
    BY DEF Coming
<1> HIDE DEF Adds
<1>0. Coming(t)' = UNION {Adds(r)' : r \in Requests}
    BY DEF Coming, Adds
<1>2. ASSUME NEW r \in Requests, NEW job, Grant(r, job)
      PROVE  /\ UNCHANGED <<credentials, links>>
             /\ \A q \in Requests \ {r} : Adds(q)' = Adds(q)
             /\ waiting'[r] = job
    BY <1>2 DEF Grant, ConnectionsTypeOK, Adds
<1>3. ASSUME NEW r \in Requests, Settled(r)
      PROVE  (\A q \in Requests \ {r} : Adds(q)' = Adds(q)) /\ Adds(r)' = {}
    BY <1>3 DEF Settled, ConnectionsTypeOK, Adds, NotAsked
<1>4. MarketsOf(t) = Connected(t) \union UNION {Adds(r) : r \in Requests}
      /\ MarketsOf(t)' = Connected(t)' \union UNION {Adds(r)' : r \in Requests}
    BY <1>0, <1>1 DEF MarketsOf
<1>5. ASSUME NEW r \in Requests, \A q \in Requests \ {r} : Adds(q)' = Adds(q),
             Connected(t)' \subseteq MarketsOf(t), Adds(r)' \subseteq MarketsOf(t)
      PROVE  MarketsOf(t)' \subseteq MarketsOf(t)
    <2>1. \A q \in Requests : Adds(q)' \subseteq MarketsOf(t)
        BY <1>4, <1>5
    <2>2. QED BY <1>4, <1>5, <2>1
<1>6. Connected(t) \subseteq MarketsOf(t) /\ \A r \in Requests : Adds(r) \subseteq MarketsOf(t)
    BY <1>4
<1>7. UNCHANGED <<credentials, links>> => Connected(t)' = Connected(t)
    BY DEF Connected, KeysOf, IsLinked
<1>8. ASSUME NEW r \in Requests, NEW u \in Tenants, AskLink(r, u)
      PROVE  \/ MarketsOf(t)' \subseteq MarketsOf(t)
             \/ Cardinality(Connected(t)) < FreeMarketLimit /\ UNCHANGED <<credentials, links>>
    <2>1. /\ UNCHANGED <<credentials, links>>
          /\ \A q \in Requests \ {r} : Adds(q)' = Adds(q)
          /\ waiting'[r] = [op |-> "link", tenant |-> u]
        BY <1>2, <1>8 DEF AskLink
    <2>2. Adds(r)' = IF u = t THEN {Naver} ELSE {}
        BY <2>1 DEF Adds
    <2>3. CASE u = t /\ ~IsLinked(t)
        BY <1>8, <2>1, <2>3 DEF AskLink, Grant, MarketsLeft, IsFree, ConnectionsTypeOK
    <2>4. CASE u = t => IsLinked(t)
        <3>1. Adds(r)' \subseteq Connected(t)
            BY <2>2, <2>4 DEF Connected
        <3>2. QED BY <1>5, <1>6, <1>7, <2>1, <3>1
    <2>5. QED BY <2>3, <2>4
<1>9. ASSUME NEW r \in Requests, NEW u \in Tenants, NEW m \in Markets, AskCredentials(r, u, m)
      PROVE  \/ MarketsOf(t)' \subseteq MarketsOf(t)
             \/ Cardinality(Connected(t)) < FreeMarketLimit /\ UNCHANGED <<credentials, links>>
    <2>1. /\ UNCHANGED <<credentials, links>>
          /\ \A q \in Requests \ {r} : Adds(q)' = Adds(q)
          /\ waiting'[r] = [op |-> "credentials", tenant |-> u, market |-> m]
        BY <1>2, <1>9 DEF AskCredentials
    <2>2. Adds(r)' = IF u = t THEN {m} ELSE {}
        BY <2>1 DEF Adds
    <2>3. CASE u = t /\ m \notin KeysOf(t)
        BY <1>9, <2>1, <2>3 DEF AskCredentials, Grant, MarketsLeft, IsFree, ConnectionsTypeOK
    <2>4. CASE u = t => m \in KeysOf(t)
        <3>1. Adds(r)' \subseteq Connected(t)
            BY <2>2, <2>4 DEF Connected
        <3>2. QED BY <1>5, <1>6, <1>7, <2>1, <3>1
    <2>5. QED BY <2>3, <2>4
<1>10. ASSUME NEW r \in Requests, SaveCredentials(r)
       PROVE  MarketsOf(t)' \subseteq MarketsOf(t)
    <2>1. Connected(t)' \subseteq Connected(t) \union Adds(r)
        BY <1>10 DEF SaveCredentials, Connected, KeysOf, IsLinked, Adds
    <2>2. QED BY <1>3, <1>5, <1>6, <1>10, <2>1 DEF SaveCredentials
<1>11. ASSUME NEW r \in Requests, NEW account \in SellerAccounts, Link(r, account)
       PROVE  MarketsOf(t)' \subseteq MarketsOf(t)
    <2>1. Connected(t)' \subseteq Connected(t) \union Adds(r)
        BY <1>11 DEF Link, Connected, KeysOf, IsLinked, Adds, ConnectionsTypeOK
    <2>2. QED BY <1>3, <1>5, <1>6, <1>11, <2>1 DEF Link
<1>12. ASSUME NEW r \in Requests, RequestFails(r) \/ SaveProduct(r)
       PROVE  MarketsOf(t)' \subseteq MarketsOf(t)
    BY <1>3, <1>5, <1>6, <1>7, <1>12 DEF RequestFails, SaveProduct
<1>13. ASSUME NEW r \in Requests, \E u \in Tenants : AskProduct(r, u)
       PROVE  MarketsOf(t)' \subseteq MarketsOf(t)
    <2>1. PICK u \in Tenants : AskProduct(r, u)
        BY <1>13
    <2>2. Adds(r)' = {}
        BY <1>2, <2>1 DEF AskProduct, Adds
    <2>3. QED BY <1>2, <1>5, <1>6, <1>7, <2>1, <2>2 DEF AskProduct
<1>14. ASSUME NEW r \in Requests, NEW s \in MasterSkus, CheckProduct(r, s)
       PROVE  MarketsOf(t)' \subseteq MarketsOf(t)
    <2>1. (\A q \in Requests \ {r} : Adds(q)' = Adds(q)) /\ Adds(r)' = {}
        BY <1>14 DEF CheckProduct, ConnectionsTypeOK, Adds
    <2>2. QED BY <1>5, <1>6, <1>7, <1>14, <2>1 DEF CheckProduct
<1>15. ASSUME waiting' = waiting, Connected(t)' \subseteq Connected(t)
       PROVE  MarketsOf(t)' \subseteq MarketsOf(t)
    BY <1>4, <1>15 DEF Adds
<1>16. ASSUME NEW u \in Tenants,
              \/ Unlink(u) \/ PlanChanges(u) \/ \E m \in Markets : RemoveCredentials(u, m)
              \/ \E s \in MasterSkus : RemoveProduct(u, s)
       PROVE  MarketsOf(t)' \subseteq MarketsOf(t)
    <2>1. waiting' = waiting /\ Connected(t)' \subseteq Connected(t)
        BY <1>16
        DEF Unlink, PlanChanges, RemoveCredentials, RemoveProduct, Connected, KeysOf, IsLinked, ConnectionsTypeOK
    <2>2. QED BY <1>15, <2>1
<1>17. CASE UNCHANGED connectionVars
    BY <1>7, <1>15, <1>17 DEF connectionVars
<1>18. QED
    BY <1>8, <1>9, <1>10, <1>11, <1>12, <1>13, <1>14, <1>16, <1>17
    DEF ConnectionsNext, ConnectsMarkets, SavesProducts
LEMMA ProductsStep ==
    ASSUME ConnectionsTypeOK, GrantedByRight, [ConnectionsNext]_connectionVars, NEW t \in Tenants \ wasPro'
    PROVE  \/ ProductsOf(t)' \subseteq ProductsOf(t)
           \/ Cardinality(products[t]) < FreeProductLimit /\ UNCHANGED products
<1> USE DEF storeVars, tenantPlanVars
<1> DEFINE Adds(r) == IF waiting[r].op = "product" /\ waiting[r].tenant = t THEN {waiting[r].sku} ELSE {}
<1>1. ProductsOf(t) = products[t] \union UNION {Adds(r) : r \in Requests}
      /\ ProductsOf(t)' = products'[t] \union UNION {Adds(r)' : r \in Requests}
    BY DEF ProductsOf, ComingProducts
<1> HIDE DEF Adds
<1>2. products[t] \subseteq ProductsOf(t) /\ \A r \in Requests : Adds(r) \subseteq ProductsOf(t)
    BY <1>1
<1>3. ASSUME NEW r \in Requests, \A q \in Requests \ {r} : Adds(q)' = Adds(q),
             products'[t] \subseteq ProductsOf(t), Adds(r)' \subseteq ProductsOf(t)
      PROVE  ProductsOf(t)' \subseteq ProductsOf(t)
    <2>1. \A q \in Requests : Adds(q)' \subseteq ProductsOf(t)
        BY <1>2, <1>3
    <2>2. QED BY <1>1, <1>3, <2>1
<1>4. ASSUME NEW r \in Requests, NEW job, Grant(r, job), job.op # "product"
      PROVE  ProductsOf(t)' \subseteq ProductsOf(t)
    <2>1. products' = products /\ (\A q \in Requests \ {r} : Adds(q)' = Adds(q)) /\ Adds(r)' = {}
        BY <1>4 DEF Grant, ConnectionsTypeOK, Adds
    <2>2. QED BY <1>2, <1>3, <2>1
<1>5. ASSUME NEW r \in Requests, Settled(r)
      PROVE  (\A q \in Requests \ {r} : Adds(q)' = Adds(q)) /\ Adds(r)' = {}
    BY <1>5 DEF Settled, ConnectionsTypeOK, Adds, NotAsked
<1>6. ASSUME NEW r \in Requests, NEW u \in Tenants,
             AskLink(r, u) \/ AskProduct(r, u) \/ \E m \in Markets : AskCredentials(r, u, m)
      PROVE  ProductsOf(t)' \subseteq ProductsOf(t)
    BY <1>4, <1>6 DEF AskLink, AskProduct, AskCredentials
<1>7. ASSUME NEW r \in Requests, NEW s \in MasterSkus, CheckProduct(r, s)
      PROVE  \/ ProductsOf(t)' \subseteq ProductsOf(t)
             \/ Cardinality(products[t]) < FreeProductLimit /\ UNCHANGED products
    <2>1. products' = products /\ t \notin wasPro
        BY <1>7 DEF CheckProduct
    <2>2. CASE waiting[r].tenant = t /\ s \notin products[t]
        <3>1. waiting[r].free
            BY <1>7, <2>1, <2>2 DEF CheckProduct, GrantedByRight
        <3>2. QED BY <1>7, <2>1, <2>2, <3>1 DEF CheckProduct
    <2>3. CASE waiting[r].tenant = t => s \in products[t]
        <3>1. (\A q \in Requests \ {r} : Adds(q)' = Adds(q)) /\ Adds(r)' \subseteq products[t]
            BY <1>7, <2>3 DEF CheckProduct, ConnectionsTypeOK, Adds
        <3>2. QED BY <1>2, <1>3, <2>1, <3>1
    <2>4. QED BY <2>2, <2>3
<1>8. ASSUME NEW r \in Requests, SaveProduct(r)
      PROVE  ProductsOf(t)' \subseteq ProductsOf(t)
    <2>1. products'[t] \subseteq products[t] \union Adds(r)
        BY <1>8 DEF SaveProduct, ConnectionsTypeOK, Adds
    <2>2. QED BY <1>2, <1>3, <1>5, <1>8, <2>1 DEF SaveProduct
<1>9. ASSUME NEW r \in Requests,
             RequestFails(r) \/ SaveCredentials(r) \/ \E account \in SellerAccounts : Link(r, account)
      PROVE  ProductsOf(t)' \subseteq ProductsOf(t)
    <2>1. products' = products
        BY <1>9 DEF RequestFails, SaveCredentials, Link
    <2>2. QED BY <1>2, <1>3, <1>5, <1>9, <2>1 DEF RequestFails, SaveCredentials, Link
<1>10. ASSUME waiting' = waiting, products'[t] \subseteq products[t]
       PROVE  ProductsOf(t)' \subseteq ProductsOf(t)
    BY <1>1, <1>10 DEF Adds
<1>11. ASSUME NEW u \in Tenants,
              \/ Unlink(u) \/ PlanChanges(u) \/ \E m \in Markets : RemoveCredentials(u, m)
              \/ \E s \in MasterSkus : RemoveProduct(u, s)
       PROVE  ProductsOf(t)' \subseteq ProductsOf(t)
    <2>1. waiting' = waiting /\ products'[t] \subseteq products[t]
        BY <1>11 DEF Unlink, PlanChanges, RemoveCredentials, RemoveProduct, ConnectionsTypeOK
    <2>2. QED BY <1>10, <2>1
<1>12. CASE UNCHANGED connectionVars
    BY <1>10, <1>12 DEF connectionVars
<1>13. QED
    BY <1>6, <1>7, <1>8, <1>9, <1>11, <1>12 DEF ConnectionsNext, ConnectsMarkets, SavesProducts

LEMMA WithinPlanStep ==
    ConnectionsInv /\ [ConnectionsNext]_connectionVars => WithinPlan'
<1> SUFFICES ASSUME ConnectionsInv, [ConnectionsNext]_connectionVars, NEW t \in Tenants \ wasPro'
             PROVE  AtMost(MarketsOf(t)', FreeMarketLimit) /\ AtMost(ProductsOf(t)', FreeProductLimit)
    BY DEF WithinPlan, AtMost
<1>0. ConnectionsTypeOK /\ GrantedByRight /\ WithinPlan
    BY DEF ConnectionsInv
<1>1. t \notin wasPro
    BY <1>0 DEF ConnectionsNext, ConnectsMarkets, SavesProducts, AskLink, AskCredentials,
        SaveCredentials, Link, Unlink, RemoveCredentials, AskProduct, CheckProduct, SaveProduct,
        RemoveProduct, RequestFails, PlanChanges, Grant, Settled, storeVars, tenantPlanVars, connectionVars
<1>2. AtMost(MarketsOf(t), FreeMarketLimit) /\ AtMost(ProductsOf(t), FreeProductLimit)
    BY <1>0, <1>1 DEF WithinPlan
<1>3. AtMost(MarketsOf(t)', FreeMarketLimit)
    <2>1. CASE MarketsOf(t)' \subseteq MarketsOf(t)
        BY <1>2, <2>1, AtMostLess, Excess
    <2>2. CASE Cardinality(Connected(t)) < FreeMarketLimit /\ UNCHANGED <<credentials, links>>
        <3> DEFINE f == [r \in Requests |-> IF waiting'[r].op = "credentials" THEN waiting'[r].market ELSE Naver]
                   R == {r \in Requests : waiting'[r].op \in {"credentials", "link"} /\ waiting'[r].tenant = t}
        <3>1. MarketsOf(t)' = Connected(t) \union {f[r] : r \in R}
            <4>1. Connected(t)' = Connected(t)
                BY <2>2 DEF Connected, KeysOf, IsLinked
            <4>2. Coming(t)' = {f[r] : r \in R}
                BY DEF Coming
            <4>3. QED BY <4>1, <4>2 DEF MarketsOf
        <3>2. IsFiniteSet(Connected(t))
            BY <1>2, FS_Subset DEF MarketsOf, AtMost
        <3>3. R \in SUBSET Requests
            OBVIOUS
        <3> HIDE DEF f, R
        <3>4. QED BY <2>2, <3>1, <3>2, <3>3, AtMostRoom, Excess
    <2>3. QED BY <1>0, <2>1, <2>2, MarketsStep
<1>4. AtMost(ProductsOf(t)', FreeProductLimit)
    <2>1. CASE ProductsOf(t)' \subseteq ProductsOf(t)
        BY <1>2, <2>1, AtMostLess, Excess
    <2>2. CASE Cardinality(products[t]) < FreeProductLimit /\ UNCHANGED products
        <3> DEFINE f == [r \in Requests |-> waiting'[r].sku]
                   R == {r \in Requests : waiting'[r].op = "product" /\ waiting'[r].tenant = t}
        <3>1. ProductsOf(t)' = products[t] \union {f[r] : r \in R}
            BY <2>2 DEF ProductsOf, ComingProducts
        <3>2. IsFiniteSet(products[t])
            BY <1>2, FS_Subset DEF ProductsOf, AtMost
        <3>3. R \in SUBSET Requests
            OBVIOUS
        <3> HIDE DEF f, R
        <3>4. QED BY <2>2, <3>1, <3>2, <3>3, AtMostRoom, Excess
    <2>3. QED BY <1>0, <2>1, <2>2, ProductsStep
<1>5. QED BY <1>3, <1>4

THEOREM ConnectionsInductive == ConnectionsSpec => []ConnectionsInv
<1>1. ConnectionsInv /\ [ConnectionsNext]_connectionVars => ConnectionsInv'
    BY ConnectionsTypeStep, OwnerStep, WithinPlanStep DEF ConnectionsInv
<1>2. QED BY ConnectionsInitInv, <1>1, PTL DEF ConnectionsSpec

\* Every variable keeps its type, and only an admin has API keys of Naver.
THEOREM ConnectionsTypeCorrect == ConnectionsSpec => []ConnectionsTypeOK
<1>1. ConnectionsInv => ConnectionsTypeOK
    BY DEF ConnectionsInv
<1>2. QED BY <1>1, ConnectionsInductive, PTL

\* One seller account has one tenant, and a tenant who never paid exceeds the FREE
\* plan by no more than the requests checked side by side.
THEOREM PlansAreHeld == ConnectionsSpec => []ConnectionsHold
<1>1. ConnectionsInv => ConnectionsHold
    <2> SUFFICES ASSUME ConnectionsInv PROVE ConnectionsHold
        OBVIOUS
    <2>1. ASSUME NEW account \in SellerAccounts PROVE Cardinality(Owners(account)) <= 1
        <3>1. \A t, u \in Owners(account) : t = u
            BY ConnectionsAssumption DEF Owners, ConnectionsInv, OneOwner
        <3>2. Owners(account) = {} \/ \E t : Owners(account) = {t}
            BY <3>1
        <3>3. Cardinality(Owners(account)) = 0 \/ Cardinality(Owners(account)) = 1
            BY <3>2, FS_EmptySet, FS_Singleton, Zenon
        <3>4. QED BY <3>3
    <2>2. QED BY <2>1 DEF ConnectionsInv, WithinPlan, AtMost, MarketsOf, ProductsOf, ConnectionsHold
<1>2. QED BY <1>1, ConnectionsInductive, PTL
-----------------------------------------------------------------------------
(***************************************************************************)
(* UploadForm: the inductive invariant.  Whatever changes the page unticks *)
(* the box and takes a new key.                                            *)
(***************************************************************************)
TickIsOfPage == confirmed \in {Nothing, OnScreen}

\* A request has the page that its key was taken for.
SentByKey ==
    /\ sent \subseteq [key : 1..key, page : Page, confirmed : Page]
    /\ \A r \in sent : r.key = key => r.page = OnScreen

FlightIsOfPast == flight # Idle => flight.key <= key

FormInv ==
    /\ FormTypeOK
    /\ TickIsOfPage
    /\ SentByKey
    /\ FlightIsOfPast
    /\ SentAsConfirmed

\* What an edit does to the calls and to the records of the page
EditedForm ==
    /\ tab' \in Tabs /\ sku' \in Skus /\ draft' \in Drafts /\ text' \in Content
    /\ verified' \in {verified, Nothing}
    /\ InvalidatePayload
    /\ flight' = flight \/ (flight # Idle /\ flight' = [flight EXCEPT !.left = TRUE])
    /\ UNCHANGED <<mapped, sent>>

LEMMA EditsEdit == FormTypeOK /\ Edits => EditedForm
<1> SUFFICES ASSUME FormTypeOK, Edits PROVE EditedForm
    OBVIOUS
<1>1. \A t \in Tabs : StarterPayload(t) \in Content
    BY DEF StarterPayload, Content
<1>2. \A d \in Drafts : [text EXCEPT !.draft = d] \in Content
    BY DEF FormTypeOK, Content
<1>3. [text EXCEPT !.draft = draft, !.sku = sku] \in Content
    BY DEF FormTypeOK, Content
<1>4. CASE \E d \in Drafts : ChangeFields(d)
    BY <1>4 DEF ChangeFields, EditedForm, FormTypeOK
<1>5. CASE \E d \in Drafts \union {Nothing} : EditText(d)
    <2>1. text' \in Content
        BY <1>1, <1>2, <1>5 DEF EditText, FormTypeOK
    <2>2. QED BY <1>5, <2>1 DEF EditText, EditedForm, FormTypeOK
<1>6. CASE \E t \in Tabs : SelectMarket(t)
    BY <1>1, <1>6 DEF SelectMarket, EditedForm, FormTypeOK
<1>7. CASE \E s \in Skus, d \in Drafts : SelectProduct(s, d)
    BY <1>7 DEF SelectProduct, EditedForm, FormTypeOK
<1>8. CASE ApplyGuidedForm
    BY <1>3, <1>8 DEF ApplyGuidedForm, EditedForm, FormTypeOK
<1>9. CASE \E d \in Drafts : LeaveAndReturn(d)
    BY <1>1, <1>9, FormAssumption DEF LeaveAndReturn, EditedForm
<1>10. QED BY <1>4, <1>5, <1>6, <1>7, <1>8, <1>9 DEF Edits

LEMMA FormInitInv == FormInit => FormInv
<1> SUFFICES ASSUME FormInit PROVE FormInv
    OBVIOUS
<1>1. StarterPayload(FirstTab) \in Content
    BY FormAssumption DEF StarterPayload, Content
<1>2. QED BY <1>1, FormAssumption
    DEF FormInit, FormInv, FormTypeOK, TickIsOfPage, SentByKey, FlightIsOfPast, SentAsConfirmed

LEMMA FormStep == FormInv /\ [FormNext]_formVars => FormInv'
<1> SUFFICES ASSUME FormInv, [FormNext]_formVars PROVE FormInv'
    OBVIOUS
<1>0. FormTypeOK /\ TickIsOfPage /\ SentByKey /\ FlightIsOfPast /\ SentAsConfirmed
    BY DEF FormInv
<1>1. key \in Nat /\ key \in 1..MaxKeys /\ MaxKeys \in Nat /\ OnScreen \in Page
    BY <1>0, FormAssumption DEF FormTypeOK, OnScreen, Page
<1>2. CASE Edits
    <2>1. EditedForm
        BY <1>0, <1>2, EditsEdit
    <2>2. confirmed' = Nothing /\ validated' = Nothing /\ result' = Nothing
          /\ key' = key + 1 /\ key' \in 1..MaxKeys /\ sent' = sent /\ mapped' = mapped
        BY <1>1, <2>1 DEF EditedForm, InvalidatePayload, ForgetAnswers, ResetRequestIdentity
    <2>3. flight' \in Call \union {Idle} /\ (flight' # Idle => flight # Idle /\ flight'.key = flight.key)
        <3>1. CASE flight' = flight
            BY <1>0, <3>1 DEF FormTypeOK
        <3>2. CASE flight # Idle /\ flight' = [flight EXCEPT !.left = TRUE]
            BY <1>0, <3>2 DEF FormTypeOK, Call
        <3>3. QED BY <2>1, <3>1, <3>2 DEF EditedForm
    <2>4. FormTypeOK'
        BY <1>0, <2>1, <2>2, <2>3 DEF FormTypeOK, EditedForm
    <2>5. TickIsOfPage' /\ SentAsConfirmed'
        BY <1>0, <2>2 DEF TickIsOfPage, SentAsConfirmed
    <2>6. SentByKey'
        <3>1. \A r \in sent : r.key \in 1..key /\ r.key # key'
            BY <1>0, <1>1, <2>2 DEF SentByKey
        <3>2. [key : 1..key, page : Page, confirmed : Page] \subseteq [key : 1..key', page : Page, confirmed : Page]
            BY <1>1, <2>2
        <3>3. QED BY <1>0, <2>2, <3>1, <3>2 DEF SentByKey
    <2>7. FlightIsOfPast'
        BY <1>0, <1>1, <2>2, <2>3 DEF FlightIsOfPast, Call, FormTypeOK
    <2>8. QED BY <2>4, <2>5, <2>6, <2>7 DEF FormInv
<1>3. ASSUME UNCHANGED <<tab, sku, draft, text, key>>, confirmed' \in {confirmed, Nothing, OnScreen}
      PROVE  TickIsOfPage' /\ (sent' = sent => SentByKey' /\ SentAsConfirmed') /\ OnScreen' = OnScreen
    BY <1>0, <1>3 DEF TickIsOfPage, SentByKey, SentAsConfirmed, OnScreen
<1>4. ASSUME NEW op \in {"verify", "validate", "register"}, Starts(op)
      PROVE  flight' \in Call \union {Idle} /\ flight'.key = key
    BY <1>1, <1>4 DEF Starts, Call
<1>5. CASE Verify \/ Validate
    BY <1>0, <1>1, <1>3, <1>4, <1>5 DEF Verify, Validate, FormInv, FormTypeOK, FlightIsOfPast
<1>6. CASE Tick
    <2>1. confirmed' \in {confirmed, Nothing, OnScreen} /\ confirmed' \in Page \union {Nothing}
        BY <1>1, <1>6 DEF Tick
    <2>2. QED BY <1>0, <1>3, <1>6, <2>1 DEF Tick, FormInv, FormTypeOK, FlightIsOfPast
<1>7. CASE Register
    <2>1. /\ confirmed = OnScreen
          /\ sent' = sent \union {[key |-> key, page |-> OnScreen, confirmed |-> OnScreen]}
          /\ UNCHANGED <<tab, sku, draft, text, key, confirmed>>
        BY <1>0, <1>7 DEF Register, TickIsOfPage
    <2>2. FormTypeOK' /\ FlightIsOfPast'
        BY <1>0, <1>1, <1>4, <1>7 DEF Register, FormTypeOK, FlightIsOfPast
    <2>3. TickIsOfPage' /\ OnScreen' = OnScreen
        BY <1>3, <2>1
    <2>4. SentByKey'
        BY <1>0, <1>1, <2>1, <2>3 DEF SentByKey
    <2>5. \A r \in sent : r.key = key => r = [key |-> key, page |-> OnScreen, confirmed |-> OnScreen]
        <3> SUFFICES ASSUME NEW r \in sent, r.key = key
                     PROVE  r = [key |-> key, page |-> OnScreen, confirmed |-> OnScreen]
            OBVIOUS
        <3>1. r \in [key : 1..key, page : Page, confirmed : Page] /\ r.page = OnScreen
            BY <1>0 DEF SentByKey
        <3>2. r.confirmed = OnScreen
            BY <1>0, <3>1 DEF SentAsConfirmed
        <3>3. QED BY <3>1, <3>2
    <2>6. SentAsConfirmed'
        BY <1>0, <2>1, <2>5 DEF SentAsConfirmed
    <2>7. QED BY <2>2, <2>3, <2>4, <2>6 DEF FormInv
<1>8. ASSUME NEW op, Answered(op)
      PROVE  /\ UNCHANGED <<tab, sku, draft, text, key, sent>> /\ flight' = Idle
             /\ flight.page \in Page /\ flight.page.tab \in Tabs /\ flight.page.sku \in Skus
             /\ flight.page.text \in Content /\ flight.key \in 1..key
    <2>1. flight \in Call /\ flight.key <= key
        BY <1>0, <1>8 DEF Answered, FormTypeOK, FlightIsOfPast
    <2>2. flight.page \in Page /\ flight.key \in 1..key
        BY <1>1, <2>1 DEF Call
    <2>3. QED BY <1>8, <2>2 DEF Answered, Page
<1>9. CASE Verified
    <2>1. PICK ok \in BOOLEAN : Shows(verified, IF ok THEN flight.page.tab ELSE Nothing)
        BY <1>9 DEF Verified
    <2>2. verified' \in Tabs \union {Nothing}
        BY <1>0, <1>8, <1>9, <2>1 DEF Verified, Shows, FormTypeOK
    <2>3. QED BY <1>0, <1>3, <1>8, <1>9, <2>2 DEF Verified, FormInv, FormTypeOK, FlightIsOfPast
<1>10. CASE Validated
    <2>1. validated' \in Content \union {Nothing}
        BY <1>0, <1>8, <1>10 DEF Validated, Shows, FormTypeOK
    <2>2. QED BY <1>0, <1>3, <1>8, <1>10, <2>1 DEF Validated, FormInv, FormTypeOK, FlightIsOfPast
<1>11. CASE Registered
    <2>1. result' \in 1..key \union {Nothing} /\ confirmed' \in {confirmed, Nothing}
        BY <1>0, <1>8, <1>11 DEF Registered, Shows, FormTypeOK
    <2>2. mapped' \subseteq Skus \X Tabs
        BY <1>0, <1>8, <1>11 DEF Registered, FormTypeOK
    <2>3. QED BY <1>0, <1>3, <1>8, <1>11, <2>1, <2>2 DEF Registered, FormInv, FormTypeOK, FlightIsOfPast
<1>12. CASE CallFails
    BY <1>0, <1>3, <1>8, <1>12 DEF CallFails, answerVars, FormInv, FormTypeOK, FlightIsOfPast
<1>13. CASE \E s \in Skus, t \in Tabs : CatalogRead(s, t)
    BY <1>0, <1>3, <1>13 DEF CatalogRead, answerVars, FormInv, FormTypeOK, FlightIsOfPast
<1>14. CASE UNCHANGED formVars
    BY <1>0, <1>3, <1>14 DEF formVars, FormInv, FormTypeOK, FlightIsOfPast
<1>15. QED
    BY <1>2, <1>5, <1>6, <1>7, <1>9, <1>10, <1>11, <1>12, <1>13, <1>14 DEF FormNext, Clicks, Answers

THEOREM FormInductive == FormSpec => []FormInv
BY FormInitInv, FormStep, PTL DEF FormSpec

\* The page keeps its types, with any number of tabs, products, drafts and keys.
THEOREM FormTypeCorrect == FormSpec => []FormTypeOK
<1>1. FormInv => FormTypeOK
    BY DEF FormInv
<1>2. QED BY <1>1, FormInductive, PTL

\* What is sent is what was ticked, and a key has one request.
THEOREM SentAsTicked == FormSpec => []SentAsConfirmed
<1>1. FormInv => SentAsConfirmed
    BY DEF FormInv
<1>2. QED BY <1>1, FormInductive, PTL
-----------------------------------------------------------------------------
(***************************************************************************)
(* Workspace: the inductive invariant                                      *)
(***************************************************************************)
\* Known, and neither waiting for a decision nor executed: so it stays.
Dead(i) == approvals[i].by # Nobody /\ ~approvals[i].pending /\ approvals[i].executions = 0

RowsFine ==
    \A i \in Approvals :
        /\ approvals[i].pending => approvals[i].by # Nobody /\ approvals[i].executions = 0
        /\ approvals[i].executions = 1 => approvals[i].by # Nobody /\ <<i, approvals[i].by>> \in pressed
        /\ told[i] = "done" => approvals[i].executions = 1
        /\ told[i] = "cancelled" => Dead(i)

\* What a call says of an approval, on its way out or back
CallFine(c) ==
    /\ c.op = "preview" /\ c.answer = "yes" => c.id \in Approvals /\ approvals[c.id].by = c.by
    /\ c.op \in {"approve", "cancel"} => c.id \in Approvals /\ approvals[c.id].by # Nobody
    /\ c.op = "approve" => <<c.id, c.by>> \in pressed
    /\ c.op = "approve" /\ c.answer = "yes" => approvals[c.id].executions = 1
    /\ c.op = "cancel" /\ c.answer = "yes" => Dead(c.id)

CallsFine == \A c \in onWay : CallFine(c)

DialogIsKnown == dialog # Nobody => approvals[dialog].by # Nobody

\* While nothing strays, what is shown and what the page waits for is the user's,
\* and there is no dialog nor command behind the gate and the loading screen.
OwnSession ==
    ~strays =>
        /\ \A c \in onWay : c.heard => c.by = user /\ (starting => c.op \in Views)
        /\ starting \/ user = Nobody => dialog = Nobody
        /\ user # Nobody => \A v \in Views : shows[v] \in {user, Nobody}
        /\ user = Nobody => shows["connections"] = Nobody
        /\ dialog # Nobody => approvals[dialog].by = user

WorkspaceInv ==
    /\ WorkspaceTypeOK
    /\ RowsFine
    /\ CallsFine
    /\ DialogIsKnown
    /\ OwnSession

-----------------------------------------------------------------------------
Row == [by : Whom, pending : BOOLEAN, executions : 0..1]

LEMMA WorkspaceInitInv == WorkspaceInit => WorkspaceInv
<1> SUFFICES ASSUME WorkspaceInit PROVE WorkspaceInv
    OBVIOUS
<1>1. WorkspaceTypeOK
    <2>1. starting \in BOOLEAN /\ loading \in BOOLEAN /\ busy \in BOOLEAN /\ strays \in BOOLEAN
        BY Zenon DEF WorkspaceInit
    <2>2. user \in Whom /\ shows \in [Views -> Whom] /\ dialog \in Approvals \union {Nobody} /\ onWay \subseteq OnWay
        BY DEF WorkspaceInit, NothingShown, Whom
    <2>3. approvals \in [Approvals -> [by : Whom, pending : BOOLEAN, executions : 0..1]]
        BY DEF WorkspaceInit, Whom
    <2>4. pressed \subseteq Approvals \X Users /\ told \in [Approvals -> {"nothing", "done", "cancelled"}]
        BY DEF WorkspaceInit
    <2>5. QED BY <2>1, <2>2, <2>3, <2>4 DEF WorkspaceTypeOK
<1>2. RowsFine /\ CallsFine /\ DialogIsKnown
    BY DEF WorkspaceInit, RowsFine, CallsFine, DialogIsKnown
<1>3. OwnSession
    BY DEF WorkspaceInit, OwnSession, NothingShown, Views
<1>4. QED BY <1>1, <1>2, <1>3 DEF WorkspaceInv

\* What is sent, and what a reply makes of it, is a call.
LEMMA SendCall ==
    ASSUME NEW op \in Views \union Commands, NEW id \in Approvals \union {Nobody}, user \in Users,
           Send(op, id), WorkspaceTypeOK
    PROVE  onWay' \subseteq OnWay
<1>1. [op |-> op, by |-> user, id |-> id, heard |-> TRUE, answer |-> "none"] \in OnWay
    BY DEF OnWay
<1>2. QED BY <1>1 DEF Send, WorkspaceTypeOK

LEMMA ReplyCall ==
    ASSUME NEW c \in onWay, NEW id \in Approvals \union {Nobody}, NEW answer \in {"yes", "no"},
           Reply(c, id, answer), WorkspaceTypeOK
    PROVE  onWay' \subseteq OnWay
<1>1. c \in OnWay
    BY DEF WorkspaceTypeOK
<1>2. [c EXCEPT !.id = id, !.answer = answer] \in OnWay
    BY <1>1 DEF OnWay
<1>3. QED BY <1>2 DEF Reply, WorkspaceTypeOK

\* What a decision makes of its approval
LEMMA DecidedRow ==
    ASSUME WorkspaceTypeOK, RowsFine, CallsFine, NEW c \in onWay, Decided(c)
    PROVE  /\ c \in OnWay /\ c.id \in Approvals /\ approvals[c.id].pending
           /\ approvals' \in [Approvals -> Row]
           /\ approvals'[c.id].by = approvals[c.id].by
           /\ ~approvals'[c.id].pending
           /\ approvals'[c.id].executions = IF c.op = "approve" THEN 1 ELSE 0
           /\ \A i \in Approvals \ {c.id} : approvals'[i] = approvals[i]
<1>1. c \in OnWay /\ c.id \in Approvals /\ approvals[c.id].pending /\ approvals[c.id].executions = 0
    BY DEF Decided, Granted, CallsFine, CallFine, RowsFine, WorkspaceTypeOK
<1>2. approvals \in [Approvals -> Row]
    BY DEF WorkspaceTypeOK, Row
<1>3. approvals[c.id] \in Row
    BY <1>1, <1>2
<1> DEFINE n == IF c.op = "approve" THEN 1 ELSE 0
           row == [approvals[c.id] EXCEPT !.pending = FALSE, !.executions = @ + n]
<1>4. approvals[c.id].executions + n \in 0..1
    BY <1>1
<1>5. row \in Row
    BY <1>3, <1>4 DEF Row
<1>6. row.by = approvals[c.id].by /\ row.pending = FALSE /\ row.executions = n
    BY <1>1, <1>3 DEF Row
<1>7. approvals' = [approvals EXCEPT ![c.id] = row]
    BY <1>1, <1>2, <1>3 DEF Decided, Row
<1> HIDE DEF row
<1>8. QED BY <1>1, <1>2, <1>5, <1>6, <1>7

\* What a preview makes of its approval
LEMMA PreviewRow ==
    ASSUME WorkspaceTypeOK, RowsFine, NEW c \in onWay, NEW i \in Approvals, PreviewMade(c, i)
    PROVE  /\ c \in OnWay /\ approvals[i].by = Nobody
           /\ approvals' \in [Approvals -> Row]
           /\ approvals'[i].by = c.by /\ approvals'[i].executions = 0
           /\ \A j \in Approvals \ {i} : approvals'[j] = approvals[j]
<1>1. c \in OnWay /\ c.by \in Whom
    BY DEF WorkspaceTypeOK, OnWay, Whom
<1>2. approvals \in [Approvals -> Row] /\ approvals[i] \in Row
    BY DEF WorkspaceTypeOK, Row
<1>3. approvals[i].by = Nobody
    BY DEF PreviewMade
<1>4. approvals[i].executions = 0
    <2>1. approvals[i].executions # 1
        BY <1>3 DEF RowsFine
    <2>2. approvals[i].executions \in 0..1
        BY <1>2 DEF Row
    <2>3. QED BY <2>1, <2>2
<1> DEFINE row == [approvals[i] EXCEPT !.by = c.by, !.pending = TRUE]
<1>5. approvals' = [approvals EXCEPT ![i] = row]
    BY DEF PreviewMade
<1>6. row \in Row
    BY <1>1, <1>2 DEF Row
<1>7. row.by = c.by /\ row.executions = 0
    BY <1>2, <1>4 DEF Row
<1> HIDE DEF row
<1>8. QED BY <1>1, <1>2, <1>3, <1>5, <1>6, <1>7

LEMMA ExpiredRow ==
    ASSUME WorkspaceTypeOK, NEW i \in Approvals, Expires(i)
    PROVE  /\ approvals' \in [Approvals -> Row]
           /\ approvals'[i].by = approvals[i].by
           /\ ~approvals'[i].pending
           /\ approvals'[i].executions = approvals[i].executions
           /\ \A j \in Approvals \ {i} : approvals'[j] = approvals[j]
<1>1. approvals \in [Approvals -> Row] /\ approvals[i] \in Row
    BY DEF WorkspaceTypeOK, Row
<1> DEFINE row == [approvals[i] EXCEPT !.pending = FALSE]
<1>2. approvals' = [approvals EXCEPT ![i] = row]
    BY <1>1 DEF Expires
<1>3. row \in Row
    BY <1>1 DEF Row
<1>4. row.by = approvals[i].by /\ row.pending = FALSE /\ row.executions = approvals[i].executions
    BY <1>1 DEF Row
<1> HIDE DEF row
<1>5. QED BY <1>1, <1>2, <1>3, <1>4

LEMMA WorkspaceTypeStep ==
    ASSUME WorkspaceTypeOK, RowsFine, CallsFine, [WorkspaceNext]_workspaceVars
    PROVE  WorkspaceTypeOK'
<1> USE DEF pageVars, recordVars
<1>1. CASE Sessions
    <2>1. ASSUME NEW v \in Views, NEW w \in Whom PROVE [shows EXCEPT ![v] = w] \in [Views -> Whom]
        BY DEF WorkspaceTypeOK
    <2>2. ReloadPage => onWay' \subseteq OnWay
        <3> SUFFICES ASSUME ReloadPage, NEW c \in onWay PROVE [c EXCEPT !.heard = FALSE] \in OnWay
            BY DEF ReloadPage
        <3>1. QED BY DEF WorkspaceTypeOK, OnWay
    <2>3. ASSUME NEW u \in Users, SignIn(u) PROVE WorkspaceTypeOK'
        BY <2>3 DEF SignIn, WorkspaceTypeOK, Whom, Views
    <2>4. CASE FirstLoads \/ FirstLoadsFail \/ SignOut \/ ReloadPage
        BY <2>2, <2>4
        DEF FirstLoads, FirstLoadsFail, SignOut, ReloadPage, WorkspaceTypeOK, Whom, Views, NothingShown
    <2>5. QED BY <1>1, <2>3, <2>4 DEF Sessions
<1>2. CASE Looks
    <2>1. CASE AskConnections \/ \E view \in {"account", "catalog"} : AskAgain(view)
        <3>1. user \in Users
            BY <2>1 DEF AskConnections, AskAgain, Usable, WorkspaceTypeOK, Whom
        <3>2. onWay' \subseteq OnWay
            BY <2>1, <3>1, SendCall DEF AskConnections, AskAgain, Views
        <3>3. QED BY <2>1, <3>2 DEF AskConnections, AskAgain, WorkspaceTypeOK
    <2>2. ASSUME NEW c \in onWay, NEW fails \in BOOLEAN, ViewAnswers(c, fails) PROVE WorkspaceTypeOK'
        <3>1. c.by \in Whom /\ c.op \in Views
            BY <2>2 DEF ViewAnswers, WorkspaceTypeOK, OnWay, Whom
        <3>2. shows' \in [Views -> Whom]
            BY <2>2, <3>1 DEF ViewAnswers, WorkspaceTypeOK
        <3>3. QED BY <2>2, <3>2 DEF ViewAnswers, WorkspaceTypeOK
    <2>3. QED BY <1>2, <2>1, <2>2 DEF Looks
<1>3. CASE Submit \/ \E op \in {"approve", "cancel"} : Press(op)
    <2>1. user \in Users
        BY <1>3 DEF Submit, Press, Usable, WorkspaceTypeOK, Whom
    <2>2. onWay' \subseteq OnWay
        BY <1>3, <2>1, SendCall DEF Submit, Press, Commands, WorkspaceTypeOK
    <2>3. pressed' \subseteq Approvals \X Users
        BY <1>3, <2>1 DEF Submit, Press, WorkspaceTypeOK
    <2>4. QED BY <1>3, <2>2, <2>3 DEF Submit, Press, WorkspaceTypeOK
<1>4. ASSUME NEW c \in onWay, Decided(c) PROVE WorkspaceTypeOK'
    <2>1. approvals' \in [Approvals -> Row] /\ c.id \in Approvals
        BY <1>4, DecidedRow
    <2>2. onWay' \subseteq OnWay
        BY <1>4, <2>1, ReplyCall DEF Decided
    <2>3. QED BY <1>4, <2>1, <2>2 DEF Decided, WorkspaceTypeOK, Row
<1>5. ASSUME NEW c \in onWay, NEW i \in Approvals, PreviewMade(c, i) PROVE WorkspaceTypeOK'
    <2>1. approvals' \in [Approvals -> Row]
        BY <1>5, PreviewRow
    <2>2. onWay' \subseteq OnWay
        BY <1>5, ReplyCall DEF PreviewMade
    <2>3. QED BY <1>5, <2>1, <2>2 DEF PreviewMade, WorkspaceTypeOK, Row
<1>6. ASSUME NEW c \in onWay, Declined(c) PROVE WorkspaceTypeOK'
    <2>1. c.id \in Approvals \union {Nobody}
        BY DEF WorkspaceTypeOK, OnWay
    <2>2. onWay' \subseteq OnWay
        BY <1>6, <2>1, ReplyCall DEF Declined
    <2>3. QED BY <1>6, <2>2 DEF Declined, WorkspaceTypeOK
<1>7. ASSUME NEW i \in Approvals, Expires(i) PROVE WorkspaceTypeOK'
    BY <1>7, ExpiredRow DEF Expires, WorkspaceTypeOK, Row
<1>8. ASSUME NEW c \in onWay, CommandAnswered(c) PROVE WorkspaceTypeOK'
    <2>1. c.id \in Approvals \union {Nobody}
        BY DEF WorkspaceTypeOK, OnWay
    <2>2. dialog' \in Approvals \union {Nobody}
        BY <1>8, <2>1 DEF CommandAnswered, WorkspaceTypeOK
    <2>3. told' \in [Approvals -> {"nothing", "done", "cancelled"}]
        BY <1>8 DEF CommandAnswered, WorkspaceTypeOK
    <2>4. QED BY <1>8, <2>2, <2>3 DEF CommandAnswered, WorkspaceTypeOK
<1>9. ASSUME NEW c \in onWay, CommandLost(c) PROVE WorkspaceTypeOK'
    <2>1. [c EXCEPT !.heard = FALSE] \in OnWay
        BY DEF WorkspaceTypeOK, OnWay
    <2>2. onWay' \subseteq OnWay
        BY <1>9, <2>1 DEF CommandLost, WorkspaceTypeOK
    <2>3. QED BY <1>9, <2>2 DEF CommandLost, WorkspaceTypeOK
<1>10. CASE UNCHANGED workspaceVars
    BY <1>10 DEF workspaceVars, WorkspaceTypeOK
<1>11. QED
    BY <1>1, <1>2, <1>3, <1>4, <1>5, <1>6, <1>7, <1>8, <1>9, <1>10 DEF WorkspaceNext, Orders
\* What an approval has become stays.
Stays(i) ==
    /\ approvals[i].by # Nobody => approvals'[i].by = approvals[i].by
    /\ approvals[i].executions = 1 => approvals'[i].executions = 1
    /\ Dead(i) => Dead(i)'

LEMMA ApprovalsStay ==
    ASSUME WorkspaceTypeOK, RowsFine, CallsFine, [WorkspaceNext]_workspaceVars
    PROVE  pressed \subseteq pressed' /\ \A i \in Approvals : Stays(i)
<1> USE DEF pageVars, recordVars
<1>0. ASSUME approvals' = approvals, pressed \subseteq pressed'
      PROVE  pressed \subseteq pressed' /\ \A i \in Approvals : Stays(i)
    BY <1>0 DEF Stays, Dead
<1>1. ASSUME NEW c \in onWay, Decided(c)
      PROVE  pressed \subseteq pressed' /\ \A i \in Approvals : Stays(i)
    <2>1. pressed' = pressed
        BY <1>1 DEF Decided
    <2>2. approvals[c.id].executions = 0
        BY <1>1, DecidedRow DEF RowsFine
    <2>3. Stays(c.id)
        BY <1>1, <2>2, DecidedRow DEF Stays, Dead
    <2>4. \A i \in Approvals \ {c.id} : Stays(i)
        BY <1>1, DecidedRow DEF Stays, Dead
    <2>5. QED BY <2>1, <2>3, <2>4
<1>2. ASSUME NEW c \in onWay, NEW i \in Approvals, PreviewMade(c, i)
      PROVE  pressed \subseteq pressed' /\ \A j \in Approvals : Stays(j)
    <2>1. pressed' = pressed
        BY <1>2 DEF PreviewMade
    <2>2. Stays(i)
        <3>1. approvals[i].by = Nobody
            BY <1>2, PreviewRow
        <3>2. approvals[i].executions # 1
            BY <3>1 DEF RowsFine
        <3>3. QED BY <3>1, <3>2 DEF Stays, Dead
    <2>3. \A j \in Approvals \ {i} : Stays(j)
        BY <1>2, PreviewRow DEF Stays, Dead
    <2>4. QED BY <2>1, <2>2, <2>3
<1>3. ASSUME NEW i \in Approvals, Expires(i)
      PROVE  pressed \subseteq pressed' /\ \A j \in Approvals : Stays(j)
    <2>1. pressed' = pressed
        BY <1>3 DEF Expires
    <2>2. Stays(i)
        BY <1>3, ExpiredRow DEF Stays, Dead
    <2>3. \A j \in Approvals \ {i} : Stays(j)
        BY <1>3, ExpiredRow DEF Stays, Dead
    <2>4. QED BY <2>1, <2>2, <2>3
<1>4. ASSUME NEW c \in onWay, Declined(c) \/ CommandAnswered(c) \/ CommandLost(c)
      PROVE  approvals' = approvals /\ pressed' = pressed
    BY <1>4 DEF Declined, CommandAnswered, CommandLost
<1>5. CASE Sessions
    BY <1>0, <1>5 DEF Sessions, FirstLoads, FirstLoadsFail, SignOut, ReloadPage, SignIn
<1>6. CASE Looks
    BY <1>0, <1>6 DEF Looks, AskConnections, AskAgain, ViewAnswers
<1>7. CASE Submit \/ \E op \in {"approve", "cancel"} : Press(op)
    <2>1. approvals' = approvals /\ pressed \subseteq pressed'
        BY <1>7 DEF Submit, Press
    <2>2. QED BY <1>0, <2>1
<1>8. CASE UNCHANGED workspaceVars
    BY <1>0, <1>8 DEF workspaceVars
<1>9. QED
    BY <1>0, <1>1, <1>2, <1>3, <1>4, <1>5, <1>6, <1>7, <1>8 DEF WorkspaceNext, Orders

LEMMA CallStaysFine ==
    ASSUME NEW c \in OnWay, CallFine(c), pressed \subseteq pressed', \A i \in Approvals : Stays(i)
    PROVE  CallFine(c)'
<1>1. c.by # Nobody
    BY WorkspaceAssumption DEF OnWay
<1>2. QED BY <1>1 DEF CallFine, Stays

LEMMA CallsStep ==
    ASSUME WorkspaceTypeOK, RowsFine, CallsFine, DialogIsKnown, [WorkspaceNext]_workspaceVars
    PROVE  CallsFine' /\ DialogIsKnown'
<1> USE DEF pageVars, recordVars
<1>0. /\ pressed \subseteq pressed' /\ \A i \in Approvals : Stays(i)
      /\ \A c \in onWay : c \in OnWay /\ CallFine(c)'
    BY ApprovalsStay, CallStaysFine DEF CallsFine, WorkspaceTypeOK
<1>1. DialogIsKnown'
    <2>1. CASE dialog' = dialog \/ dialog' = Nobody
        BY <1>0, <2>1 DEF DialogIsKnown, Stays, WorkspaceTypeOK
    <2>2. ASSUME NEW c \in onWay, CommandAnswered(c) PROVE DialogIsKnown'
        <3>1. CASE c.op = "preview" /\ c.answer = "yes"
            <4>1. dialog' = c.id /\ c.by \in Users /\ approvals' = approvals
                BY <1>0, <2>2, <3>1 DEF CommandAnswered, OnWay
            <4>2. approvals[c.id].by = c.by
                BY <3>1 DEF CallsFine, CallFine
            <4>3. QED BY <4>1, <4>2, WorkspaceAssumption DEF DialogIsKnown
        <3>2. CASE ~(c.op = "preview" /\ c.answer = "yes")
            BY <2>1, <2>2, <3>2 DEF CommandAnswered
        <3>3. QED BY <3>1, <3>2
    <2>3. QED
        BY <2>1, <2>2
        DEF WorkspaceNext, Sessions, FirstLoads, FirstLoadsFail, SignOut, ReloadPage, SignIn, Looks,
            AskConnections, AskAgain, ViewAnswers, Orders, Submit, Press, Decided, Declined,
            PreviewMade, Expires, CommandLost, workspaceVars
<1>2. CallsFine'
    <2>1. ASSUME NEW new, onWay' \subseteq onWay \union {new}, CallFine(new)' PROVE CallsFine'
        BY <1>0, <2>1 DEF CallsFine
    <2>2. ASSUME NEW c \in onWay, c.answer = "none" PROVE CallFine([c EXCEPT !.heard = FALSE])'
        BY <1>0, <2>2 DEF CallFine, OnWay
    <2>3. CASE onWay' \subseteq onWay
        BY <1>0, <2>3 DEF CallsFine
    <2>4. CASE Sessions
        <3>1. CASE ReloadPage
            BY <2>2, <3>1 DEF ReloadPage, CallsFine
        <3>2. QED BY <2>3, <2>4, <3>1 DEF Sessions, FirstLoads, FirstLoadsFail, SignOut, SignIn
    <2>5. CASE Looks
        <3>1. ASSUME NEW view \in Views, Send(view, Nobody) PROVE CallsFine'
            <4>1. PICK new : new = [op |-> view, by |-> user, id |-> Nobody, heard |-> TRUE, answer |-> "none"]
                OBVIOUS
            <4>2. CallFine(new)'
                BY <4>1 DEF CallFine, Views
            <4>3. QED BY <2>1, <3>1, <4>1, <4>2 DEF Send
        <3>2. QED BY <2>3, <2>5, <3>1 DEF Looks, AskConnections, AskAgain, ViewAnswers, Views
    <2>6. CASE Submit
        <3>1. PICK new : new = [op |-> "preview", by |-> user, id |-> Nobody, heard |-> TRUE, answer |-> "none"]
            OBVIOUS
        <3>2. CallFine(new)'
            BY <3>1 DEF CallFine
        <3>3. QED BY <2>1, <2>6, <3>1, <3>2 DEF Submit, Send
    <2>7. ASSUME NEW op \in {"approve", "cancel"}, Press(op) PROVE CallsFine'
        <3>1. dialog \in Approvals /\ approvals[dialog].by # Nobody /\ approvals' = approvals
            BY <2>7 DEF Press, DialogIsKnown, WorkspaceTypeOK
        <3>2. op = "approve" => <<dialog, user>> \in pressed'
            BY <2>7 DEF Press
        <3>3. PICK new : new = [op |-> op, by |-> user, id |-> dialog, heard |-> TRUE, answer |-> "none"]
            OBVIOUS
        <3>4. CallFine(new)'
            BY <3>1, <3>2, <3>3 DEF CallFine
        <3>5. QED BY <2>1, <2>7, <3>3, <3>4 DEF Press, Send
    <2>8. ASSUME NEW c \in onWay, Decided(c) PROVE CallsFine'
        <3>1. PICK answer \in {"yes", "no"} : (c.op = "cancel" => answer = "yes") /\ Reply(c, c.id, answer)
            BY <2>8 DEF Decided
        <3> DEFINE new == [c EXCEPT !.id = c.id, !.answer = answer]
        <3>2. c \in OnWay /\ c.op \in {"approve", "cancel"} /\ c.id \in Approvals
            BY <1>0, <2>8, DecidedRow DEF Decided
        <3>3. new.op = c.op /\ new.by = c.by /\ new.id = c.id /\ new.answer = answer
            BY <3>2 DEF OnWay
        <3>4. CallFine(c)
            BY DEF CallsFine
        <3>5. /\ approvals'[c.id].by # Nobody /\ ~approvals'[c.id].pending
              /\ approvals'[c.id].executions = IF c.op = "approve" THEN 1 ELSE 0
            BY <2>8, <3>2, <3>4, DecidedRow DEF CallFine
        <3>6. c.op = "approve" => <<c.id, c.by>> \in pressed'
            BY <1>0, <3>4 DEF CallFine
        <3> HIDE DEF new
        <3>7. CallFine(new)'
            BY <3>2, <3>3, <3>5, <3>6 DEF CallFine, Dead
        <3>8. onWay' \subseteq onWay \union {new}
            BY <3>1 DEF Reply, new
        <3>9. QED BY <2>1, <3>7, <3>8
    <2>9. ASSUME NEW c \in onWay, NEW i \in Approvals, PreviewMade(c, i) PROVE CallsFine'
        <3> DEFINE new == [c EXCEPT !.id = i, !.answer = "yes"]
        <3>1. c \in OnWay /\ c.op = "preview" /\ approvals'[i].by = c.by
            BY <2>9, PreviewRow DEF PreviewMade
        <3>2. new.op = c.op /\ new.by = c.by /\ new.id = i
            BY <3>1 DEF OnWay
        <3>3. onWay' \subseteq onWay \union {new}
            BY <2>9 DEF PreviewMade, Reply
        <3> HIDE DEF new
        <3>4. CallFine(new)'
            BY <3>1, <3>2 DEF CallFine
        <3>5. QED BY <2>1, <3>3, <3>4
    <2>10. ASSUME NEW c \in onWay, Declined(c) PROVE CallsFine'
        <3> DEFINE new == [c EXCEPT !.id = c.id, !.answer = "no"]
        <3>1. new.op = c.op /\ new.by = c.by /\ new.id = c.id /\ new.answer = "no"
            BY <1>0 DEF OnWay
        <3>2. onWay' \subseteq onWay \union {new}
            BY <2>10 DEF Declined, Reply
        <3>3. CallFine(c)'
            BY <1>0
        <3> HIDE DEF new
        <3>4. CallFine(new)'
            BY <3>1, <3>3 DEF CallFine
        <3>5. QED BY <2>1, <3>2, <3>4
    <2>11. ASSUME NEW c \in onWay, CommandLost(c) PROVE CallsFine'
        BY <2>1, <2>2, <2>3, <2>11 DEF CommandLost
    <2>12. QED
        BY <2>3, <2>4, <2>5, <2>6, <2>7, <2>8, <2>9, <2>10, <2>11
        DEF WorkspaceNext, Orders, Expires, CommandAnswered, workspaceVars
<1>3. QED BY <1>1, <1>2
LEMMA RowsStep ==
    ASSUME WorkspaceTypeOK, RowsFine, CallsFine, [WorkspaceNext]_workspaceVars
    PROVE  RowsFine'
<1> USE DEF pageVars, recordVars
<1> DEFINE RowFine(i) ==
        /\ approvals[i].pending => approvals[i].by # Nobody /\ approvals[i].executions = 0
        /\ approvals[i].executions = 1 => approvals[i].by # Nobody /\ <<i, approvals[i].by>> \in pressed
        /\ told[i] = "done" => approvals[i].executions = 1
        /\ told[i] = "cancelled" => Dead(i)
<1> SUFFICES ASSUME NEW i \in Approvals PROVE RowFine(i)'
    BY DEF RowsFine
<1>0. RowFine(i) /\ pressed \subseteq pressed' /\ Stays(i)
    BY ApprovalsStay DEF RowsFine
<1>1. CASE approvals'[i] = approvals[i] /\ told'[i] = told[i]
    BY <1>0, <1>1 DEF Dead
<1>2. ASSUME NEW c \in onWay, Decided(c) PROVE RowFine(i)'
    <2>1. told' = told /\ pressed' = pressed
        BY <1>2 DEF Decided
    <2>2. CASE i # c.id
        BY <1>1, <1>2, <2>1, <2>2, DecidedRow
    <2>3. CASE i = c.id
        <3>1. CallFine(c) /\ c.op \in {"approve", "cancel"} /\ approvals[i].by = c.by /\ approvals[i].pending
            BY <1>2, <2>3 DEF Decided, Granted, CallsFine
        <3>2. /\ approvals'[i].by = approvals[i].by /\ ~approvals'[i].pending
              /\ approvals'[i].executions = IF c.op = "approve" THEN 1 ELSE 0
            BY <1>2, <2>3, DecidedRow
        <3>3. approvals[i].by # Nobody /\ approvals[i].executions = 0
            BY <1>0, <3>1
        <3>4. told[i] # "done" /\ told[i] # "cancelled"
            BY <1>0, <3>1, <3>3 DEF Dead
        <3>5. c.op = "approve" => <<i, approvals[i].by>> \in pressed
            BY <2>3, <3>1 DEF CallFine
        <3>6. QED BY <2>1, <3>2, <3>3, <3>4, <3>5
    <2>4. QED BY <2>2, <2>3
<1>3. ASSUME NEW c \in onWay, NEW j \in Approvals, PreviewMade(c, j) PROVE RowFine(i)'
    <2>1. told' = told /\ pressed' = pressed
        BY <1>3 DEF PreviewMade
    <2>2. CASE i # j
        BY <1>1, <1>3, <2>1, <2>2, PreviewRow
    <2>3. CASE i = j
        <3>1. approvals[i].by = Nobody /\ c \in OnWay /\ approvals'[i].by = c.by /\ approvals'[i].executions = 0
            BY <1>3, <2>3, PreviewRow
        <3>2. told[i] # "done" /\ told[i] # "cancelled" /\ c.by # Nobody
            BY <1>0, <3>1, WorkspaceAssumption DEF Dead, OnWay
        <3>3. QED BY <2>1, <3>1, <3>2
    <2>4. QED BY <2>2, <2>3
<1>4. ASSUME NEW j \in Approvals, Expires(j) PROVE RowFine(i)'
    <2>1. told' = told /\ pressed' = pressed
        BY <1>4 DEF Expires
    <2>2. CASE i # j
        BY <1>1, <1>4, <2>1, <2>2, ExpiredRow
    <2>3. CASE i = j
        BY <1>0, <1>4, <2>1, <2>3, ExpiredRow DEF Dead
    <2>4. QED BY <2>2, <2>3
<1>5. ASSUME NEW c \in onWay, CommandAnswered(c) PROVE RowFine(i)'
    <2>1. approvals' = approvals /\ pressed' = pressed /\ CallFine(c)
        BY <1>5 DEF CommandAnswered, CallsFine
    <2>2. CASE told'[i] = told[i]
        BY <1>1, <2>1, <2>2
    <2>3. CASE c.op = "approve" /\ c.answer = "yes" /\ told' = [told EXCEPT ![c.id] = "done"] /\ told'[i] # told[i]
        <3>1. c.id = i /\ told'[i] = "done"
            BY <2>3 DEF WorkspaceTypeOK
        <3>2. approvals[i].executions = 1
            BY <2>1, <2>3, <3>1 DEF CallFine
        <3>3. QED BY <1>0, <2>1, <3>1, <3>2
    <2>4. CASE c.op = "cancel" /\ c.answer = "yes" /\ told' = [told EXCEPT ![c.id] = "cancelled"] /\ told'[i] # told[i]
        <3>1. c.id = i /\ told'[i] = "cancelled"
            BY <2>4 DEF WorkspaceTypeOK
        <3>2. Dead(i)
            BY <2>1, <2>4, <3>1 DEF CallFine
        <3>3. QED BY <1>0, <2>1, <3>1, <3>2 DEF Dead
    <2>5. QED BY <1>5, <2>2, <2>3, <2>4 DEF CommandAnswered
<1>6. ASSUME NEW c \in onWay, Declined(c) \/ CommandLost(c) PROVE RowFine(i)'
    <2>1. approvals' = approvals /\ told' = told
        BY <1>6 DEF Declined, CommandLost
    <2>2. QED BY <1>1, <2>1
<1>7. CASE Sessions \/ Looks \/ Submit \/ (\E op \in {"approve", "cancel"} : Press(op)) \/ UNCHANGED workspaceVars
    <2>1. approvals' = approvals /\ told' = told
        BY <1>7
        DEF Sessions, FirstLoads, FirstLoadsFail, SignOut, ReloadPage, SignIn, Looks, AskConnections,
            AskAgain, ViewAnswers, Submit, Press, workspaceVars
    <2>2. QED BY <1>1, <2>1
<1> HIDE DEF RowFine
<1>8. QED
    BY <1>2, <1>3, <1>4, <1>5, <1>6, <1>7 DEF WorkspaceNext, Orders

LEMMA SessionStep ==
    ASSUME WorkspaceTypeOK, RowsFine, CallsFine, DialogIsKnown, OwnSession, [WorkspaceNext]_workspaceVars
    PROVE  OwnSession'
<1> USE DEF pageVars, recordVars
<1>0. /\ \A c \in onWay : c \in OnWay /\ c.by \in Users /\ c.by # Nobody
      /\ user \in Users \union {Nobody} /\ dialog \in Approvals \union {Nobody}
      /\ shows \in [Views -> Whom]
    BY WorkspaceAssumption DEF WorkspaceTypeOK, OnWay, Whom
<1>1. dialog # Nobody => approvals'[dialog].by = approvals[dialog].by
    BY <1>0, ApprovalsStay DEF DialogIsKnown, Stays
<1>2. CASE Sessions
    <2>1. ASSUME NEW u \in Users, SignIn(u) PROVE OwnSession'
        <3>1. u # Nobody
            BY WorkspaceAssumption
        <3>2. shows' \in [Views -> Whom] /\ shows'["account"] = u /\ shows'["catalog"] = u
              /\ shows'["connections"] = shows["connections"]
            BY <1>0, <2>1 DEF SignIn, Views, Whom
        <3>3. QED BY <1>0, <2>1, <3>1, <3>2 DEF SignIn, OwnSession, Views
    <2>2. CASE FirstLoads
        BY <1>0, <2>2 DEF FirstLoads, OwnSession, Views
    <2>3. CASE FirstLoadsFail
        <3>1. strays' \in BOOLEAN /\ (~strays' => ~strays /\ Heard(onWay) = {} /\ shows["connections"] = Nobody)
            BY <2>3, Zenon DEF FirstLoadsFail, WorkspaceTypeOK
        <3>2. ~strays' => \A c \in onWay : ~c.heard
            BY <3>1 DEF Heard
        <3>3. ~strays' => dialog = Nobody
            BY <2>3, <3>1 DEF FirstLoadsFail, OwnSession
        <3>4. shows'["connections"] = shows["connections"]
            BY <1>0, <2>3 DEF FirstLoadsFail, Views
        <3>5. QED BY <2>3, <3>1, <3>2, <3>3, <3>4 DEF FirstLoadsFail, OwnSession
    <2>4. CASE SignOut
        <3>1. strays' \in BOOLEAN /\ (~strays' => Heard(onWay) = {})
            BY <2>4, Zenon DEF SignOut
        <3>2. ~strays' => \A c \in onWay : ~c.heard
            BY <3>1 DEF Heard
        <3>3. QED BY <2>4, <3>2 DEF SignOut, OwnSession, NothingShown, Views
    <2>5. CASE ReloadPage
        <3>1. \A c \in onWay' : ~c.heard
            <4> SUFFICES ASSUME NEW c \in onWay PROVE ~[c EXCEPT !.heard = FALSE].heard
                BY <2>5 DEF ReloadPage
            <4>1. QED BY <1>0 DEF OnWay
        <3>2. QED BY <2>5, <3>1 DEF ReloadPage, OwnSession, NothingShown, Views
    <2>6. QED BY <1>2, <2>1, <2>2, <2>3, <2>4, <2>5 DEF Sessions
<1>3. ASSUME NEW op \in Views \union Commands, NEW id \in Approvals \union {Nobody}, Send(op, id),
             user # Nobody, starting => op \in Views,
             UNCHANGED <<user, starting, shows, dialog, strays, approvals>>
      PROVE  OwnSession'
    <2>1. PICK new : new = [op |-> op, by |-> user, id |-> id, heard |-> TRUE, answer |-> "none"]
        OBVIOUS
    <2>2. new.op = op /\ new.by = user /\ \A c \in onWay' : c \in onWay \/ c = new
        BY <1>3, <2>1 DEF Send
    <2>3. \A c \in onWay' : ~strays => (c.heard => c.by = user /\ (starting => c.op \in Views))
        BY <1>3, <2>2 DEF OwnSession
    <2>4. QED BY <1>3, <2>3 DEF OwnSession
<1>4. ASSUME \A c \in onWay' : c.heard => \E d \in onWay : d.heard /\ c.by = d.by /\ c.op = d.op,
             UNCHANGED <<user, starting, shows, strays>>, dialog' \in {dialog, Nobody}
      PROVE  OwnSession'
    BY <1>1, <1>4 DEF OwnSession
<1>5. CASE Looks
    <2>1. CASE AskConnections
        BY <1>3, <2>1 DEF AskConnections, Usable, Views
    <2>2. ASSUME NEW view \in {"account", "catalog"}, AskAgain(view) PROVE OwnSession'
        BY <1>3, <2>2 DEF AskAgain, Usable, Views
    <2>3. ASSUME NEW c \in onWay, NEW fails \in BOOLEAN, ViewAnswers(c, fails) PROVE OwnSession'
        <3>1. c.heard /\ c.op \in Views /\ (~strays => c.by = user /\ user # Nobody)
            BY <1>0, <2>3 DEF ViewAnswers, OwnSession
        <3>2. \A v \in Views : shows'[v] \in {shows[v], c.by}
            BY <1>0, <2>3 DEF ViewAnswers
        <3>3. QED BY <2>3, <3>1, <3>2 DEF ViewAnswers, OwnSession
    <2>4. QED BY <1>5, <2>1, <2>2, <2>3 DEF Looks
<1>6. CASE Submit \/ \E op \in {"approve", "cancel"} : Press(op)
    BY <1>0, <1>3, <1>6 DEF Submit, Press, Usable, Commands
<1>7. ASSUME NEW c \in onWay, NEW id, NEW answer, Reply(c, id, answer)
      PROVE  \A d \in onWay' : d.heard => \E e \in onWay : e.heard /\ d.by = e.by /\ d.op = e.op
    <2>1. c.heard => /\ [c EXCEPT !.id = id, !.answer = answer].by = c.by
                     /\ [c EXCEPT !.id = id, !.answer = answer].op = c.op
        BY <1>0 DEF OnWay
    <2>2. QED BY <1>7, <2>1 DEF Reply
<1>8. ASSUME NEW c \in onWay, Decided(c) \/ Declined(c) \/ \E i \in Approvals : PreviewMade(c, i)
      PROVE  OwnSession'
    BY <1>4, <1>7, <1>8 DEF Decided, Declined, PreviewMade
<1>9. ASSUME NEW c \in onWay, CommandAnswered(c) PROVE OwnSession'
    <2>1. c.heard /\ c.answer # "none" /\ UNCHANGED <<user, starting, shows, strays, approvals>>
          /\ onWay' \subseteq onWay
        BY <1>9 DEF CommandAnswered
    <2>2. CASE dialog' \in {dialog, Nobody}
        BY <1>4, <2>1, <2>2
    <2>3. CASE c.op = "preview" /\ c.answer = "yes" /\ dialog' = c.id
        <3>1. approvals[c.id].by = c.by
            BY <2>3 DEF CallsFine, CallFine
        <3>2. ~strays => c.by = user /\ user # Nobody /\ ~starting
            BY <1>0, <2>1, <2>3 DEF OwnSession, Views
        <3>3. QED BY <2>1, <2>3, <3>1, <3>2 DEF OwnSession
    <2>4. QED BY <1>9, <2>2, <2>3 DEF CommandAnswered
<1>10. ASSUME NEW c \in onWay, CommandLost(c) PROVE OwnSession'
    <2>1. ~[c EXCEPT !.heard = FALSE].heard
        BY <1>0 DEF OnWay
    <2>2. \A d \in onWay' : d.heard => d \in onWay
        BY <1>10, <2>1 DEF CommandLost
    <2>3. QED BY <1>4, <1>10, <2>2 DEF CommandLost
<1>11. CASE UNCHANGED workspaceVars \/ \E i \in Approvals : Expires(i)
    BY <1>4, <1>11 DEF workspaceVars, Expires
<1>12. QED
    BY <1>2, <1>5, <1>6, <1>8, <1>9, <1>10, <1>11 DEF WorkspaceNext, Orders

THEOREM WorkspaceInductive == WorkspaceSpec => []WorkspaceInv
<1>1. WorkspaceInv /\ [WorkspaceNext]_workspaceVars => WorkspaceInv'
    BY WorkspaceTypeStep, RowsStep, CallsStep, SessionStep DEF WorkspaceInv
<1>2. QED BY WorkspaceInitInv, <1>1, PTL DEF WorkspaceSpec

\* The page keeps its types, with any number of users and requests on their way.
THEOREM WorkspaceTypeCorrect == WorkspaceSpec => []WorkspaceTypeOK
<1>1. WorkspaceInv => WorkspaceTypeOK
    BY DEF WorkspaceInv
<1>2. QED BY <1>1, WorkspaceInductive, PTL

\* Commands are executed as approved, and the screen is its user's.
THEOREM PageTellsTheTruth == WorkspaceSpec => []PageIsTruthful
<1>1. WorkspaceInv => ExecutedAsApproved
    <2> SUFFICES ASSUME WorkspaceInv PROVE ExecutedAsApproved
        OBVIOUS
    <2>1. \A i \in Approvals : approvals[i].executions \in 0..1
        BY DEF WorkspaceInv, WorkspaceTypeOK
    <2>2. QED BY <2>1 DEF WorkspaceInv, RowsFine, Dead, ExecutedAsApproved
<1>2. WorkspaceInv => ScreenIsOwn
    BY DEF WorkspaceInv, OwnSession, ScreenIsOwn
<1>3. QED BY <1>1, <1>2, WorkspaceInductive, PTL DEF PageIsTruthful

-----------------------------------------------------------------------------
(***************************************************************************)
(* Shipments: the inductive invariant                                      *)
(***************************************************************************)
\* A preview shows a valid import; its key is the import's.
Faithful(p) == p # None =>
    /\ p.payload \in Seq(Items) /\ p.size \in CallSizes /\ ValidImport(p.payload)
    /\ p.confirmationKey = ConfirmationKey(p.payload, p.size)

\* What is done was taken, what a plan leaves out is done, and what it sends is not.
Checkpoints ==
    /\ \A b \in done : \A item \in ItemsOf(b) : accepted[item] > 0
    /\ mode = "keys" \/ edits = 0 => plan.skipped \subseteq done /\ left \intersect done = {}

LeftIsPlanned ==
    left # {} => plan.shown # None /\ left \subseteq Batches(plan.shown.payload, plan.shown.size)

\* While nobody has edited the import there is one list of batches.
All == Batches(payload, size)
Comes(a, b) == Precedes(payload, a, b)
SameImport(p) == p # None => p.payload = payload /\ p.size = size

Lost(b) == b \in DOMAIN failures /\ failures[b].class = "ambiguous_write"
TakenOnce(b) ==
    \/ \A item \in ItemsOf(b) : accepted[item] = 0
    \/ (\A item \in ItemsOf(b) : accepted[item] = 1) /\ (b \in done \/ Lost(b))

OnceEach ==
    /\ SameImport(shown) /\ SameImport(plan.shown)
    /\ done \union DOMAIN failures \subseteq All
    /\ \A b \in All : TakenOnce(b)
    /\ \A item \in Items : (\A b \in All : item \notin ItemsOf(b)) => accepted[item] = 0

\* With the last key alone, the batches that are done are those up to it, and a
\* batch that failed is the next one.
InOrder ==
    /\ done = IF last = None THEN {} ELSE {b \in All : b = last \/ Comes(b, last)}
    /\ left # {} => left = All \ done
    /\ \A b \in DOMAIN failures : b \notin done /\ \A a \in All : Comes(a, b) => a \in done

ShipmentsInv ==
    /\ ShipmentsTypeOK
    /\ Faithful(shown) /\ Faithful(plan.shown)
    /\ Checkpoints
    /\ LeftIsPlanned
    /\ edits = 0 => OnceEach /\ (mode = "last" => InOrder)

-----------------------------------------------------------------------------
(***************************************************************************)
(* The batches of an import                                                *)
(***************************************************************************)
LEMMA GroupsAreFinite ==
    ASSUME NEW items \in Seq(Items), NEW m
    PROVE  IsFiniteSet(Group(items, m)) /\ Cardinality(Group(items, m)) \in Nat
           /\ Group(items, m) \subseteq DOMAIN items
<1>1. IsFiniteSet(1..Len(items))
    BY FS_Interval
<1>2. Group(items, m) \subseteq 1..Len(items) /\ DOMAIN items = 1..Len(items)
    BY DEF Group
<1>3. IsFiniteSet(Group(items, m))
    BY <1>1, <1>2, FS_Subset
<1> QED BY <1>2, <1>3, FS_CardinalityType

LEMMA PlacesAreNumbers ==
    ASSUME NEW items \in Seq(Items), NEW i
    PROVE  PlaceInGroup(items, i) \in Nat
<1> DEFINE before == {j \in Group(items, MarketAt(items, i)) : j < i}
<1>1. IsFiniteSet(before)
    BY GroupsAreFinite, FS_Subset
<1>2. Cardinality(before) \in Nat
    BY <1>1, FS_CardinalityType
<1> QED BY <1>2 DEF PlaceInGroup

LEMMA Quotients ==
    ASSUME NEW x \in Nat, NEW n \in Nat \ {0}
    PROVE  x \div n \in Nat /\ x % n \in Nat
OBVIOUS

\* The batch of a line
LEMMA BatchOfALine ==
    ASSUME NEW items \in Seq(Items), NEW n \in Nat \ {0}, NEW i \in DOMAIN items
    PROVE  /\ BatchAt(items, n, i) \in Batch
           /\ BatchAt(items, n, i).market = MarketAt(items, i)
           /\ BatchAt(items, n, i).index = BatchIndex(items, n, i)
           /\ ItemsOf(BatchAt(items, n, i)) =
                {items[j] : j \in {j \in DOMAIN items : MarketAt(items, j) = MarketAt(items, i)
                                    /\ BatchIndex(items, n, j) = BatchIndex(items, n, i)}}
<1> DEFINE m == MarketAt(items, i)
           lines == {j \in Group(items, m) : BatchIndex(items, n, j) = BatchIndex(items, n, i)}
           numbered == {[place |-> PlaceInGroup(items, j) % n, item |-> items[j]] : j \in lines}
<1>1. BatchAt(items, n, i) = [market |-> m, index |-> BatchIndex(items, n, i),
                              count |-> BatchCount(items, n, m), items |-> numbered]
    BY DEF BatchAt
<1>2. \A j \in DOMAIN items : items[j] \in Items
    OBVIOUS
<1>3. m \in {MarketOf[l] : l \in ShipmentLines}
    BY <1>2 DEF MarketAt, Items
<1>4. BatchIndex(items, n, i) \in Nat
    BY PlacesAreNumbers, Quotients DEF BatchIndex
<1>5. BatchCount(items, n, m) \in Nat
    <2>1. PICK c \in Nat : c = Cardinality(Group(items, m))
        BY GroupsAreFinite
    <2>2. c + n - 1 \in Nat
        OBVIOUS
    <2>3. (c + n - 1) \div n \in Nat
        BY <2>2, Quotients
    <2> QED BY <2>1, <2>3 DEF BatchCount
<1>6. numbered \in SUBSET [place : Nat, item : Items]
    <2>1. ASSUME NEW j \in lines
          PROVE  [place |-> PlaceInGroup(items, j) % n, item |-> items[j]] \in [place : Nat, item : Items]
        BY <1>2, PlacesAreNumbers, Quotients, GroupsAreFinite
    <2> QED BY <2>1
<1>7. BatchAt(items, n, i) \in Batch
    BY <1>1, <1>3, <1>4, <1>5, <1>6 DEF Batch
<1>8. {x.item : x \in numbered} = {items[j] : j \in lines}
    <2> DEFINE r(j) == [place |-> PlaceInGroup(items, j) % n, item |-> items[j]]
    <2>1. \A j \in lines : r(j) \in numbered /\ r(j).item = items[j]
        OBVIOUS
    <2>2. \A x \in numbered : \E j \in lines : x = r(j)
        OBVIOUS
    <2> HIDE DEF r, numbered, lines
    <2> QED BY <2>1, <2>2
<1>9. lines = {j \in DOMAIN items : MarketAt(items, j) = m /\ BatchIndex(items, n, j) = BatchIndex(items, n, i)}
    BY DEF Group
<1> HIDE DEF numbered, lines
<1>12. BatchAt(items, n, i).items = numbered
    BY <1>1
<1>10. ItemsOf(BatchAt(items, n, i)) = {items[j] : j \in lines}
    BY <1>8, <1>12 DEF ItemsOf
<1>11. /\ BatchAt(items, n, i).market = m
       /\ BatchAt(items, n, i).index = BatchIndex(items, n, i)
    BY <1>1
<1> QED BY <1>7, <1>9, <1>10, <1>11

\* A batch is known by its market and index, and two batches have no line in common.
LEMMA BatchesDiffer ==
    ASSUME NEW items \in Seq(Items), NEW n \in Nat \ {0}, NEW i \in DOMAIN items, NEW j \in DOMAIN items,
           MarketAt(items, i) = MarketAt(items, j), BatchIndex(items, n, i) = BatchIndex(items, n, j)
    PROVE  BatchAt(items, n, i) = BatchAt(items, n, j)
BY DEF BatchAt

LEMMA BatchesAreApart ==
    ASSUME NEW items \in Seq(Items), ValidImport(items), NEW n \in Nat \ {0},
           NEW a \in Batches(items, n), NEW b \in Batches(items, n),
           NEW item \in ItemsOf(a), item \in ItemsOf(b)
    PROVE  a = b
<1>1. PICK i \in DOMAIN items, j \in DOMAIN items : a = BatchAt(items, n, i) /\ b = BatchAt(items, n, j)
    BY DEF Batches
<1>2. PICK k \in DOMAIN items : item = items[k] /\ MarketAt(items, k) = MarketAt(items, i)
            /\ BatchIndex(items, n, k) = BatchIndex(items, n, i)
    BY <1>1, BatchOfALine
<1>3. PICK l \in DOMAIN items : item = items[l] /\ MarketAt(items, l) = MarketAt(items, j)
            /\ BatchIndex(items, n, l) = BatchIndex(items, n, j)
    BY <1>1, BatchOfALine
<1>4. k = l
    BY <1>2, <1>3 DEF ValidImport
<1>5. MarketAt(items, i) = MarketAt(items, j) /\ BatchIndex(items, n, i) = BatchIndex(items, n, j)
    BY <1>2, <1>3, <1>4
<1> QED BY <1>1, <1>5, BatchesDiffer

LEMMA BatchesAreBatches ==
    ASSUME NEW items \in Seq(Items), NEW n \in Nat \ {0}, NEW b \in Batches(items, n)
    PROVE  b \in Batch /\ ItemsOf(b) # {} /\ ItemsOf(b) \subseteq Items
<1>1. PICK i \in DOMAIN items : b = BatchAt(items, n, i)
    BY DEF Batches
<1>2. b \in Batch /\ items[i] \in ItemsOf(b)
    BY <1>1, BatchOfALine
<1>3. b.items \in SUBSET [place : Nat, item : Items]
    BY <1>2 DEF Batch
<1> QED BY <1>2, <1>3 DEF ItemsOf

-----------------------------------------------------------------------------
(***************************************************************************)
(* The batches come in an order: by the first line of their market and     *)
(* then by their index.                                                    *)
(***************************************************************************)
LEMMA FirstOfSome ==
    ASSUME NEW S \in SUBSET Nat, S # {}
    PROVE  \E first \in S : \A x \in S : first <= x
<1> DEFINE Below == {p \in Nat \X Nat : p[1] < p[2]}
<1>1. IsWellFoundedOn(Below, Nat)
    BY NatLessThanWellFounded DEF OpToRel
<1>2. PICK first \in S : \A x \in S : ~(<<x, first>> \in Below)
    <2> HIDE DEF Below
    <2> QED BY <1>1, WFMin
<1>3. \A x \in S : first <= x
    <2> TAKE x \in S
    <2>1. ~(x < first)
        BY <1>2
    <2> QED BY <2>1
<1> QED BY <1>3

LEMMA BatchHasLine ==
    ASSUME NEW items \in Seq(Items), NEW n \in Nat \ {0}, NEW b \in Batches(items, n)
    PROVE  /\ Group(items, b.market) # {} /\ Group(items, b.market) \in SUBSET Nat
           /\ b.index \in Nat
<1>1. PICK i \in DOMAIN items : b = BatchAt(items, n, i)
    BY DEF Batches
<1>2. b.market = MarketAt(items, i) /\ b.index = BatchIndex(items, n, i)
    BY <1>1, BatchOfALine
<1>3. i \in Group(items, b.market)
    BY <1>2 DEF Group
<1> QED BY <1>2, <1>3, PlacesAreNumbers, Quotients, GroupsAreFinite DEF BatchIndex

LEMMA MarketsAreApart ==
    ASSUME NEW items \in Seq(Items), NEW m, NEW k, m # k
    PROVE  Group(items, m) \intersect Group(items, k) = {}
BY DEF Group

LEMMA SomeMarketIsFirst ==
    ASSUME NEW S \in SUBSET Nat, NEW T \in SUBSET Nat, S # {}, T # {}, S \intersect T = {}
    PROVE  \/ \E i \in S : \A j \in T : i < j
           \/ \E i \in T : \A j \in S : i < j
<1>1. PICK first \in S \union T : \A x \in S \union T : first <= x
    BY FirstOfSome
<1>2. CASE first \in S
    <2>1. \A j \in T : first < j
        BY <1>1, <1>2
    <2> QED BY <1>2, <2>1
<1>3. CASE first \in T
    <2>1. \A j \in S : first < j
        BY <1>1, <1>3
    <2> QED BY <1>3, <2>1
<1> QED BY <1>2, <1>3

LEMMA OneComesFirst ==
    ASSUME NEW items \in Seq(Items), NEW n \in Nat \ {0},
           NEW a \in Batches(items, n), NEW b \in Batches(items, n)
    PROVE  a = b \/ Precedes(items, a, b) \/ Precedes(items, b, a)
<1>1. CASE a.market = b.market
    <2>1. a.index < b.index \/ b.index < a.index \/ a.index = b.index
        BY BatchHasLine
    <2>2. CASE a.index = b.index
        <3>1. PICK i \in DOMAIN items, j \in DOMAIN items : a = BatchAt(items, n, i) /\ b = BatchAt(items, n, j)
            BY DEF Batches
        <3>2. MarketAt(items, i) = MarketAt(items, j) /\ BatchIndex(items, n, i) = BatchIndex(items, n, j)
            BY <1>1, <2>2, <3>1, BatchOfALine
        <3> QED BY <3>1, <3>2, BatchesDiffer
    <2> QED BY <1>1, <2>1, <2>2 DEF Precedes
<1>2. CASE a.market # b.market
    <2> DEFINE S == Group(items, a.market)  T == Group(items, b.market)
    <2>1. S # {} /\ T # {} /\ S \in SUBSET Nat /\ T \in SUBSET Nat /\ S \intersect T = {}
        BY <1>2, BatchHasLine, MarketsAreApart
    <2> HIDE DEF S, T
    <2>2. \/ \E i \in S : \A j \in T : i < j
          \/ \E i \in T : \A j \in S : i < j
        BY <2>1, SomeMarketIsFirst
    <2> QED BY <1>2, <2>2 DEF Precedes, S, T
<1> QED BY <1>1, <1>2

LEMMA NotBoth ==
    ASSUME NEW items \in Seq(Items), NEW n \in Nat \ {0},
           NEW a \in Batches(items, n), NEW b \in Batches(items, n), Precedes(items, a, b)
    PROVE  a # b /\ ~ Precedes(items, b, a)
<1>1. a.index \in Nat /\ b.index \in Nat
    BY BatchHasLine
<1>2. Group(items, a.market) \in SUBSET Nat /\ Group(items, b.market) \in SUBSET Nat
    BY BatchHasLine
<1>3. CASE a.market = b.market
    <2>1. a.index < b.index
        BY <1>3 DEF Precedes
    <2> QED BY <1>1, <1>3, <2>1 DEF Precedes
<1>4. CASE a.market # b.market
    <2>1. PICK i \in Group(items, a.market) : \A j \in Group(items, b.market) : i < j
        BY <1>4 DEF Precedes
    <2>2. ASSUME NEW j \in Group(items, b.market), \A k \in Group(items, a.market) : j < k
          PROVE  FALSE
        <3>1. i < j /\ j < i
            BY <2>1, <2>2
        <3> QED BY <1>2, <3>1
    <2>3. ~ Precedes(items, b, a)
        BY <1>4, <2>2 DEF Precedes
    <2> QED BY <1>4, <2>3
<1> QED BY <1>3, <1>4

LEMMA InTurn ==
    ASSUME NEW items \in Seq(Items), NEW n \in Nat \ {0},
           NEW a \in Batches(items, n), NEW b \in Batches(items, n), NEW c \in Batches(items, n),
           Precedes(items, a, b), Precedes(items, b, c)
    PROVE  Precedes(items, a, c)
<1>1. a.index \in Nat /\ b.index \in Nat /\ c.index \in Nat
    BY BatchHasLine
<1>2. /\ Group(items, a.market) \in SUBSET Nat /\ Group(items, b.market) \in SUBSET Nat
      /\ Group(items, c.market) \in SUBSET Nat /\ Group(items, b.market) # {}
    BY BatchHasLine
<1>3. CASE a.market = b.market /\ b.market = c.market
    <2>1. a.index < b.index /\ b.index < c.index
        BY <1>3 DEF Precedes
    <2>2. a.index < c.index
        BY <1>1, <2>1
    <2> QED BY <1>3, <2>2 DEF Precedes
<1>4. CASE a.market = b.market /\ b.market # c.market
    <2>1. a.market # c.market /\ \E i \in Group(items, a.market) : \A j \in Group(items, c.market) : i < j
        BY <1>4 DEF Precedes
    <2> QED BY <2>1 DEF Precedes
<1>5. CASE a.market # b.market /\ b.market = c.market
    <2>1. a.market # c.market /\ \E i \in Group(items, a.market) : \A j \in Group(items, c.market) : i < j
        BY <1>5 DEF Precedes
    <2> QED BY <2>1 DEF Precedes
<1>6. CASE a.market # b.market /\ b.market # c.market
    <2>1. PICK i \in Group(items, a.market) : \A j \in Group(items, b.market) : i < j
        BY <1>6 DEF Precedes
    <2>2. PICK j \in Group(items, b.market) : \A k \in Group(items, c.market) : j < k
        BY <1>6 DEF Precedes
    <2>3. i \in Nat /\ j \in Nat /\ i < j
        BY <1>2, <2>1, <2>2
    <2>4. \A k \in Group(items, c.market) : i < k
        <3> TAKE k \in Group(items, c.market)
        <3>1. k \in Nat /\ j < k
            BY <1>2, <2>2
        <3> QED BY <2>3, <3>1
    <2>5. a.market # c.market
        BY <2>3, <2>4
    <2> QED BY <2>4, <2>5 DEF Precedes
<1> QED BY <1>3, <1>4, <1>5, <1>6

-----------------------------------------------------------------------------
(***************************************************************************)
(* Sending                                                                 *)
(***************************************************************************)
\* What the retry queue lets through has neither been lost nor been tried too often.
LEMMA RetriesAreKnown ==
    ASSUME ShipmentsTypeOK, NEW b, MaySend(b)
    PROVE  ~ Lost(b) /\ Tries(b) + 1 \in 1..MaxTries
<1>1. CASE b \in DOMAIN failures
    <2>1. failures[b] \in Entry
        BY <1>1 DEF ShipmentsTypeOK
    <2>2. PICK entry \in Entry : entry = failures[b]
        BY <2>1
    <2>3. Disposition(entry) = "retry_ready"
        BY <1>1, <2>2 DEF MaySend
    <2>4. ~ IsManualFailure(entry.class) /\ ~ (entry.attempts >= MaxTries)
        BY <2>3 DEF Disposition
    <2>5. entry.class # "ambiguous_write" /\ entry.attempts \in 1..MaxTries
        BY <2>4 DEF IsManualFailure, ManualClasses, Entry
    <2>6. entry.attempts + 1 \in 1..MaxTries
        BY <2>4, <2>5, ShipmentsAssumption
    <2> QED BY <1>1, <2>2, <2>5, <2>6 DEF Lost, Tries
<1>2. CASE b \notin DOMAIN failures
    BY <1>2, ShipmentsAssumption DEF Lost, Tries
<1> QED BY <1>1, <1>2

LEMMA PlannedIsFresh ==
    ASSUME ShipmentsInv, NEW b \in left
    PROVE  /\ b \in Batch /\ ItemsOf(b) \subseteq Items /\ plan.shown # None
           /\ mode = "keys" \/ edits = 0 => b \notin done
           /\ edits = 0 => b \in All /\ ValidImport(payload)
<1>1. b \in Batch /\ ItemsOf(b) \subseteq Items
    <2>1. b \in Batch
        BY DEF ShipmentsInv, ShipmentsTypeOK
    <2>2. b.items \in SUBSET [place : Nat, item : Items]
        BY <2>1 DEF Batch
    <2> QED BY <2>1, <2>2 DEF ItemsOf
<1>2. plan.shown # None /\ b \in Batches(plan.shown.payload, plan.shown.size)
    BY DEF ShipmentsInv, LeftIsPlanned
<1>3. ValidImport(plan.shown.payload)
    BY <1>2 DEF ShipmentsInv, Faithful
<1>4. edits = 0 => plan.shown.payload = payload /\ plan.shown.size = size
    BY <1>2 DEF ShipmentsInv, OnceEach, SameImport
<1>5. mode = "keys" \/ edits = 0 => b \notin done
    BY DEF ShipmentsInv, Checkpoints
<1> QED BY <1>1, <1>2, <1>3, <1>4, <1>5 DEF All

LEMMA NotTakenYet ==
    ASSUME ShipmentsInv, edits = 0, NEW b \in left, MaySend(b), NEW item \in ItemsOf(b)
    PROVE  accepted[item] = 0
<1>1. b \in All /\ b \notin done /\ ~ Lost(b)
    BY PlannedIsFresh, RetriesAreKnown DEF ShipmentsInv
<1>2. TakenOnce(b)
    BY <1>1 DEF ShipmentsInv, OnceEach
<1> QED BY <1>1, <1>2 DEF TakenOnce

\* With the last key alone, what comes before a batch that is sent is done.
LEMMA NextInOrder ==
    ASSUME ShipmentsInv, edits = 0, mode = "last", NEW b \in left, Sends(b),
           NEW a \in All, Comes(a, b)
    PROVE  a \in done
<1>1. left = All \ done
    BY DEF ShipmentsInv, InOrder
<1>2. plan.shown.payload = payload
    BY PlannedIsFresh DEF ShipmentsInv, OnceEach, SameImport
<1>3. a \notin left
    BY <1>2 DEF Sends, Comes
<1> QED BY <1>1, <1>3

LEMMA RecordedInOrder ==
    ASSUME ShipmentsInv, edits = 0, mode = "last", NEW b \in All, b \notin done,
           \A a \in All : Comes(a, b) => a \in done,
           Recorded(b)
    PROVE  done' = {c \in All : c = b \/ Comes(c, b)}
<1>1. payload \in Seq(Items) /\ size \in Nat \ {0}
    BY ShipmentsAssumption DEF ShipmentsInv, ShipmentsTypeOK
<1>2. done = IF last = None THEN {} ELSE {c \in All : c = last \/ Comes(c, last)}
    BY DEF ShipmentsInv, InOrder
<1>3. last \in done \union {None}
    BY DEF ShipmentsInv, ShipmentsTypeOK
<1>4. done' = done \union {b}
    BY DEF Recorded
<1>5. ASSUME NEW c \in done
      PROVE  c \in All /\ Comes(c, b)
    <2>1. last # None /\ c \in All /\ (c = last \/ Comes(c, last)) /\ last \in All
        BY <1>2, <1>3
    <2>2. c # b
        OBVIOUS
    <2>3. ~ Comes(b, c)
        <3>1. SUFFICES ASSUME Comes(b, c) PROVE FALSE
            OBVIOUS
        <3>2. Comes(b, last)
            BY <1>1, <2>1, <3>1, InTurn DEF All, Comes
        <3> QED BY <1>2, <2>1, <3>2
    <2> QED BY <1>1, <2>1, <2>2, <2>3, OneComesFirst DEF All, Comes
<1> QED BY <1>4, <1>5

\* What a marketplace that takes some lines has taken then
LEMMA TakenByThen ==
    ASSUME accepted \in [Items -> 0..2], NEW S \in SUBSET Items, Accepts(S)
    PROVE  /\ accepted' \in [Items -> 0..2]
           /\ \A item \in Items : accepted[item] > 0 => accepted'[item] > 0
           /\ \A item \in Items \ S : accepted'[item] = accepted[item]
           /\ \A item \in S : accepted'[item] > 0 /\ (accepted[item] = 0 => accepted'[item] = 1)
<1>1. accepted' = [item \in Items |->
        IF item \in S /\ accepted[item] < 2 THEN accepted[item] + 1 ELSE accepted[item]]
    BY DEF Accepts
<1>2. \A item \in Items : accepted[item] \in {0, 1, 2}
    OBVIOUS
<1>3. \A item \in Items :
        accepted'[item] = IF item \in S /\ accepted[item] < 2 THEN accepted[item] + 1 ELSE accepted[item]
    BY <1>1
<1>4. \A item \in Items : accepted'[item] \in 0..2
    BY <1>2, <1>3
<1> QED BY <1>1, <1>2, <1>3, <1>4

\* Once the lines of a batch were taken that were not before, every batch is still
\* taken once.
LEMMA OthersAreNotTaken ==
    ASSUME ShipmentsInv, edits = 0, NEW b \in All, ValidImport(payload), Accepts(ItemsOf(b)),
           NEW c \in All, c # b, NEW item \in ItemsOf(c)
    PROVE  accepted'[item] = accepted[item]
<1>1. payload \in Seq(Items) /\ size \in Nat \ {0}
    BY ShipmentsAssumption DEF ShipmentsInv, ShipmentsTypeOK
<1>2. ItemsOf(b) \in SUBSET Items /\ item \in Items
    BY <1>1, BatchesAreBatches DEF All
<1>3. item \notin ItemsOf(b)
    BY <1>1, BatchesAreApart DEF All
<1>4. accepted \in [Items -> 0..2]
    BY DEF ShipmentsInv, ShipmentsTypeOK
<1> QED BY <1>2, <1>3, <1>4, TakenByThen

-----------------------------------------------------------------------------
(***************************************************************************)
(* The seller's steps                                                      *)
(***************************************************************************)
LEMMA EditStep ==
    ASSUME ShipmentsInv, Edit
    PROVE  ShipmentsInv'
<1>1. payload \in Seq(Items) /\ size \in CallSizes /\ edits \in 0..MaxEdits
    BY DEF ShipmentsInv, ShipmentsTypeOK
<1>2. payload' \in Seq(Items) /\ size' \in CallSizes /\ Edited
    <2>1. CASE \E i \in DOMAIN payload, t \in Trackings : Retype(i, t)
        <3>1. PICK i \in DOMAIN payload, t \in Trackings : Retype(i, t)
            BY <2>1
        <3>2. payload[i] \in Items
            BY <1>1, <3>1
        <3>3. PICK item : item = [payload[i] EXCEPT !.tracking = t]
            OBVIOUS
        <3>4. item \in Items
            BY <3>2, <3>3 DEF Items
        <3>5. payload' = [payload EXCEPT ![i] = item] /\ size' = size /\ Edited
            BY <3>1, <3>3 DEF Retype
        <3> QED BY <1>1, <3>4, <3>5
    <2>2. CASE \E item \in Items : Append1(item)
        BY <1>1, <2>2 DEF Append1
    <2>3. CASE \E i \in DOMAIN payload : Withdraw(i)
        <3>1. PICK i \in DOMAIN payload : Withdraw(i)
            BY <2>3
        <3>2. i \in 1..Len(payload)
            BY <1>1
        <3>3. SubSeq(payload, 1, i - 1) \in Seq(Items)
            BY <1>1, <3>2, SubSeqProperties
        <3>4. SubSeq(payload, i + 1, Len(payload)) \in Seq(Items)
            BY <1>1, <3>2, SubSeqProperties
        <3>5. SubSeq(payload, 1, i - 1) \o SubSeq(payload, i + 1, Len(payload)) \in Seq(Items)
            BY <3>3, <3>4, ConcatProperties
        <3> QED BY <1>1, <3>1, <3>5 DEF Withdraw
    <2>4. CASE \E n \in CallSizes : Resize(n)
        BY <1>1, <2>4 DEF Resize
    <2> QED BY <2>1, <2>2, <2>3, <2>4 DEF Edit
<1>3. /\ edits' \in 0..MaxEdits /\ edits' # 0
      /\ shown' = shown /\ left' = left /\ plan' = plan /\ done' = done /\ last' = last
      /\ failures' = failures /\ mode' = mode /\ accepted' = accepted
    BY <1>1, <1>2, ShipmentsAssumption DEF Edited, planVars, checkpointVars
<1>4. ShipmentsTypeOK'
    BY <1>2, <1>3 DEF ShipmentsInv, ShipmentsTypeOK
<1>5. Faithful(shown)' /\ Faithful(plan.shown)'
    BY <1>3 DEF ShipmentsInv, Faithful
<1>6. Checkpoints' /\ LeftIsPlanned'
    BY <1>3 DEF ShipmentsInv, Checkpoints, LeftIsPlanned
<1> QED BY <1>3, <1>4, <1>5, <1>6 DEF ShipmentsInv

LEMMA PreviewStep ==
    ASSUME ShipmentsInv, Preview
    PROVE  ShipmentsInv'
<1>1. payload \in Seq(Items) /\ size \in CallSizes /\ ValidImport(payload)
    BY DEF ShipmentsInv, ShipmentsTypeOK, Preview
<1>2. PICK p : p = [payload |-> payload, size |-> size, confirmationKey |-> ConfirmationKey(payload, size)]
    OBVIOUS
<1>3. /\ shown' = p /\ payload' = payload /\ size' = size /\ edits' = edits
      /\ left' = left /\ plan' = plan /\ done' = done /\ last' = last
      /\ failures' = failures /\ mode' = mode /\ accepted' = accepted
    BY <1>2 DEF Preview, importVars, checkpointVars
<1>4. p.payload = payload /\ p.size = size /\ p.confirmationKey = ConfirmationKey(payload, size)
    BY <1>2
<1>5. ShipmentsTypeOK'
    BY <1>1, <1>3, <1>4 DEF ShipmentsInv, ShipmentsTypeOK
<1>6. Faithful(p)
    BY <1>1, <1>4 DEF Faithful
<1>7. Faithful(shown)' /\ Faithful(plan.shown)'
    BY <1>3, <1>6 DEF ShipmentsInv, Faithful
<1>8. Checkpoints' /\ LeftIsPlanned'
    BY <1>3 DEF ShipmentsInv, Checkpoints, LeftIsPlanned
<1>9. edits = 0 => OnceEach'
    BY <1>3, <1>4 DEF ShipmentsInv, OnceEach, SameImport, All, TakenOnce, Lost
<1>10. edits = 0 /\ mode = "last" => InOrder'
    BY <1>3 DEF ShipmentsInv, InOrder, All, Comes
<1> QED BY <1>3, <1>5, <1>7, <1>8, <1>9, <1>10 DEF ShipmentsInv

\* What pendingBatchesFor leaves out is done.
LEMMA PendingIsNotDone ==
    ASSUME ShipmentsInv, Given \subseteq All, mode = "keys" \/ edits = 0
    PROVE  Pending(payload, size) = All \ done
<1>1. payload \in Seq(Items) /\ size \in Nat \ {0}
    BY ShipmentsAssumption DEF ShipmentsInv, ShipmentsTypeOK
<1>2. CASE mode = "keys"
    BY <1>2 DEF Pending, Given, All
<1>3. CASE mode = "last" /\ last = None
    <2>1. edits = 0 /\ done = {}
        BY <1>3 DEF ShipmentsInv, InOrder
    <2> QED BY <1>3, <2>1 DEF Pending, Given, All
<1>4. CASE mode = "last" /\ last # None
    <2>1. last \in All /\ done = {c \in All : c = last \/ Comes(c, last)}
        BY <1>4 DEF ShipmentsInv, InOrder, Given
    <2>2. Pending(payload, size) = {c \in All : Comes(last, c)}
        BY <1>4 DEF Pending, Resume, All, Comes
    <2>3. \A c \in All : Comes(last, c) <=> ~ (c = last \/ Comes(c, last))
        BY <1>1, <2>1, OneComesFirst, NotBoth DEF All, Comes
    <2> QED BY <2>1, <2>2, <2>3
<1> QED BY <1>2, <1>3, <1>4 DEF ShipmentsInv, ShipmentsTypeOK

LEMMA BuildStep ==
    ASSUME ShipmentsInv, Build
    PROVE  ShipmentsInv'
<1>1. payload \in Seq(Items) /\ size \in Nat \ {0} /\ size \in CallSizes
    BY ShipmentsAssumption DEF ShipmentsInv, ShipmentsTypeOK
<1>2. PICK p, pending, skipped : p = shown /\ pending = Pending(payload, size) /\ skipped = All \ pending
    OBVIOUS
<1>3. /\ shown # None /\ ValidImport(payload) /\ shown.confirmationKey = ConfirmationKey(payload, size)
      /\ Given \subseteq All
      /\ left' = pending /\ plan' = [shown |-> p, skipped |-> skipped]
      /\ payload' = payload /\ size' = size /\ edits' = edits /\ shown' = shown
      /\ done' = done /\ last' = last
      /\ failures' = failures /\ mode' = mode /\ accepted' = accepted
    BY <1>2 DEF Build, importVars, checkpointVars, All
<1>4. plan'.shown = p /\ plan'.skipped = skipped
    BY <1>3
<1>5. pending \subseteq All
    BY <1>2 DEF Pending, Resume, All
<1>6. Batches(p.payload, p.size) = All
    <2>1. p.confirmationKey = ConfirmationKey(p.payload, p.size)
        BY <1>2, <1>3 DEF ShipmentsInv, Faithful
    <2>2. ConfirmationKey(p.payload, p.size) = ConfirmationKey(payload, size)
        BY <1>2, <1>3, <2>1
    <2>3. ConfirmationKey(p.payload, p.size).batches = Batches(p.payload, p.size)
          /\ ConfirmationKey(payload, size).batches = Batches(payload, size)
        BY DEF ConfirmationKey
    <2> QED BY <2>2, <2>3 DEF All
<1>7. ShipmentsTypeOK'
    <2>1. \A b \in pending \union skipped : b \in Batch /\ ItemsOf(b) # {}
        BY <1>1, <1>2, <1>5, BatchesAreBatches DEF All
    <2> QED BY <1>3, <1>4, <2>1 DEF ShipmentsInv, ShipmentsTypeOK
<1>8. Faithful(shown)' /\ Faithful(plan.shown)'
    BY <1>2, <1>3, <1>4 DEF ShipmentsInv, Faithful
<1>9. mode = "keys" \/ edits = 0 => pending = All \ done
    BY <1>2, <1>3, PendingIsNotDone
<1>10. Checkpoints'
    <2>1. mode = "keys" \/ edits = 0 => skipped \subseteq done /\ pending \intersect done = {}
        BY <1>2, <1>9
    <2> QED BY <1>3, <1>4, <2>1 DEF ShipmentsInv, Checkpoints
<1>11. LeftIsPlanned'
    BY <1>2, <1>3, <1>4, <1>5, <1>6 DEF LeftIsPlanned
<1>12. edits = 0 => OnceEach'
    BY <1>2, <1>3, <1>4 DEF ShipmentsInv, OnceEach, SameImport, All, TakenOnce, Lost
<1>13. edits = 0 /\ mode = "last" => InOrder'
    BY <1>3, <1>9 DEF ShipmentsInv, InOrder, All, Comes
<1> QED BY <1>3, <1>7, <1>8, <1>10, <1>11, <1>12, <1>13 DEF ShipmentsInv

-----------------------------------------------------------------------------
(***************************************************************************)
(* The marketplace's steps                                                 *)
(***************************************************************************)
\* Taken lines stay taken.
LEMMA DoneStaysTaken ==
    ASSUME ShipmentsInv, NEW b \in left, accepted' = accepted \/ Accepts(ItemsOf(b))
    PROVE  /\ accepted' \in [Items -> 0..2]
           /\ \A item \in Items : accepted[item] > 0 => accepted'[item] > 0
           /\ \A c \in done : \A item \in ItemsOf(c) : accepted'[item] > 0
<1>1. accepted \in [Items -> 0..2] /\ ItemsOf(b) \in SUBSET Items /\ done \subseteq Batch
    BY PlannedIsFresh DEF ShipmentsInv, ShipmentsTypeOK
<1>2. accepted' \in [Items -> 0..2] /\ \A item \in Items : accepted[item] > 0 => accepted'[item] > 0
    BY <1>1, TakenByThen
<1>3. ASSUME NEW c \in done, NEW item \in ItemsOf(c)
      PROVE  item \in Items
    <2>1. c.items \in SUBSET [place : Nat, item : Items]
        BY <1>1 DEF Batch
    <2> QED BY <2>1 DEF ItemsOf
<1>4. \A c \in done : \A item \in ItemsOf(c) : accepted[item] > 0
    BY DEF ShipmentsInv, Checkpoints
<1> QED BY <1>2, <1>3, <1>4

LEMMA SucceedsStep ==
    ASSUME ShipmentsInv, NEW b \in left, Succeeds(b)
    PROVE  ShipmentsInv'
<1>1. /\ Sends(b) /\ MaySend(b) /\ Accepts(ItemsOf(b)) /\ Recorded(b)
      /\ failures' = Without(b) /\ left' = left \ {b}
      /\ payload' = payload /\ size' = size /\ edits' = edits /\ shown' = shown /\ plan' = plan /\ mode' = mode
    BY DEF Succeeds, Sends, importVars
<1>2. done' = done \union {b} /\ last' = b /\ b \in Batch /\ ItemsOf(b) \in SUBSET Items
    BY <1>1, PlannedIsFresh DEF Recorded
<1>3. /\ accepted' \in [Items -> 0..2]
      /\ \A c \in done : \A item \in ItemsOf(c) : accepted'[item] > 0
    BY <1>1, DoneStaysTaken
<1>4. accepted \in [Items -> 0..2]
    BY DEF ShipmentsInv, ShipmentsTypeOK
<1>5. \A item \in ItemsOf(b) : accepted'[item] > 0 /\ (accepted[item] = 0 => accepted'[item] = 1)
    BY <1>1, <1>2, <1>4, TakenByThen
<1>6. /\ DOMAIN failures' = DOMAIN failures \ {b}
      /\ \A c \in DOMAIN failures' : failures'[c] = failures[c]
      /\ failures' = [c \in DOMAIN failures \ {b} |-> failures[c]]
    BY <1>1 DEF Without
<1>7. ShipmentsTypeOK'
    <2>1. failures' \in [DOMAIN failures' -> Entry]
        BY <1>6 DEF ShipmentsInv, ShipmentsTypeOK
    <2>2. mode' = "keys" => DOMAIN failures' \intersect done' = {}
        BY <1>1, <1>2, <1>6 DEF ShipmentsInv, ShipmentsTypeOK
    <2>3. done' \subseteq Batch /\ last' \in done' \union {None}
        BY <1>2 DEF ShipmentsInv, ShipmentsTypeOK
    <2>4. \A c \in left' \union plan'.skipped : c \in Batch /\ ItemsOf(c) # {}
        BY <1>1 DEF ShipmentsInv, ShipmentsTypeOK
    <2>5. DOMAIN failures' \subseteq Batch
        BY <1>6 DEF ShipmentsInv, ShipmentsTypeOK
    <2> QED BY <1>1, <1>3, <2>1, <2>2, <2>3, <2>4, <2>5 DEF ShipmentsInv, ShipmentsTypeOK
<1>8. Faithful(shown)' /\ Faithful(plan.shown)' /\ LeftIsPlanned'
    BY <1>1 DEF ShipmentsInv, Faithful, LeftIsPlanned
<1>9. Checkpoints'
    <2>1. \A c \in done' : \A item \in ItemsOf(c) : accepted'[item] > 0
        BY <1>2, <1>3, <1>5
    <2>2. mode' = "keys" \/ edits' = 0 => plan'.skipped \subseteq done' /\ left' \intersect done' = {}
        BY <1>1, <1>2 DEF ShipmentsInv, Checkpoints
    <2> QED BY <2>1, <2>2 DEF Checkpoints
<1>10. ASSUME edits = 0
       PROVE  OnceEach'
    <2>1. b \in All /\ ValidImport(payload) /\ b \notin done
        BY <1>10, PlannedIsFresh
    <2>2. ASSUME NEW c \in All
          PROVE  TakenOnce(c)'
        <3>1. CASE c = b
            <4>1. \A item \in ItemsOf(b) : accepted'[item] = 1
                BY <1>1, <1>5, <1>10, NotTakenYet
            <4> QED BY <1>2, <3>1, <4>1 DEF TakenOnce
        <3>2. CASE c # b
            <4>1. \A item \in ItemsOf(c) : accepted'[item] = accepted[item]
                BY <1>1, <1>10, <2>1, <3>2, OthersAreNotTaken
            <4>2. TakenOnce(c)
                BY <1>10 DEF ShipmentsInv, OnceEach
            <4>3. Lost(c) => c \in DOMAIN failures' /\ failures'[c].class = "ambiguous_write"
                BY <1>6, <3>2 DEF Lost
            <4> QED BY <1>2, <4>1, <4>2, <4>3 DEF TakenOnce, Lost
        <3> QED BY <3>1, <3>2
    <2>3. ASSUME NEW item \in Items, \A c \in All : item \notin ItemsOf(c)
          PROVE  accepted'[item] = 0
        <3>1. item \notin ItemsOf(b) /\ accepted[item] = 0
            BY <1>10, <2>1, <2>3 DEF ShipmentsInv, OnceEach
        <3> QED BY <1>1, <1>2, <1>4, <3>1, TakenByThen
    <2>4. All' = All
        BY <1>1 DEF All
    <2>5. done' \union DOMAIN failures' \subseteq All'
        BY <1>2, <1>6, <1>10, <2>1, <2>4 DEF ShipmentsInv, OnceEach
    <2>6. SameImport(shown)' /\ SameImport(plan.shown)'
        BY <1>1, <1>10 DEF ShipmentsInv, OnceEach, SameImport
    <2> QED BY <2>2, <2>3, <2>4, <2>5, <2>6 DEF OnceEach
<1>11. ASSUME edits = 0, mode = "last"
       PROVE  InOrder'
    <2>1. b \in All /\ b \notin done /\ \A a \in All : Comes(a, b) => a \in done
        BY <1>1, <1>11, PlannedIsFresh, NextInOrder
    <2>2. done' = {c \in All : c = b \/ Comes(c, b)}
        BY <1>1, <1>11, <2>1, RecordedInOrder
    <2>3. b # None
        BY <1>2, ShipmentsAssumption
    <2>4. left' # {} => left' = All \ done'
        BY <1>1, <1>2, <1>11 DEF ShipmentsInv, InOrder
    <2>5. \A c \in DOMAIN failures' : c \notin done' /\ \A a \in All : Comes(a, c) => a \in done'
        BY <1>2, <1>6, <1>11 DEF ShipmentsInv, InOrder
    <2> QED BY <1>1, <1>2, <2>2, <2>3, <2>4, <2>5 DEF InOrder, All, Comes
<1> QED BY <1>1, <1>7, <1>8, <1>9, <1>10, <1>11 DEF ShipmentsInv

LEMMA FailedStep ==
    ASSUME ShipmentsInv, NEW b \in left, Sends(b),
           NEW class \in RetriedClasses \union ManualClasses, NEW waits \in BOOLEAN,
           Failed(b, class, waits),
           accepted' = accepted \/ (class = "ambiguous_write" /\ Accepts(ItemsOf(b)))
    PROVE  ShipmentsInv'
<1>1. /\ MaySend(b)
      /\ left' = IF mode = "last" THEN {} ELSE left \ {b}
      /\ payload' = payload /\ size' = size /\ edits' = edits /\ shown' = shown /\ plan' = plan /\ mode' = mode
      /\ done' = done /\ last' = last
    BY DEF Failed, Sends, importVars, checkpointVars
<1>2. b \in Batch /\ ItemsOf(b) \in SUBSET Items /\ (mode = "keys" \/ edits = 0 => b \notin done)
    BY PlannedIsFresh
<1>3. /\ accepted' \in [Items -> 0..2]
      /\ \A c \in done : \A item \in ItemsOf(c) : accepted'[item] > 0
    BY DoneStaysTaken
<1>4. accepted \in [Items -> 0..2]
    BY DEF ShipmentsInv, ShipmentsTypeOK
<1>5. PICK entry : entry = [class |-> class, attempts |-> Tries(b) + 1, waits |-> waits]
    OBVIOUS
<1>6. entry \in Entry /\ entry.class = class
    BY <1>1, <1>5, RetriesAreKnown DEF ShipmentsInv, Entry
<1>7. failures' = [c \in DOMAIN failures \union {b} |-> IF c = b THEN entry ELSE failures[c]]
    BY <1>5 DEF Failed
<1>8. /\ DOMAIN failures' = DOMAIN failures \union {b} /\ failures'[b] = entry
      /\ \A c \in DOMAIN failures : c # b => failures'[c] = failures[c]
    BY <1>7
<1>9. left' \subseteq left
    BY <1>1
<1>10. ShipmentsTypeOK'
    <2>1. failures \in [DOMAIN failures -> Entry]
        BY DEF ShipmentsInv, ShipmentsTypeOK
    <2>2. failures' \in [DOMAIN failures' -> Entry]
        BY <1>6, <1>7, <1>8, <2>1
    <2>3. mode' = "keys" => DOMAIN failures' \intersect done' = {}
        BY <1>1, <1>2, <1>8 DEF ShipmentsInv, ShipmentsTypeOK
    <2>4. \A c \in left' \union plan'.skipped : c \in Batch /\ ItemsOf(c) # {}
        BY <1>1, <1>9 DEF ShipmentsInv, ShipmentsTypeOK
    <2>5. DOMAIN failures' \subseteq Batch
        BY <1>2, <1>8 DEF ShipmentsInv, ShipmentsTypeOK
    <2> QED BY <1>1, <1>3, <2>2, <2>3, <2>4, <2>5 DEF ShipmentsInv, ShipmentsTypeOK
<1>11. Faithful(shown)' /\ Faithful(plan.shown)' /\ LeftIsPlanned'
    BY <1>1, <1>9 DEF ShipmentsInv, Faithful, LeftIsPlanned
<1>12. Checkpoints'
    BY <1>1, <1>3, <1>9 DEF ShipmentsInv, Checkpoints
<1>13. ASSUME edits = 0
       PROVE  OnceEach'
    <2>1. b \in All /\ ValidImport(payload) /\ b \notin done
        BY <1>13, PlannedIsFresh
    <2>2. ASSUME NEW c \in All
          PROVE  TakenOnce(c)'
        <3>1. CASE c = b
            <4>1. \A item \in ItemsOf(b) : accepted[item] = 0
                BY <1>1, <1>13, NotTakenYet
            <4>2. CASE accepted' = accepted
                BY <3>1, <4>1, <4>2 DEF TakenOnce
            <4>3. CASE class = "ambiguous_write" /\ Accepts(ItemsOf(b))
                <5>1. \A item \in ItemsOf(b) : accepted'[item] = 1
                    BY <1>2, <1>4, <4>1, <4>3, TakenByThen
                <5>2. b \in DOMAIN failures' /\ failures'[b].class = "ambiguous_write"
                    BY <1>6, <1>8, <4>3
                <5> QED BY <3>1, <5>1, <5>2 DEF TakenOnce, Lost
            <4> QED BY <4>2, <4>3
        <3>2. CASE c # b
            <4>1. \A item \in ItemsOf(c) : accepted'[item] = accepted[item]
                BY <1>13, <2>1, <3>2, OthersAreNotTaken
            <4>2. TakenOnce(c)
                BY <1>13 DEF ShipmentsInv, OnceEach
            <4>3. Lost(c) => c \in DOMAIN failures' /\ failures'[c].class = "ambiguous_write"
                BY <1>8, <3>2 DEF Lost
            <4> QED BY <1>1, <4>1, <4>2, <4>3 DEF TakenOnce, Lost
        <3> QED BY <3>1, <3>2
    <2>3. ASSUME NEW item \in Items, \A c \in All : item \notin ItemsOf(c)
          PROVE  accepted'[item] = 0
        <3>1. item \notin ItemsOf(b) /\ accepted[item] = 0
            BY <1>13, <2>1, <2>3 DEF ShipmentsInv, OnceEach
        <3> QED BY <1>2, <1>4, <3>1, TakenByThen
    <2>4. All' = All
        BY <1>1 DEF All
    <2>5. done' \union DOMAIN failures' \subseteq All'
        BY <1>1, <1>8, <1>13, <2>1, <2>4 DEF ShipmentsInv, OnceEach
    <2>6. SameImport(shown)' /\ SameImport(plan.shown)'
        BY <1>1, <1>13 DEF ShipmentsInv, OnceEach, SameImport
    <2> QED BY <2>2, <2>3, <2>4, <2>5, <2>6 DEF OnceEach
<1>14. ASSUME edits = 0, mode = "last"
       PROVE  InOrder'
    <2>1. b \in All /\ b \notin done /\ \A a \in All : Comes(a, b) => a \in done
        BY <1>14, PlannedIsFresh, NextInOrder
    <2>2. \A c \in DOMAIN failures' : c \notin done' /\ \A a \in All : Comes(a, c) => a \in done'
        BY <1>1, <1>8, <1>14, <2>1 DEF ShipmentsInv, InOrder
    <2> QED BY <1>1, <1>14, <2>2 DEF ShipmentsInv, InOrder, All, Comes
<1> QED BY <1>1, <1>10, <1>11, <1>12, <1>13, <1>14 DEF ShipmentsInv

-----------------------------------------------------------------------------
(***************************************************************************)
(* The retry queue's steps                                                 *)
(***************************************************************************)
LEMMA DueStep ==
    ASSUME ShipmentsInv, NEW b \in DOMAIN failures, Due(b)
    PROVE  ShipmentsInv'
<1>1. /\ failures' = [failures EXCEPT ![b].waits = FALSE]
      /\ payload' = payload /\ size' = size /\ edits' = edits /\ shown' = shown /\ left' = left
      /\ plan' = plan /\ mode' = mode /\ done' = done /\ last' = last /\ accepted' = accepted
    BY DEF Due, importVars, planVars, checkpointVars
<1>2. failures \in [DOMAIN failures -> Entry] /\ failures[b] \in Entry
    BY DEF ShipmentsInv, ShipmentsTypeOK
<1>3. PICK entry : entry = [failures[b] EXCEPT !.waits = FALSE]
    OBVIOUS
<1>4. entry \in Entry /\ entry.class = failures[b].class
    BY <1>2, <1>3 DEF Entry
<1>5. failures' = [failures EXCEPT ![b] = entry]
    BY <1>1, <1>3
<1>6. /\ DOMAIN failures' = DOMAIN failures /\ failures' \in [DOMAIN failures -> Entry]
      /\ \A c \in DOMAIN failures : failures'[c].class = failures[c].class
    BY <1>2, <1>4, <1>5
<1>7. ShipmentsTypeOK'
    BY <1>1, <1>6 DEF ShipmentsInv, ShipmentsTypeOK
<1>8. Faithful(shown)' /\ Faithful(plan.shown)' /\ LeftIsPlanned' /\ Checkpoints'
    BY <1>1 DEF ShipmentsInv, Faithful, LeftIsPlanned, Checkpoints
<1>9. ASSUME NEW c \in All, TakenOnce(c) PROVE TakenOnce(c)'
    BY <1>1, <1>6, <1>9 DEF TakenOnce, Lost
<1>10. edits = 0 => OnceEach'
    BY <1>1, <1>6, <1>9 DEF ShipmentsInv, OnceEach, SameImport, All
<1>11. edits = 0 /\ mode = "last" => InOrder'
    BY <1>1, <1>6 DEF ShipmentsInv, InOrder, All, Comes
<1> QED BY <1>1, <1>7, <1>8, <1>10, <1>11 DEF ShipmentsInv

LEMMA ReviewStep ==
    ASSUME ShipmentsInv, NEW b \in DOMAIN failures, Review(b)
    PROVE  ShipmentsInv'
<1> DEFINE taken == \A item \in ItemsOf(b) : accepted[item] > 0
<1>1. /\ failures' = Without(b)
      /\ payload' = payload /\ size' = size /\ edits' = edits /\ shown' = shown
      /\ plan' = plan /\ mode' = mode /\ accepted' = accepted
      /\ taken => Recorded(b) /\ left' = left \ {b}
      /\ ~ taken => done' = done /\ last' = last /\ left' = left
    BY DEF Review, importVars, checkpointVars
<1> HIDE DEF taken
<1>2. /\ DOMAIN failures' = DOMAIN failures \ {b}
      /\ \A c \in DOMAIN failures' : failures'[c] = failures[c]
      /\ failures' = [c \in DOMAIN failures \ {b} |-> failures[c]]
    BY <1>1 DEF Without
<1>3. /\ taken => done' = done \union {b} /\ last' = b
      /\ done \subseteq done' /\ done' \subseteq done \union {b} /\ left' \subseteq left
    BY <1>1 DEF Recorded
<1>4. DOMAIN failures \subseteq Batch
    BY DEF ShipmentsInv, ShipmentsTypeOK
<1>5. ShipmentsTypeOK'
    <2>1. failures' \in [DOMAIN failures' -> Entry]
        BY <1>2 DEF ShipmentsInv, ShipmentsTypeOK
    <2>2. mode' = "keys" => DOMAIN failures' \intersect done' = {}
        BY <1>1, <1>2, <1>3 DEF ShipmentsInv, ShipmentsTypeOK
    <2>3. done' \subseteq Batch /\ last' \in done' \union {None}
        BY <1>1, <1>3, <1>4 DEF ShipmentsInv, ShipmentsTypeOK
    <2>4. \A c \in left' \union plan'.skipped : c \in Batch /\ ItemsOf(c) # {}
        BY <1>1, <1>3 DEF ShipmentsInv, ShipmentsTypeOK
    <2>5. DOMAIN failures' \subseteq Batch
        BY <1>2, <1>4
    <2> QED BY <1>1, <2>1, <2>2, <2>3, <2>4, <2>5 DEF ShipmentsInv, ShipmentsTypeOK
<1>6. Faithful(shown)' /\ Faithful(plan.shown)' /\ LeftIsPlanned'
    BY <1>1, <1>3 DEF ShipmentsInv, Faithful, LeftIsPlanned
<1>7. Checkpoints'
    <2>1. \A c \in done' : \A item \in ItemsOf(c) : accepted'[item] > 0
        BY <1>1, <1>3 DEF ShipmentsInv, Checkpoints, taken
    <2>2. mode' = "keys" \/ edits' = 0 => plan'.skipped \subseteq done' /\ left' \intersect done' = {}
        BY <1>1, <1>3 DEF ShipmentsInv, Checkpoints
    <2> QED BY <2>1, <2>2 DEF Checkpoints
<1>8. ASSUME edits = 0
      PROVE  OnceEach'
    <2>1. b \in All /\ TakenOnce(b)
        BY <1>8 DEF ShipmentsInv, OnceEach
    <2>2. ASSUME NEW c \in All
          PROVE  TakenOnce(c)'
        <3>1. TakenOnce(c)
            BY <1>8 DEF ShipmentsInv, OnceEach
        <3>2. CASE c = b /\ taken
            BY <1>1, <1>3, <3>1, <3>2 DEF TakenOnce
        <3>3. CASE c = b /\ ~ taken
            <4>1. PICK item \in ItemsOf(b) : ~ (accepted[item] > 0)
                BY <3>3 DEF taken
            <4>2. accepted[item] # 1
                BY <4>1
            <4>3. \A x \in ItemsOf(b) : accepted[x] = 0
                BY <2>1, <4>2 DEF TakenOnce
            <4> QED BY <1>1, <3>3, <4>3 DEF TakenOnce
        <3>4. CASE c # b
            <4>1. Lost(c) => c \in DOMAIN failures' /\ failures'[c].class = "ambiguous_write"
                BY <1>2, <3>4 DEF Lost
            <4> QED BY <1>1, <1>3, <3>1, <4>1 DEF TakenOnce, Lost
        <3> QED BY <3>2, <3>3, <3>4
    <2>3. All' = All
        BY <1>1 DEF All
    <2>4. done' \union DOMAIN failures' \subseteq All'
        BY <1>2, <1>3, <1>8, <2>1, <2>3 DEF ShipmentsInv, OnceEach
    <2>5. SameImport(shown)' /\ SameImport(plan.shown)'
        BY <1>1, <1>8 DEF ShipmentsInv, OnceEach, SameImport
    <2>6. \A item \in Items : (\A c \in All' : item \notin ItemsOf(c)) => accepted'[item] = 0
        BY <1>1, <1>8, <2>3 DEF ShipmentsInv, OnceEach
    <2> QED BY <2>2, <2>3, <2>4, <2>5, <2>6 DEF OnceEach
<1>9. ASSUME edits = 0, mode = "last"
      PROVE  InOrder'
    <2>1. b \in All /\ b \notin done /\ \A a \in All : Comes(a, b) => a \in done
        BY <1>9 DEF ShipmentsInv, InOrder, OnceEach
    <2>2. taken => done' = {c \in All : c = b \/ Comes(c, b)}
        BY <1>1, <1>9, <2>1, RecordedInOrder
    <2>3. b # None
        BY <1>4, ShipmentsAssumption
    <2>4. \A c \in DOMAIN failures' : c \notin done' /\ \A a \in All : Comes(a, c) => a \in done'
        BY <1>2, <1>3, <1>9 DEF ShipmentsInv, InOrder
    <2>5. CASE taken
        <3>1. left' # {} => left' = All \ done'
            BY <1>1, <1>3, <1>9, <2>5 DEF ShipmentsInv, InOrder
        <3> QED BY <1>1, <1>3, <2>2, <2>3, <2>4, <2>5, <3>1 DEF InOrder, All, Comes
    <2>6. CASE ~ taken
        BY <1>1, <1>9, <2>4, <2>6 DEF ShipmentsInv, InOrder, All, Comes
    <2> QED BY <2>5, <2>6
<1> QED BY <1>1, <1>5, <1>6, <1>7, <1>8, <1>9 DEF ShipmentsInv

LEMMA ShipmentsStutter == ShipmentsInv /\ UNCHANGED shipmentVars => ShipmentsInv'
<1> SUFFICES ASSUME ShipmentsInv, UNCHANGED shipmentVars PROVE ShipmentsInv'
    OBVIOUS
<1>1. /\ failures' = failures /\ payload' = payload /\ size' = size /\ edits' = edits /\ shown' = shown
      /\ left' = left /\ plan' = plan /\ mode' = mode /\ done' = done /\ last' = last /\ accepted' = accepted
    BY DEF shipmentVars
<1>2. ShipmentsTypeOK'
    BY <1>1 DEF ShipmentsInv, ShipmentsTypeOK
<1>3. Faithful(shown)' /\ Faithful(plan.shown)' /\ LeftIsPlanned' /\ Checkpoints'
    BY <1>1 DEF ShipmentsInv, Faithful, LeftIsPlanned, Checkpoints
<1>4. edits = 0 => OnceEach'
    BY <1>1 DEF ShipmentsInv, OnceEach, SameImport, All, TakenOnce, Lost
<1>5. edits = 0 /\ mode = "last" => InOrder'
    BY <1>1 DEF ShipmentsInv, InOrder, All, Comes
<1> QED BY <1>1, <1>2, <1>3, <1>4, <1>5 DEF ShipmentsInv

LEMMA ShipmentsInitially == ShipmentsInit => ShipmentsInv
<1> SUFFICES ASSUME ShipmentsInit PROVE ShipmentsInv
    OBVIOUS
<1>1. /\ payload = FirstImport /\ size \in CallSizes /\ edits = 0 /\ shown = None /\ left = {}
      /\ done = {} /\ last = None /\ failures = <<>> /\ mode \in {"keys", "last"}
      /\ accepted = [item \in Items |-> 0] /\ plan = [shown |-> None, skipped |-> {}]
    BY DEF ShipmentsInit
<1>2. plan.shown = None /\ plan.skipped = {} /\ \A item \in Items : accepted[item] = 0
    BY <1>1
<1>3. DOMAIN failures = {} /\ failures \in [DOMAIN failures -> Entry]
    BY <1>1
<1>4. ShipmentsTypeOK
    <2>1. accepted \in [Items -> 0..2]
        BY <1>1
    <2>2. payload \in Seq(Items) /\ edits \in 0..MaxEdits
        BY <1>1, ShipmentsAssumption
    <2> QED BY <1>1, <1>2, <1>3, <2>1, <2>2 DEF ShipmentsTypeOK
<1>5. Faithful(shown) /\ Faithful(plan.shown) /\ LeftIsPlanned /\ Checkpoints
    BY <1>1, <1>2 DEF Faithful, LeftIsPlanned, Checkpoints
<1>6. \A b \in All : ItemsOf(b) \subseteq Items
    BY <1>1, BatchesAreBatches, ShipmentsAssumption DEF All
<1>7. OnceEach
    BY <1>1, <1>2, <1>3, <1>6 DEF OnceEach, SameImport, TakenOnce
<1>8. InOrder
    BY <1>1, <1>3 DEF InOrder
<1> QED BY <1>1, <1>4, <1>5, <1>7, <1>8 DEF ShipmentsInv

-----------------------------------------------------------------------------
(***************************************************************************)
(* Shipments: the theorems                                                 *)
(***************************************************************************)
\* Plans, checkpoints and the retry queue agree: what a checkpoint names was taken,
\* and what is still to be sent was not.
THEOREM ShipmentsInvariant == ShipmentsSpec => []ShipmentsInv
<1>1. ShipmentsInit => ShipmentsInv
    BY ShipmentsInitially
<1>2. ShipmentsInv /\ [ShipmentsNext]_shipmentVars => ShipmentsInv'
    <2> SUFFICES ASSUME ShipmentsInv, [ShipmentsNext]_shipmentVars PROVE ShipmentsInv'
        OBVIOUS
    <2>1. CASE Edit
        BY <2>1, EditStep
    <2>2. CASE Preview
        BY <2>2, PreviewStep
    <2>3. CASE Build
        BY <2>3, BuildStep
    <2>4. CASE \E b \in left : Succeeds(b)
        BY <2>4, SucceedsStep
    <2>5. CASE \E b \in left, class \in RetriedClasses \union {"validation"}, waits \in BOOLEAN :
                    Refused(b, class, waits)
        <3>1. PICK b \in left, class \in RetriedClasses \union {"validation"}, waits \in BOOLEAN :
                    Refused(b, class, waits)
            BY <2>5
        <3>2. class \in RetriedClasses \union ManualClasses
            BY <3>1 DEF ManualClasses
        <3>3. Sends(b) /\ Failed(b, class, waits) /\ accepted' = accepted
            BY <3>1 DEF Refused
        <3>4. accepted' = accepted \/ (class = "ambiguous_write" /\ Accepts(ItemsOf(b)))
            BY <3>3
        <3> QED BY <3>2, <3>3, <3>4, FailedStep
    <2>6. CASE \E b \in left, taken \in BOOLEAN : AnswerLost(b, taken)
        <3>1. PICK b \in left, taken \in BOOLEAN : AnswerLost(b, taken)
            BY <2>6
        <3>2. PICK class, waits : class = "ambiguous_write" /\ waits = FALSE
            OBVIOUS
        <3>3. class \in RetriedClasses \union ManualClasses /\ waits \in BOOLEAN
            BY <3>2 DEF ManualClasses
        <3>4. Sends(b) /\ Failed(b, "ambiguous_write", FALSE) /\ (accepted' = accepted \/ Accepts(ItemsOf(b)))
            BY <3>1 DEF AnswerLost
        <3>5. Failed(b, class, waits)
            BY <3>2, <3>4
        <3>6. accepted' = accepted \/ (class = "ambiguous_write" /\ Accepts(ItemsOf(b)))
            BY <3>2, <3>4
        <3> QED BY <3>3, <3>4, <3>5, <3>6, FailedStep
    <2>7. CASE \E b \in DOMAIN failures : Due(b)
        BY <2>7, DueStep
    <2>8. CASE \E b \in DOMAIN failures : Review(b)
        BY <2>8, ReviewStep
    <2>9. CASE UNCHANGED shipmentVars
        BY <2>9, ShipmentsStutter
    <2> QED BY <2>1, <2>2, <2>3, <2>4, <2>5, <2>6, <2>7, <2>8, <2>9 DEF ShipmentsNext, Answer
<1> QED BY <1>1, <1>2, PTL DEF ShipmentsSpec

\* Type correctness, for any import, sizes of calls, edits and attempts.
THEOREM ShipmentsTypeCorrect == ShipmentsSpec => []ShipmentsTypeOK
<1>1. ShipmentsInv => ShipmentsTypeOK
    BY DEF ShipmentsInv
<1> QED BY <1>1, ShipmentsInvariant, PTL

\* A confirmed plan sends nothing but what was previewed, and leaves out nothing but
\* what a marketplace has taken as it stands, whatever is edited in between.
THEOREM PlansAreExact == ShipmentsSpec => []PlanIsExact
<1>1. ShipmentsInv => PlanIsExact
    BY DEF ShipmentsInv, PlanIsExact, Checkpoints, LeftIsPlanned
<1> QED BY <1>1, ShipmentsInvariant, PTL

\* While nobody edits the import, a marketplace takes a line once, whatever answers
\* are lost and whatever is tried again.
THEOREM LinesAreTakenOnce == ShipmentsSpec => []AcceptedOnce
<1>1. ASSUME ShipmentsInv, edits = 0, NEW item \in Items
      PROVE  accepted[item] <= 1
    <2>1. CASE \E b \in All : item \in ItemsOf(b)
        BY <1>1, <2>1 DEF ShipmentsInv, OnceEach, TakenOnce
    <2>2. CASE \A b \in All : item \notin ItemsOf(b)
        BY <1>1, <2>2 DEF ShipmentsInv, OnceEach
    <2> QED BY <2>1, <2>2
<1>2. ShipmentsInv => AcceptedOnce
    BY <1>1 DEF AcceptedOnce
<1> QED BY <1>2, ShipmentsInvariant, PTL

-----------------------------------------------------------------------------
(***************************************************************************)
(* Planners: what the folds of the planners compute.  They take an element *)
(* at a time out of a set, so that their facts are proved by induction on  *)
(* the set, said of the set of subsets that a fact is true of.             *)
(***************************************************************************)
LEMMA SubsetInduction ==
    ASSUME NEW S, IsFiniteSet(S), NEW Good,
           \A s \in SUBSET S : (\A t \in SUBSET s : t # s => t \in Good) => s \in Good
    PROVE  \A s \in SUBSET S : s \in Good
<1>1. SUFFICES ASSUME NEW bad \in SUBSET S, bad \notin Good
               PROVE  FALSE
    OBVIOUS
<1> DEFINE Bad == {s \in SUBSET S : s \notin Good}
           Counts == {Cardinality(s) : s \in Bad}
<1>2. \A s \in SUBSET S : IsFiniteSet(s) /\ Cardinality(s) \in Nat
    BY FS_Subset, FS_CardinalityType
<1>3. Counts \subseteq Nat /\ Counts # {}
    BY <1>1, <1>2
<1>5. PICK n \in Counts : \A k \in Counts : n <= k
    <2> HIDE DEF Counts
    <2> QED BY <1>3, FirstOfSome
<1>6. PICK s \in Bad : n = Cardinality(s)
    OBVIOUS
<1>7. ASSUME NEW t \in SUBSET s, t # s
      PROVE  t \in Good
    <2>1. Cardinality(t) < Cardinality(s)
        BY <1>2, <1>7, FS_Subset
    <2>2. t \in SUBSET S
        OBVIOUS
    <2>3. Cardinality(t) \in Nat /\ n \in Nat
        BY <1>2, <1>6, <2>2
    <2>4. Cardinality(t) \notin Counts
        <3> HIDE DEF Counts
        <3> QED BY <1>5, <1>6, <2>1, <2>3
    <2> QED BY <2>2, <2>4
<1> QED BY <1>6, <1>7

LEMMA CountingUp ==
    ASSUME NEW n \in Nat, NEW Good, 0 \in Good,
           \A k \in 0..(n - 1) : k \in Good => k + 1 \in Good
    PROVE  \A k \in 0..n : k \in Good
<1>1. SUFFICES ASSUME NEW bad \in 0..n, bad \notin Good
               PROVE  FALSE
    OBVIOUS
<1> DEFINE Bad == {k \in 0..n : k \notin Good}
<1>2. Bad \subseteq Nat /\ Bad # {}
    BY <1>1
<1>3. PICK k \in Bad : \A m \in Bad : k <= m
    <2> HIDE DEF Bad
    <2> QED BY <1>2, FirstOfSome
<1>4. k - 1 \in 0..(n - 1) /\ k - 1 \in Nat /\ k \in Nat
    BY <1>3
<1>5. k - 1 \notin Bad
    BY <1>3, <1>4
<1> QED BY <1>3, <1>4, <1>5

PicksFrom(pick, S) == \A s \in SUBSET S : s # {} => pick[s] \in s

FoldsOver(iter, S, base, pick, step) ==
    iter = [s \in SUBSET S |-> IF s = {} THEN base ELSE step[<<pick[s], iter[s \ {pick[s]}]>>]]

\* A fold over a finite set is defined: there is a function that takes out of each
\* subset the element picked of it.
LEMMA FoldsExist ==
    ASSUME NEW S, IsFiniteSet(S), NEW V, NEW base \in V,
           NEW pick, PicksFrom(pick, S),
           NEW step \in [S \X V -> V]
    PROVE  \E iter \in [SUBSET S -> V] : FoldsOver(iter, S, base, pick, step)
<1> DEFINE Again(h) == [s \in SUBSET S |-> IF s = {} THEN base ELSE step[<<pick[s], h[s \ {pick[s]}]>>]]
           Upto(k) == {s \in SUBSET S : Cardinality(s) <= k}
           Good == {k \in Nat : \E h \in [SUBSET S -> V] : \A s \in Upto(k) : h[s] = Again(h)[s]}
<1>1. \A s \in SUBSET S : IsFiniteSet(s) /\ Cardinality(s) \in Nat /\ Cardinality(s) <= Cardinality(S)
    BY FS_Subset, FS_CardinalityType
<1>2. PICK n \in Nat : n = Cardinality(S)
    BY <1>1
<1>3. 0 \in Good
    <2>1. \A s \in Upto(0) : s = {}
        BY <1>1, FS_EmptySet
    <2> DEFINE h == [s \in SUBSET S |-> base]
    <2>2. h \in [SUBSET S -> V] /\ \A s \in Upto(0) : h[s] = Again(h)[s]
        BY <2>1
    <2> QED BY <2>2
<1>4. \A h \in [SUBSET S -> V] : Again(h) \in [SUBSET S -> V]
    BY DEF PicksFrom
<1>5. ASSUME NEW k \in 0..(n - 1), k \in Good
      PROVE  k + 1 \in Good
    <2>1. PICK h \in [SUBSET S -> V] : \A s \in Upto(k) : h[s] = Again(h)[s]
        BY <1>5
    <2>2. ASSUME NEW s \in Upto(k + 1)
          PROVE  Again(h)[s] = Again(Again(h))[s]
        <3>1. CASE s = {}
            BY <3>1
        <3>2. CASE s # {}
            <4>1. pick[s] \in s /\ s \ {pick[s]} \in SUBSET S
                BY <3>2 DEF PicksFrom
            <4>2. Cardinality(s \ {pick[s]}) = Cardinality(s) - 1
                BY <1>1, <4>1, FS_RemoveElement
            <4>3. s \ {pick[s]} \in Upto(k)
                BY <1>1, <4>1, <4>2
            <4>4. h[s \ {pick[s]}] = Again(h)[s \ {pick[s]}]
                BY <2>1, <4>3
            <4> QED BY <3>2, <4>4
        <3> QED BY <3>1, <3>2
    <2>3. Again(h) \in [SUBSET S -> V]
        BY <1>4
    <2>4. k + 1 \in Nat
        OBVIOUS
    <2> HIDE DEF Again, Upto
    <2> QED BY <2>2, <2>3, <2>4
<1>6. n \in Good
    <2> HIDE DEF Good
    <2> QED BY <1>3, <1>5, CountingUp
<1>7. PICK h \in [SUBSET S -> V] : \A s \in Upto(n) : h[s] = Again(h)[s]
    BY <1>6
<1>8. \A s \in SUBSET S : h[s] = Again(h)[s]
    BY <1>1, <1>2, <1>7
<1>9. Again(h) \in [SUBSET S -> V]
    BY <1>4
<1>10. h = Again(h)
    <2> HIDE DEF Again
    <2> QED BY <1>8, <1>9
<1> QED BY <1>10 DEF FoldsOver

\* SumFunctionOnSet takes whatever element CHOOSE names.
Named(s) == CHOOSE x \in s : TRUE

Sums(iter, val, S) ==
    iter = [s \in SUBSET S |-> IF s = {} THEN 0 ELSE val[Named(s)] + iter[s \ {Named(s)}]]

IntsOn(val, S) == \A x \in S : val[x] \in Int

Total(val, S) == (CHOOSE iter : Sums(iter, val, S))[S]

LEMMA NamedIsIn ==
    ASSUME NEW s, s # {}
    PROVE  Named(s) \in s
BY DEF Named

LEMMA SumsExist ==
    ASSUME NEW S, IsFiniteSet(S), NEW val, IntsOn(val, S)
    PROVE  \E iter \in [SUBSET S -> Int] : Sums(iter, val, S)
<1> DEFINE pick == [s \in SUBSET S |-> Named(s)]
           step == [xv \in S \X Int |-> val[xv[1]] + xv[2]]
<1>1. \A s \in SUBSET S : s # {} => pick[s] \in s /\ pick[s] = Named(s)
    BY NamedIsIn
<1>2. step \in [S \X Int -> Int]
    BY DEF IntsOn
<1>3. \A x \in S, v \in Int : step[<<x, v>>] = val[x] + v
    OBVIOUS
<1>4. 0 \in Int
    OBVIOUS
<1> HIDE DEF pick, step
<1>5. PicksFrom(pick, S)
    BY <1>1 DEF PicksFrom
<1>7. PICK iter \in [SUBSET S -> Int] : FoldsOver(iter, S, 0, pick, step)
    BY <1>2, <1>4, <1>5, FoldsExist
<1>8. iter = [s \in SUBSET S |-> IF s = {} THEN 0 ELSE step[<<pick[s], iter[s \ {pick[s]}]>>]]
    BY <1>7 DEF FoldsOver
<1>6. ASSUME NEW s \in SUBSET S
      PROVE  iter[s] = IF s = {} THEN 0 ELSE val[Named(s)] + iter[s \ {Named(s)}]
    <2>1. CASE s = {}
        BY <1>8, <2>1
    <2>2. CASE s # {}
        <3>1. Named(s) \in S /\ s \ {Named(s)} \in SUBSET S /\ pick[s] = Named(s)
            BY <1>1, <2>2
        <3>2. iter[s] = step[<<pick[s], iter[s \ {pick[s]}]>>]
            BY <1>8, <2>2
        <3>3. iter[s \ {Named(s)}] \in Int
            BY <3>1
        <3> QED BY <1>3, <2>2, <3>1, <3>2, <3>3
    <2> QED BY <2>1, <2>2
<1>9. Sums(iter, val, S)
    BY <1>6 DEF Sums
<1> QED BY <1>9

\* Two sums over the same values agree wherever both are taken.
LEMMA SumsAgree ==
    ASSUME NEW S, NEW T, NEW f, NEW g, NEW val, NEW other, Sums(f, val, S), Sums(g, other, T),
           NEW U \in SUBSET S, U \in SUBSET T, IsFiniteSet(U), \A x \in U : val[x] = other[x]
    PROVE  f[U] = g[U]
<1> DEFINE Good == {s \in SUBSET U : f[s] = g[s]}
<1>1. ASSUME NEW s \in SUBSET U, \A t \in SUBSET s : t # s => t \in Good
      PROVE  s \in Good
    <2>1. CASE s = {}
        BY <2>1 DEF Sums
    <2>2. CASE s # {}
        <3>1. Named(s) \in s /\ s \ {Named(s)} \in SUBSET s /\ s \ {Named(s)} # s
            BY <2>2, NamedIsIn
        <3>2. f[s \ {Named(s)}] = g[s \ {Named(s)}]
            BY <1>1, <3>1
        <3>3. f[s] = val[Named(s)] + f[s \ {Named(s)}] /\ g[s] = other[Named(s)] + g[s \ {Named(s)}]
            BY <2>2 DEF Sums
        <3>4. val[Named(s)] = other[Named(s)]
            BY <3>1
        <3> QED BY <3>2, <3>3, <3>4
    <2> QED BY <2>1, <2>2
<1>2. \A s \in SUBSET U : s \in Good
    <2> HIDE DEF Good
    <2> QED BY <1>1, SubsetInduction
<1> QED BY <1>2

SumsTo(iter, val, S) == Sums(iter, val, S) /\ \A s \in SUBSET S : Total(val, s) = iter[s]

LEMMA TotalOfSums ==
    ASSUME NEW S, IsFiniteSet(S), NEW val, IntsOn(val, S)
    PROVE  \E iter \in [SUBSET S -> Int] : SumsTo(iter, val, S)
<1>1. PICK iter \in [SUBSET S -> Int] : Sums(iter, val, S)
    BY SumsExist
<1>2. ASSUME NEW s \in SUBSET S
      PROVE  Total(val, s) = iter[s]
    <2>1. IsFiniteSet(s) /\ IntsOn(val, s)
        BY FS_Subset DEF IntsOn
    <2>2. \E f : Sums(f, val, s)
        BY <2>1, SumsExist
    <2>3. PICK f : f = (CHOOSE sum : Sums(sum, val, s))
        OBVIOUS
    <2>4. Sums(f, val, s)
        BY <2>2, <2>3
    <2>5. s \in SUBSET s /\ s \in SUBSET S /\ \A x \in s : val[x] = val[x]
        OBVIOUS
    <2>6. f[s] = iter[s]
        BY <1>1, <2>1, <2>4, <2>5, SumsAgree
    <2> QED BY <2>3, <2>6 DEF Total
<1> QED BY <1>1, <1>2 DEF SumsTo

\* A total is a number, and nothing adds up to nothing.
LEMMA TotalIsInt ==
    ASSUME NEW S, IsFiniteSet(S), NEW val, IntsOn(val, S)
    PROVE  Total(val, S) \in Int /\ (S = {} => Total(val, S) = 0)
<1>1. PICK iter \in [SUBSET S -> Int] : SumsTo(iter, val, S)
    BY TotalOfSums
<1>2. S \in SUBSET S /\ iter[S] \in Int
    OBVIOUS
<1> QED BY <1>1, <1>2 DEF SumsTo, Sums

\* A total is the same whichever element is taken first.
LEMMA TotalTakes ==
    ASSUME NEW S, IsFiniteSet(S), NEW val, IntsOn(val, S), NEW one \in S
    PROVE  Total(val, S) = val[one] + Total(val, S \ {one})
<1>1. PICK iter \in [SUBSET S -> Int] : SumsTo(iter, val, S)
    BY TotalOfSums
<1> DEFINE Good == {s \in SUBSET S : \A x \in s : iter[s] = val[x] + iter[s \ {x}]}
<1>2. ASSUME NEW s \in SUBSET S, \A t \in SUBSET s : t # s => t \in Good, NEW x \in s
      PROVE  iter[s] = val[x] + iter[s \ {x}]
    <2>1. PICK c \in s : c = Named(s)
        BY NamedIsIn
    <2>2. \A t \in SUBSET S : t # {} => iter[t] = val[Named(t)] + iter[t \ {Named(t)}]
        BY <1>1 DEF SumsTo, Sums
    <2>3. iter[s] = val[c] + iter[s \ {c}]
        BY <2>1, <2>2
    <2>4. CASE x = c
        BY <2>3, <2>4
    <2>5. CASE x # c
        <3>1. s \ {c} \in SUBSET s /\ s \ {c} # s /\ x \in s \ {c}
            BY <2>5
        <3>2. s \ {x} \in SUBSET s /\ s \ {x} # s /\ c \in s \ {x}
            BY <2>5
        <3>3. iter[s \ {c}] = val[x] + iter[(s \ {c}) \ {x}]
            BY <1>2, <3>1
        <3>4. iter[s \ {x}] = val[c] + iter[(s \ {x}) \ {c}]
            BY <1>2, <3>2
        <3>5. (s \ {x}) \ {c} = (s \ {c}) \ {x}
            OBVIOUS
        <3>6. (s \ {c}) \ {x} \in SUBSET S
            OBVIOUS
        <3>7. PICK rest \in Int : rest = iter[(s \ {c}) \ {x}]
            BY <3>6
        <3>8. val[x] \in Int /\ val[c] \in Int
            BY DEF IntsOn
        <3>9. iter[s \ {c}] = val[x] + rest /\ iter[s \ {x}] = val[c] + rest
            BY <3>3, <3>4, <3>5, <3>7
        <3> QED BY <2>3, <3>8, <3>9
    <2> QED BY <2>4, <2>5
<1>3. \A s \in SUBSET S : s \in Good
    <2>1. \A s \in SUBSET S : (\A t \in SUBSET s : t # s => t \in Good) => s \in Good
        BY <1>2
    <2> HIDE DEF Good
    <2> QED BY <2>1, SubsetInduction
<1>4. iter[S] = val[one] + iter[S \ {one}]
    BY <1>3
<1>5. S \in SUBSET S /\ S \ {one} \in SUBSET S
    OBVIOUS
<1> QED BY <1>1, <1>4, <1>5 DEF SumsTo

LEMMA TotalsAgree ==
    ASSUME NEW S, IsFiniteSet(S), NEW val, NEW other, IntsOn(val, S), \A x \in S : val[x] = other[x]
    PROVE  Total(val, S) = Total(other, S)
<1>1. PICK f \in [SUBSET S -> Int] : SumsTo(f, val, S)
    BY TotalOfSums
<1>2. IntsOn(other, S)
    BY DEF IntsOn
<1>3. PICK g \in [SUBSET S -> Int] : SumsTo(g, other, S)
    BY <1>2, TotalOfSums
<1>4. S \in SUBSET S
    OBVIOUS
<1>5. f[S] = g[S]
    BY <1>1, <1>3, <1>4, SumsAgree DEF SumsTo
<1> QED BY <1>1, <1>3, <1>4, <1>5 DEF SumsTo

LEMMA SumIsTotal ==
    ASSUME NEW fun
    PROVE  SumFunction(fun) = Total(fun, DOMAIN fun)
BY DEF SumFunction, SumFunctionOnSet, FoldFunctionOnSet, MapThenFoldSet, Total, Sums, Named

\* What is not negative adds up to no less than any of it.
LEMMA TotalIsNat ==
    ASSUME NEW S, IsFiniteSet(S), NEW val, \A x \in S : val[x] \in Nat
    PROVE  Total(val, S) \in Nat /\ \A x \in S : val[x] <= Total(val, S)
<1> DEFINE Good == {s \in SUBSET S : Total(val, s) \in Nat}
<1>1. \A s \in SUBSET S : IsFiniteSet(s) /\ IntsOn(val, s)
    BY FS_Subset DEF IntsOn
<1>2. ASSUME NEW s \in SUBSET S, \A t \in SUBSET s : t # s => t \in Good
      PROVE  s \in Good
    <2>1. CASE s = {}
        BY <1>1, <2>1, TotalIsInt
    <2>2. CASE s # {}
        <3>1. PICK x \in s : TRUE
            BY <2>2
        <3>2. Total(val, s) = val[x] + Total(val, s \ {x})
            BY <1>1, TotalTakes
        <3>3. s \ {x} \in Good
            BY <1>2
        <3> QED BY <3>2, <3>3
    <2> QED BY <2>1, <2>2
<1>3. \A s \in SUBSET S : s \in Good
    <2> HIDE DEF Good
    <2> QED BY <1>2, SubsetInduction
<1>4. ASSUME NEW x \in S
      PROVE  val[x] <= Total(val, S)
    <2>1. S \in SUBSET S /\ S \ {x} \in SUBSET S
        OBVIOUS
    <2>2. Total(val, S) = val[x] + Total(val, S \ {x})
        BY <1>1, <2>1, TotalTakes
    <2>3. Total(val, S \ {x}) \in Nat /\ val[x] \in Nat
        BY <1>3, <2>1
    <2> QED BY <2>2, <2>3
<1>5. Total(val, S) \in Nat
    <2>1. S \in SUBSET S
        OBVIOUS
    <2> QED BY <1>3, <2>1
<1> QED BY <1>4, <1>5

\* Parts that are each in proportion add up to no more than that proportion of the whole.
LEMMA SharesFit ==
    ASSUME NEW S, IsFiniteSet(S), NEW whole \in Nat, NEW amount \in Nat, NEW share, NEW weight,
           \A x \in S : share[x] \in Nat /\ weight[x] \in Nat /\ share[x] * whole <= amount * weight[x]
    PROVE  Total(share, S) * whole <= amount * Total(weight, S)
<1> DEFINE Good == {s \in SUBSET S : Total(share, s) * whole <= amount * Total(weight, s)}
<1>1. \A s \in SUBSET S : IsFiniteSet(s) /\ IntsOn(share, s) /\ IntsOn(weight, s)
    BY FS_Subset DEF IntsOn
<1>2. ASSUME NEW s \in SUBSET S, \A t \in SUBSET s : t # s => t \in Good
      PROVE  s \in Good
    <2>1. CASE s = {}
        <3>1. Total(share, s) = 0 /\ Total(weight, s) = 0
            BY <1>1, <2>1, TotalIsInt
        <3> QED BY <3>1
    <2>2. CASE s # {}
        <3>1. PICK x \in s : TRUE
            BY <2>2
        <3>2. /\ Total(share, s) = share[x] + Total(share, s \ {x})
              /\ Total(weight, s) = weight[x] + Total(weight, s \ {x})
            BY <1>1, TotalTakes
        <3>3. s \ {x} \in Good /\ s \ {x} \in SUBSET S
            BY <1>2
        <3>4. PICK a \in Int, b \in Int : a = Total(share, s \ {x}) /\ b = Total(weight, s \ {x})
            BY <1>1, <3>3, TotalIsInt
        <3>5. a * whole <= amount * b
            BY <3>3, <3>4
        <3>6. PICK c \in Nat, d \in Nat : c = share[x] /\ d = weight[x]
            OBVIOUS
        <3>7. c * whole <= amount * d
            BY <3>6
        <3> HIDE DEF Good
        <3>8. (c + a) * whole = c * whole + a * whole /\ amount * (d + b) = amount * d + amount * b
            OBVIOUS
        <3>9. (c + a) * whole <= amount * (d + b)
            BY <3>5, <3>7, <3>8
        <3> QED BY <3>2, <3>4, <3>6, <3>9 DEF Good
    <2> QED BY <2>1, <2>2
<1>3. \A s \in SUBSET S : s \in Good
    <2> HIDE DEF Good
    <2> QED BY <1>2, SubsetInduction
<1>4. S \in SUBSET S
    OBVIOUS
<1> QED BY <1>3, <1>4

-----------------------------------------------------------------------------
(***************************************************************************)
(* Planners: stock                                                         *)
(***************************************************************************)
LEMMA Divisions ==
    ASSUME NEW a \in Nat, NEW b \in Nat \ {0}
    PROVE  a \div b \in Nat /\ (a \div b) * b <= a /\ (a = 0 => a \div b = 0)
<1>1. a \div b \in Nat
    OBVIOUS
<1>2. b * (a \div b) <= a
    OBVIOUS
<1>3. a = 0 => a \div b = 0
    OBVIOUS
<1>4. PICK c \in Nat : c = a \div b
    BY <1>1
<1>5. b * c = c * b
    OBVIOUS
<1> QED BY <1>1, <1>2, <1>3, <1>4, <1>5

Shares(n, w, s) == [i \in 1..(n - 1) |-> (s * w[i]) \div Total(w, 1..n)]

Split(n, w, s) ==
    [i \in 1..n |-> IF i < n THEN Shares(n, w, s)[i] ELSE s - Total(Shares(n, w, s), 1..(n - 1))]

DividedUp(target, n, s) ==
    /\ target \in [1..n -> Nat]
    /\ Total(target, 1..n) = s
    /\ s = 0 => \A i \in 1..n : target[i] = 0

\* Shares that are rounded down leave something, or nothing, for the last.
LEMMA LastHasTheRest ==
    ASSUME NEW n \in Nat \ {0}, NEW w \in [1..n -> Nat \ {0}], NEW s \in Nat
    PROVE  DividedUp(Split(n, w, s), n, s)
<1> DEFINE First == 1..(n - 1)
<1>20. PICK share : share = Shares(n, w, s)
    OBVIOUS
<1>21. share = [i \in 1..(n - 1) |-> (s * w[i]) \div Total(w, 1..n)]
    BY <1>20 DEF Shares
<1>22. PICK target : target = Split(n, w, s)
    OBVIOUS
<1>23. target = [i \in 1..n |-> IF i < n THEN share[i] ELSE s - Total(share, 1..(n - 1))]
    BY <1>20, <1>22 DEF Split
<1>1. IsFiniteSet(First) /\ IsFiniteSet(1..n) /\ First = (1..n) \ {n} /\ n \in 1..n
    <2>1. n \in Int /\ n - 1 \in Int /\ 1 \in Int
        OBVIOUS
    <2>2. First = (1..n) \ {n} /\ n \in 1..n
        OBVIOUS
    <2> QED BY <2>1, <2>2, FS_Interval
<1>2. PICK whole \in Nat : whole = Total(w, 1..n)
    BY <1>1, TotalIsNat
<1>3. \A i \in 1..n : w[i] <= whole /\ w[i] \in Nat \ {0}
    BY <1>1, <1>2, TotalIsNat
<1>4. whole # 0
    BY <1>1, <1>3
<1>5. ASSUME NEW i \in First
      PROVE  /\ share[i] \in Nat /\ share[i] * whole <= s * w[i]
             /\ s = 0 => share[i] = 0
    <2>1. i \in 1..n /\ share[i] = (s * w[i]) \div whole
        BY <1>2, <1>21
    <2>2. PICK v \in Nat : v = w[i]
        BY <2>1
    <2>3. s * v \in Nat /\ (s = 0 => s * v = 0)
        OBVIOUS
    <2>4. PICK p \in Nat : p = s * v
        BY <2>3
    <2>5. p \div whole \in Nat /\ (p \div whole) * whole <= p /\ (p = 0 => p \div whole = 0)
        BY <1>4, Divisions
    <2>6. share[i] = p \div whole /\ s * w[i] = p
        BY <2>1, <2>2, <2>4
    <2> QED BY <2>3, <2>4, <2>5, <2>6
<1>6. PICK r \in Nat : r = Total(share, First)
    BY <1>1, <1>5, TotalIsNat
<1>7. PICK part \in Nat : part = Total(w, First)
    <2>1. \A i \in First : w[i] \in Nat
        BY <1>1, <1>3
    <2> QED BY <1>1, <2>1, TotalIsNat
<1>8. r * whole <= s * part
    <2>1. \A i \in First : share[i] \in Nat /\ w[i] \in Nat /\ share[i] * whole <= s * w[i]
        BY <1>1, <1>3, <1>5
    <2> HIDE DEF First
    <2> QED BY <1>1, <1>6, <1>7, <2>1, SharesFit
<1>9. part <= whole
    <2>1. IntsOn(w, 1..n)
        BY DEF IntsOn
    <2>2. Total(w, 1..n) = w[n] + Total(w, (1..n) \ {n})
        BY <1>1, <2>1, TotalTakes
    <2>3. PICK final \in Nat : final = w[n]
        BY <1>1, <1>3
    <2>4. whole = final + part
        BY <1>1, <1>2, <1>7, <2>2, <2>3
    <2> QED BY <2>4
<1>10. s * part <= s * whole
    BY <1>9
<1>11. r * whole <= s * whole
    <2>1. PICK x \in Int, y \in Int, z \in Int : x = r * whole /\ y = s * part /\ z = s * whole
        OBVIOUS
    <2>2. x <= y /\ y <= z
        BY <1>8, <1>10, <2>1
    <2>3. x <= z
        BY <2>2
    <2> QED BY <2>1, <2>3
<1>12. r <= s
    BY <1>4, <1>11
<1>13. \A i \in First : target[i] = share[i]
    BY <1>23
<1>14. target[n] = s - r
    BY <1>1, <1>6, <1>23
<1>15. target \in [1..n -> Nat]
    <2>1. target[n] \in Nat
        BY <1>12, <1>14
    <2>2. \A i \in First : target[i] \in Nat
        BY <1>5, <1>13
    <2>3. \A i \in 1..n : i = n \/ i \in First
        BY <1>1
    <2>4. \A i \in 1..n : target[i] \in Nat
        BY <2>1, <2>2, <2>3
    <2>5. DOMAIN target = 1..n /\ target = [i \in 1..n |-> target[i]]
        BY <1>23
    <2> QED BY <2>4, <2>5
<1>16. Total(target, First) = r
    <2> HIDE DEF First
    <2>2. \A i \in First : target[i] \in Int /\ target[i] = share[i]
        BY <1>5, <1>13
    <2>1. IntsOn(target, First) /\ \A i \in First : target[i] = share[i]
        BY <2>2 DEF IntsOn
    <2> QED BY <1>1, <1>6, <2>1, TotalsAgree
<1>17. Total(target, 1..n) = target[n] + Total(target, First)
    <2>1. \A i \in 1..n : target[i] \in Int
        <3>1. PICK aim \in [1..n -> Nat] : aim = target
            BY <1>15
        <3>2. \A i \in 1..n : aim[i] \in Int
            OBVIOUS
        <3> QED BY <3>1, <3>2
    <2>2. IntsOn(target, 1..n)
        BY <2>1 DEF IntsOn
    <2>3. Total(target, 1..n) = target[n] + Total(target, (1..n) \ {n})
        BY <1>1, <2>2, TotalTakes
    <2> QED BY <1>1, <2>3
<1>18. Total(target, 1..n) = s
    BY <1>14, <1>16, <1>17
<1>19. s = 0 => \A i \in 1..n : target[i] = 0
    <2>1. ASSUME s = 0, NEW i \in 1..n
          PROVE  target[i] = 0
        <3>1. CASE i = n
            BY <1>12, <1>14, <2>1, <3>1
        <3>2. CASE i \in First
            BY <1>5, <1>13, <2>1, <3>2
        <3> QED BY <1>1, <3>1, <3>2
    <2> QED BY <2>1
<1> QED BY <1>15, <1>18, <1>19, <1>22 DEF DividedUp

\* The markets list together what may be sold, after the advised changes.
THEOREM StockIsShared ==
    \A q : StockQuestion(q) => StockAddsUp(q, StockSync(q.listed, Allocation(q).quantity))
<1>1. SUFFICES ASSUME NEW q, StockQuestion(q)
               PROVE  StockAddsUp(q, StockSync(q.listed, Allocation(q).quantity))
    OBVIOUS
<1>2. PICK w \in Seq(Nat \ {0}) : w = q.weights /\ w # <<>>
    BY <1>1 DEF StockQuestion
<1>3. PICK n \in Nat \ {0} : n = Len(w) /\ w \in [1..n -> Nat \ {0}] /\ DOMAIN w = 1..n
    BY <1>2
<1>4. PICK onHand \in Nat, safety \in Nat : onHand = q.onHand /\ safety = q.safety
    BY <1>1 DEF StockQuestion
<1>5. PICK listed \in [1..n -> Nat] : listed = q.listed
    BY <1>1, <1>2, <1>3 DEF StockQuestion
<1>6. PICK reserved \in Nat : reserved = SumFunction(q.reservations)
    <2>1. PICK list \in Seq(Nat \ {0}) : list = q.reservations
        BY <1>1 DEF StockQuestion
    <2>2. DOMAIN list = 1..Len(list) /\ Len(list) \in Nat /\ \A i \in DOMAIN list : list[i] \in Nat
        BY <2>1
    <2>3. IsFiniteSet(DOMAIN list)
        BY <2>2, FS_Interval
    <2>4. Total(list, DOMAIN list) \in Nat
        BY <2>2, <2>3, TotalIsNat
    <2> QED BY <2>1, <2>4, SumIsTotal
<1>7. PICK s \in Nat : s = Larger(0, onHand - safety - reserved)
    <2>1. PICK rest \in Int : rest = onHand - safety - reserved
        OBVIOUS
    <2>2. Larger(0, rest) \in Nat
        BY DEF Larger
    <2> QED BY <2>1, <2>2
<1>8. /\ Reservations(q).sellable = s
      /\ Reservations(q).oversold <=> reserved > Larger(0, onHand - safety)
      /\ Reservations(q).reserved = reserved
    BY <1>4, <1>6, <1>7 DEF Reservations
<1>9. Larger(0, onHand - reserved - safety) = s
    BY <1>7 DEF Larger
<1> DEFINE share == [i \in 1..(n - 1) |-> (s * w[i]) \div SumFunction(w)]
           target == [i \in 1..n |-> IF i < n THEN share[i] ELSE s - SumFunction(share)]
<1>10. Allocation(q).quantity = target
    <2>1. Larger(0, q.onHand - Reservations(q).reserved - q.safety) = s /\ Len(q.weights) = n
        BY <1>2, <1>3, <1>4, <1>8, <1>9
    <2> DEFINE amount == Larger(0, q.onHand - Reservations(q).reserved - q.safety)
               count == Len(q.weights)
               rounded == [i \in 1..(count - 1) |-> (amount * q.weights[i]) \div SumFunction(q.weights)]
    <2>2. Allocation(q) =
            [sellable |-> amount,
             quantity |-> [i \in 1..count |-> IF i < count THEN rounded[i] ELSE amount - SumFunction(rounded)]]
        BY DEF Allocation
    <2>3. amount = s /\ count = n
        BY <2>1
    <2>4. rounded = share
        <3> HIDE DEF amount, count
        <3> QED BY <1>2, <2>3
    <2> HIDE DEF amount, count, rounded, share
    <2> QED BY <2>2, <2>3, <2>4
<1>11. /\ target \in [1..n -> Nat]
       /\ Total(target, 1..n) = s
       /\ s = 0 => \A i \in 1..n : target[i] = 0
    <2>1. SumFunction(w) = Total(w, 1..n)
        BY <1>3, SumIsTotal
    <2>2. SumFunction(share) = Total(share, 1..(n - 1))
        <3>1. DOMAIN share = 1..(n - 1)
            OBVIOUS
        <3> HIDE DEF share
        <3> QED BY <3>1, SumIsTotal
    <2>3. share = Shares(n, w, s)
        BY <2>1 DEF Shares
    <2> HIDE DEF share
    <2>4. target = Split(n, w, s)
        BY <2>2, <2>3 DEF Split
    <2> HIDE DEF target
    <2>5. w \in [1..n -> Nat \ {0}]
        BY <1>3
    <2>6. DividedUp(Split(n, w, s), n, s)
        BY <2>5, LastHasTheRest
    <2> QED BY <2>4, <2>6 DEF DividedUp
<1> HIDE DEF target, share
<1>12. PICK aim \in [1..n -> Nat] : aim = target
    BY <1>11
<1>13. PICK actions : actions = StockSync(listed, aim)
    OBVIOUS
<1>14. /\ DOMAIN actions = {i \in 1..n : listed[i] # aim[i]}
       /\ \A i \in DOMAIN actions :
            /\ actions[i].delta = aim[i] - listed[i]
            /\ aim[i] = 0 => actions[i].requiresConfirmation
    BY <1>13 DEF StockSync
<1> DEFINE after == [i \in DOMAIN q.listed |->
                        q.listed[i] + (IF i \in DOMAIN actions THEN actions[i].delta ELSE 0)]
<1>15. after = aim
    <2>1. DOMAIN q.listed = 1..n
        BY <1>5
    <2>2. ASSUME NEW i \in 1..n
          PROVE  listed[i] + (IF i \in DOMAIN actions THEN actions[i].delta ELSE 0) = aim[i]
        <3>1. PICK a \in Nat, b \in Nat : a = listed[i] /\ b = aim[i]
            OBVIOUS
        <3>2. CASE i \in DOMAIN actions
            <4>1. actions[i].delta = b - a
                BY <1>14, <3>1, <3>2
            <4>2. a + (b - a) = b
                OBVIOUS
            <4> QED BY <3>1, <3>2, <4>1, <4>2
        <3>3. CASE i \notin DOMAIN actions
            BY <1>14, <3>1, <3>3
        <3> QED BY <3>2, <3>3
    <2> QED BY <1>5, <2>1, <2>2
<1>16. SumFunction(after) = s
    <2>1. DOMAIN aim = 1..n
        OBVIOUS
    <2> HIDE DEF after
    <2> QED BY <1>11, <1>12, <1>15, <2>1, SumIsTotal
<1>17. \A i \in DOMAIN after : after[i] >= 0
    <2> HIDE DEF after
    <2> QED BY <1>15
<1>18. Reservations(q).oversold => \A i \in DOMAIN actions : after[i] = 0 /\ actions[i].requiresConfirmation
    <2> HIDE DEF after
    <2>1. ASSUME Reservations(q).oversold
          PROVE  s = 0
        BY <1>7, <1>8, <2>1 DEF Larger
    <2>2. ASSUME s = 0, NEW i \in DOMAIN actions
          PROVE  after[i] = 0 /\ actions[i].requiresConfirmation
        BY <1>11, <1>12, <1>14, <1>15, <2>2
    <2> QED BY <2>1, <2>2
<1>19. StockAddsUp(q, actions)
    BY <1>8, <1>16, <1>17, <1>18 DEF StockAddsUp
<1> QED BY <1>5, <1>10, <1>12, <1>13, <1>19

-----------------------------------------------------------------------------
(***************************************************************************)
(* Planners: settlements                                                   *)
(***************************************************************************)
LEMMA MaxIsIn ==
    ASSUME NEW n \in Nat, NEW s \in SUBSET (1..n), s # {}
    PROVE  Max(s) \in s
<1> DEFINE Gaps == {n - x : x \in s}
<1>1. Gaps \in SUBSET Nat /\ Gaps # {}
    <2>1. \A x \in s : x \in Int /\ x <= n
        OBVIOUS
    <2>2. \A x \in s : n - x \in Nat
        BY <2>1
    <2> QED BY <2>2
<1>2. PICK gap \in Gaps : \A g \in Gaps : gap <= g
    <2> HIDE DEF Gaps
    <2> QED BY <1>1, FirstOfSome
<1>3. PICK x \in s : gap = n - x
    BY <1>2
<1>4. ASSUME NEW y \in s
      PROVE  x >= y
    <2>1. n - x <= n - y
        BY <1>2, <1>3
    <2>2. x \in Int /\ y \in Int
        OBVIOUS
    <2> QED BY <2>1, <2>2
<1> QED BY <1>4 DEF Max

LEMMA MaxUpTo ==
    ASSUME NEW k \in Nat
    PROVE  Max(1..(k + 1)) = k + 1 /\ (1..(k + 1)) \ {k + 1} = 1..k
<1>1. Max(1..(k + 1)) \in 1..(k + 1)
    <2>1. PICK m \in Nat : m = k + 1
        OBVIOUS
    <2>2. 1..m \in SUBSET (1..m) /\ 1..m # {}
        BY <2>1
    <2>3. Max(1..m) \in 1..m
        BY <2>2, MaxIsIn
    <2> QED BY <2>1, <2>3
<1>2. \E x \in 1..(k + 1) : \A y \in 1..(k + 1) : x >= y
    OBVIOUS
<1>3. \A y \in 1..(k + 1) : Max(1..(k + 1)) >= y
    BY <1>2 DEF Max
<1>4. Max(1..(k + 1)) >= k + 1
    BY <1>3
<1>5. (1..(k + 1)) \ {k + 1} = 1..k
    OBVIOUS
<1> QED BY <1>1, <1>4, <1>5

Amounts == [net : Int, fee : Int]

Added(sum, row) == [net |-> Money(sum.net + row.net), fee |-> Money(sum.fee + row.fee)]

\* The loop of reconcileSettlements over the rows of one order
Loop(iter, rows, o) ==
    iter = [s \in SUBSET DOMAIN rows |->
        IF s = {} THEN [net |-> 0, fee |-> 0]
        ELSE IF rows[Max(s)].order # o THEN iter[s \ {Max(s)}]
        ELSE Added(iter[s \ {Max(s)}], rows[Max(s)])]

LEMMA AggregateIsLoop ==
    ASSUME NEW q, NEW o
    PROVE  Aggregate(q, o) = (CHOOSE iter : Loop(iter, q.actual, o))[DOMAIN q.actual]
BY DEF Aggregate, FoldLeft, MapThenFoldSet, Loop, Added

\* The money helper moves an amount by half a hundredth at most.
LEMMA MoneyIsNear ==
    ASSUME NEW a \in Int
    PROVE  Money(a) \in Int /\ Money(a) - a <= 5 /\ a - Money(a) <= 5
BY DEF Money

LEMMA LoopExists ==
    ASSUME NEW rows, NEW n \in Nat, DOMAIN rows = 1..n, NEW o,
           \A i \in 1..n : rows[i].net \in Int /\ rows[i].fee \in Int
    PROVE  \E iter \in [SUBSET (1..n) -> Amounts] : Loop(iter, rows, o)
<1> DEFINE S == 1..n
           pick == [s \in SUBSET S |-> Max(s)]
           step == [xv \in S \X Amounts |-> IF rows[xv[1]].order # o THEN xv[2] ELSE Added(xv[2], rows[xv[1]])]
           none == [net |-> 0, fee |-> 0]
<1>1. \A s \in SUBSET S : s # {} => Max(s) \in s /\ pick[s] = Max(s)
    BY MaxIsIn
<1>2. PicksFrom(pick, S)
    BY <1>1 DEF PicksFrom
<1>3. ASSUME NEW i \in S, NEW sum \in Amounts
      PROVE  Added(sum, rows[i]) \in Amounts
    <2>1. sum.net + rows[i].net \in Int /\ sum.fee + rows[i].fee \in Int
        BY DEF Amounts
    <2>2. Money(sum.net + rows[i].net) \in Int /\ Money(sum.fee + rows[i].fee) \in Int
        BY <2>1, MoneyIsNear
    <2> QED BY <2>2 DEF Added, Amounts
<1>4. step \in [S \X Amounts -> Amounts]
    BY <1>3
<1>5. \A i \in S, sum \in Amounts :
        step[<<i, sum>>] = IF rows[i].order # o THEN sum ELSE Added(sum, rows[i])
    OBVIOUS
<1>6. none \in Amounts /\ IsFiniteSet(S)
    BY FS_Interval DEF Amounts
<1> HIDE DEF pick, step, none, S
<1>7. PICK iter \in [SUBSET S -> Amounts] : FoldsOver(iter, S, none, pick, step)
    BY <1>2, <1>4, <1>6, FoldsExist
<1>8. iter = [s \in SUBSET S |-> IF s = {} THEN none ELSE step[<<pick[s], iter[s \ {pick[s]}]>>]]
    BY <1>7 DEF FoldsOver
<1>9. ASSUME NEW s \in SUBSET S
      PROVE  iter[s] = IF s = {} THEN none
                       ELSE IF rows[Max(s)].order # o THEN iter[s \ {Max(s)}]
                       ELSE Added(iter[s \ {Max(s)}], rows[Max(s)])
    <2>1. CASE s = {}
        BY <1>8, <2>1
    <2>2. CASE s # {}
        <3>1. PICK i \in s : i = Max(s) /\ i = pick[s]
            BY <1>1, <2>2
        <3>2. iter[s] = step[<<pick[s], iter[s \ {pick[s]}]>>]
            BY <1>8, <2>2
        <3>3. i \in S /\ iter[s \ {i}] \in Amounts
            OBVIOUS
        <3>4. iter[s] = step[<<i, iter[s \ {i}]>>]
            BY <3>1, <3>2
        <3>5. iter[s] = IF rows[i].order # o THEN iter[s \ {i}] ELSE Added(iter[s \ {i}], rows[i])
            BY <1>5, <3>3, <3>4
        <3> QED BY <2>2, <3>1, <3>5
    <2> QED BY <2>1, <2>2
<1>10. DOMAIN rows = S
    BY DEF S
<1>11. Loop(iter, rows, o)
    BY <1>9, <1>10 DEF Loop, none
<1> QED BY <1>11 DEF S

\* Amounts that are no further apart than a third
Near(a, b, c) == a - b <= c /\ b - a <= c

\* What the loop has after some rows differs from what they paid by the roundings.
LEMMA LoopIsNear ==
    ASSUME NEW rows, NEW n \in Nat, DOMAIN rows = 1..n, NEW o,
           \A i \in 1..n : rows[i].net \in Int /\ rows[i].fee \in Int,
           NEW iter \in [SUBSET (1..n) -> Amounts], Loop(iter, rows, o),
           NEW nets, \A i \in 1..n : nets[i] = rows[i].net
    PROVE  \A k \in 0..n : Near(iter[1..k].net, Total(nets, {i \in 1..k : rows[i].order = o}),
                                5 * Cardinality({i \in 1..k : rows[i].order = o}))
<1> DEFINE Mine(k) == {i \in 1..k : rows[i].order = o}
           Good == {k \in 0..n : Near(iter[1..k].net, Total(nets, Mine(k)), 5 * Cardinality(Mine(k)))}
<1>1. \A k \in 0..n : IsFiniteSet(Mine(k)) /\ IntsOn(nets, Mine(k)) /\ Cardinality(Mine(k)) \in Nat
    <2> TAKE k \in 0..n
    <2>1. IsFiniteSet(1..k)
        BY FS_Interval
    <2>2. Mine(k) \in SUBSET (1..k) /\ \A i \in Mine(k) : i \in 1..n
        OBVIOUS
    <2>3. IsFiniteSet(Mine(k)) /\ Cardinality(Mine(k)) \in Nat
        BY <2>1, <2>2, FS_Subset, FS_CardinalityType
    <2> QED BY <2>2, <2>3 DEF IntsOn
<1>2. \A k \in 0..n : iter[1..k] \in Amounts /\ iter[1..k].net \in Int
    BY DEF Amounts
<1>3. 0 \in Good
    <2>1. 1..0 = {} /\ Mine(0) = {}
        OBVIOUS
    <2>2. iter[1..0] = [net |-> 0, fee |-> 0]
        BY <2>1 DEF Loop
    <2>3. Total(nets, Mine(0)) = 0 /\ Cardinality(Mine(0)) = 0
        BY <1>1, <2>1, TotalIsInt, FS_EmptySet
    <2> QED BY <2>2, <2>3 DEF Near
<1>4. ASSUME NEW k \in 0..(n - 1), k \in Good
      PROVE  k + 1 \in Good
    <2>1. k \in Nat /\ k \in 0..n /\ k + 1 \in 0..n /\ k + 1 \in 1..n
        OBVIOUS
    <2>2. iter[1..(k + 1)] = IF rows[k + 1].order # o THEN iter[1..k] ELSE Added(iter[1..k], rows[k + 1])
        <3>1. PICK s \in SUBSET DOMAIN rows : s = 1..(k + 1) /\ s # {}
            <4>1. 1..(k + 1) \subseteq 1..n /\ k + 1 \in 1..(k + 1)
                OBVIOUS
            <4> QED BY <4>1
        <3>2. iter[s] = IF rows[Max(s)].order # o THEN iter[s \ {Max(s)}]
                        ELSE Added(iter[s \ {Max(s)}], rows[Max(s)])
            BY <3>1 DEF Loop
        <3>3. Max(s) = k + 1 /\ s \ {k + 1} = 1..k
            BY <2>1, <3>1, MaxUpTo
        <3> QED BY <3>1, <3>2, <3>3
    <2>3. CASE rows[k + 1].order # o
        <3>1. Mine(k + 1) = Mine(k)
            BY <2>3
        <3> QED BY <1>4, <2>1, <2>2, <2>3, <3>1
    <2>4. CASE rows[k + 1].order = o
        <3>1. k + 1 \in Mine(k + 1) /\ Mine(k + 1) \ {k + 1} = Mine(k)
            BY <2>1, <2>4
        <3> HIDE DEF Mine
        <3>10. IsFiniteSet(Mine(k + 1)) /\ IntsOn(nets, Mine(k + 1))
            BY <1>1, <2>1
        <3>11. Total(nets, Mine(k + 1)) = nets[k + 1] + Total(nets, Mine(k + 1) \ {k + 1})
            BY <3>1, <3>10, TotalTakes
        <3>2. Total(nets, Mine(k + 1)) = nets[k + 1] + Total(nets, Mine(k))
            BY <3>1, <3>11
        <3>3. Cardinality(Mine(k)) = Cardinality(Mine(k + 1)) - 1
            BY <1>1, <2>1, <3>1, FS_RemoveElement
        <3>4. PICK a \in Int, t \in Int, p \in Int, c \in Nat :
                /\ a = iter[1..k].net /\ t = Total(nets, Mine(k)) /\ p = rows[k + 1].net
                /\ c = Cardinality(Mine(k))
            <4>1. Total(nets, Mine(k)) \in Int
                BY <1>1, <2>1, TotalIsInt
            <4> QED BY <1>1, <1>2, <2>1, <4>1
        <3>5. iter[1..(k + 1)].net = Money(a + p)
            BY <2>2, <2>4, <3>4 DEF Added
        <3>6. PICK m \in Int : m = Money(a + p) /\ m - (a + p) <= 5 /\ (a + p) - m <= 5
            <4>1. PICK x \in Int : x = a + p
                OBVIOUS
            <4>2. Money(x) \in Int /\ Money(x) - x <= 5 /\ x - Money(x) <= 5
                BY MoneyIsNear
            <4> QED BY <4>1, <4>2
        <3>7. Near(a, t, 5 * c)
            BY <1>4, <3>4
        <3>8. Near(m, p + t, 5 * (c + 1))
            BY <3>6, <3>7 DEF Near
        <3>9. Cardinality(Mine(k + 1)) = c + 1 /\ nets[k + 1] = p
            BY <1>1, <2>1, <3>3, <3>4
        <3> QED BY <2>1, <3>2, <3>4, <3>5, <3>6, <3>8, <3>9
    <2> QED BY <2>3, <2>4
<1>5. \A k \in 0..n : k \in Good
    <2> HIDE DEF Good
    <2> QED BY <1>3, <1>4, CountingUp
<1> QED BY <1>5

LEMMA LoopIsTyped ==
    ASSUME NEW rows, NEW n \in Nat, DOMAIN rows = 1..n, NEW o,
           \A i \in 1..n : rows[i].net \in Int /\ rows[i].fee \in Int,
           NEW iter, Loop(iter, rows, o)
    PROVE  iter \in [SUBSET (1..n) -> Amounts]
<1> DEFINE Good == {s \in SUBSET (1..n) : iter[s] \in Amounts}
<1>1. ASSUME NEW s \in SUBSET (1..n), \A t \in SUBSET s : t # s => t \in Good
      PROVE  s \in Good
    <2>1. CASE s = {}
        BY <2>1 DEF Loop, Amounts
    <2>2. CASE s # {}
        <3>1. PICK i \in s : i = Max(s)
            BY <2>2, MaxIsIn
        <3>2. s \ {i} \in SUBSET s /\ s \ {i} # s
            OBVIOUS
        <3>3. PICK sum \in Amounts : sum = iter[s \ {i}]
            BY <1>1, <3>2
        <3>4. iter[s] = IF rows[i].order # o THEN sum ELSE Added(sum, rows[i])
            BY <2>2, <3>1, <3>3 DEF Loop
        <3>5. sum.net + rows[i].net \in Int /\ sum.fee + rows[i].fee \in Int
            BY DEF Amounts
        <3>6. Money(sum.net + rows[i].net) \in Int /\ Money(sum.fee + rows[i].fee) \in Int
            BY <3>5, MoneyIsNear
        <3>7. Added(sum, rows[i]) \in Amounts
            BY <3>6 DEF Added, Amounts
        <3> QED BY <3>4, <3>7
    <2> QED BY <2>1, <2>2
<1>2. IsFiniteSet(1..n)
    BY FS_Interval
<1>3. \A s \in SUBSET (1..n) : s \in Good
    <2> HIDE DEF Good
    <2> QED BY <1>1, <1>2, SubsetInduction
<1>4. \A s \in SUBSET (1..n) : iter[s] \in Amounts
    BY <1>3
<1>5. iter = [s \in SUBSET (1..n) |-> iter[s]]
    BY DEF Loop
<1> QED BY <1>4, <1>5

\* What reconcileSettlements has for an order is what was paid, but for the roundings.
LEMMA AggregateIsNear ==
    ASSUME NEW q, SettlementQuestion(q), NEW o
    PROVE  /\ Aggregate(q, o) \in Amounts
           /\ SumFunction([i \in SettlementsOf(q, o) |-> q.actual[i].net]) \in Int
           /\ Cardinality(SettlementsOf(q, o)) \in Nat
           /\ Near(Aggregate(q, o).net, SumFunction([i \in SettlementsOf(q, o) |-> q.actual[i].net]),
                   5 * Cardinality(SettlementsOf(q, o)))
<1>1. PICK rows : rows = q.actual
    OBVIOUS
<1>2. PICK n \in Nat : DOMAIN rows = 1..n
    BY <1>1 DEF SettlementQuestion, IsList
<1>3. \A i \in 1..n : rows[i].net \in Int /\ rows[i].fee \in Int
    BY <1>1, <1>2 DEF SettlementQuestion
<1>4. PICK iter : iter = (CHOOSE any : Loop(any, rows, o))
    OBVIOUS
<1>5. \E any : Loop(any, rows, o)
    BY <1>2, <1>3, LoopExists
<1>6. Loop(iter, rows, o)
    BY <1>4, <1>5
<1>7. iter \in [SUBSET (1..n) -> Amounts]
    BY <1>2, <1>3, <1>6, LoopIsTyped
<1>8. Aggregate(q, o) = iter[1..n]
    BY <1>1, <1>2, <1>4, AggregateIsLoop
<1>9. PICK mine : mine = SettlementsOf(q, o)
    OBVIOUS
<1>10. mine = {i \in 1..n : rows[i].order = o}
    BY <1>1, <1>2, <1>9 DEF SettlementsOf
<1>11. PICK nets : nets = [i \in mine |-> rows[i].net]
    OBVIOUS
<1>12. PICK all : all = [i \in 1..n |-> rows[i].net]
    OBVIOUS
<1>13. \A i \in 1..n : all[i] = rows[i].net
    BY <1>12
<1>14. Near(iter[1..n].net, Total(all, mine), 5 * Cardinality(mine))
    <2>1. \A k \in 0..n : Near(iter[1..k].net, Total(all, {i \in 1..k : rows[i].order = o}),
                               5 * Cardinality({i \in 1..k : rows[i].order = o}))
        BY <1>2, <1>3, <1>6, <1>7, <1>13, LoopIsNear
    <2>2. n \in 0..n
        OBVIOUS
    <2> QED BY <1>10, <2>1, <2>2
<1>15. IsFiniteSet(mine) /\ Cardinality(mine) \in Nat
    <2>1. IsFiniteSet(1..n) /\ mine \in SUBSET (1..n)
        BY <1>10, FS_Interval
    <2> QED BY <2>1, FS_Subset, FS_CardinalityType
<1>16. IntsOn(all, mine) /\ \A i \in mine : all[i] = nets[i]
    BY <1>3, <1>10, <1>11, <1>13 DEF IntsOn
<1>17. Total(all, mine) = Total(nets, mine) /\ Total(all, mine) \in Int
    BY <1>15, <1>16, TotalsAgree, TotalIsInt
<1>18. SumFunction(nets) = Total(nets, mine)
    BY <1>11, SumIsTotal
<1>19. nets = [i \in SettlementsOf(q, o) |-> q.actual[i].net]
    BY <1>1, <1>9, <1>11
<1>20. iter[1..n] \in Amounts
    BY <1>7
<1> QED BY <1>8, <1>9, <1>14, <1>15, <1>17, <1>18, <1>19, <1>20

\* Every row accounts for its order but for the roundings, and each settlement is in
\* the row of its order and in no other.
THEOREM SettlementsAreReconciled ==
    \A q : SettlementQuestion(q) => SettlementsAddUp(q, Reconciliation(q))
<1>1. SUFFICES ASSUME NEW q, SettlementQuestion(q)
               PROVE  SettlementsAddUp(q, Reconciliation(q))
    OBVIOUS
<1>2. PICK rows : rows = Reconciliation(q)
    OBVIOUS
<1>3. DOMAIN rows = OrdersOf(q)
    BY <1>2 DEF Reconciliation
<1> DEFINE Paid(o) == SumFunction([i \in SettlementsOf(q, o) |-> q.actual[i].net])
           Owed(o) == IF o \in DOMAIN q.expected THEN q.expected[o].net ELSE 0
           Rounding(o) == 5 * (Cardinality(SettlementsOf(q, o)) + 1)
           due(o) == IF o \in DOMAIN q.expected THEN q.expected[o] ELSE [net |-> 0, fee |-> 0]
<1>4. ASSUME NEW o \in OrdersOf(q)
      PROVE  /\ rows[o].net = Money(Aggregate(q, o).net - due(o).net)
             /\ rows[o].status = "matched" => Magnitude(rows[o].net) <= q.tolerance
             /\ rows[o].settlements = SettlementsOf(q, o)
    BY <1>2 DEF Reconciliation
<1>5. ASSUME NEW o \in OrdersOf(q)
      PROVE  /\ Magnitude(rows[o].net - (Paid(o) - Owed(o))) <= Rounding(o)
             /\ rows[o].status = "matched" =>
                    Magnitude(Paid(o) - Owed(o)) <= q.tolerance + Rounding(o)
    <2>1. PICK paid \in Int, c \in Nat, a \in Int :
            /\ paid = Paid(o) /\ c = Cardinality(SettlementsOf(q, o)) /\ a = Aggregate(q, o).net
            /\ Near(a, paid, 5 * c)
        <3>1. /\ Aggregate(q, o) \in Amounts /\ Paid(o) \in Int
              /\ Cardinality(SettlementsOf(q, o)) \in Nat
              /\ Near(Aggregate(q, o).net, Paid(o), 5 * Cardinality(SettlementsOf(q, o)))
            BY <1>1, AggregateIsNear
        <3>2. Aggregate(q, o).net \in Int
            BY <3>1 DEF Amounts
        <3> HIDE DEF Paid
        <3> QED BY <3>1, <3>2
    <2>2. PICK d \in Int : d = Owed(o) /\ d = due(o).net
        BY <1>1 DEF SettlementQuestion
    <2>3. PICK m \in Int : m = rows[o].net /\ m - (a - d) <= 5 /\ (a - d) - m <= 5
        <3>1. PICK x \in Int : x = a - d
            OBVIOUS
        <3>2. Money(x) \in Int /\ Money(x) - x <= 5 /\ x - Money(x) <= 5
            BY MoneyIsNear
        <3>3. rows[o].net = Money(x)
            BY <1>4, <2>1, <2>2, <3>1
        <3> QED BY <3>1, <3>2, <3>3
    <2>4. PICK t \in Nat : t = q.tolerance
        BY <1>1 DEF SettlementQuestion
    <2>5. Rounding(o) = 5 * (c + 1)
        BY <2>1
    <2>6. m - (paid - d) <= 5 * (c + 1) /\ (paid - d) - m <= 5 * (c + 1)
        BY <2>1, <2>3 DEF Near
    <2>7. Magnitude(m - (paid - d)) <= 5 * (c + 1)
        BY <2>6 DEF Magnitude
    <2>8. Magnitude(m) <= t => Magnitude(paid - d) <= t + 5 * (c + 1)
        BY <2>6 DEF Magnitude
    <2> HIDE DEF Paid, Owed, Rounding
    <2> QED BY <1>4, <2>1, <2>2, <2>3, <2>4, <2>5, <2>7, <2>8
<1>6. ASSUME NEW i \in DOMAIN q.actual
      PROVE  {o \in DOMAIN rows : i \in rows[o].settlements} = {q.actual[i].order}
    <2>1. q.actual[i].order \in OrdersOf(q)
        BY DEF OrdersOf
    <2>2. \A o \in OrdersOf(q) : i \in rows[o].settlements <=> q.actual[i].order = o
        BY <1>4 DEF SettlementsOf
    <2> QED BY <1>3, <2>1, <2>2
<1>7. SettlementsAddUp(q, rows)
    BY <1>3, <1>5, <1>6 DEF SettlementsAddUp
<1> QED BY <1>2, <1>7

-----------------------------------------------------------------------------
(***************************************************************************)
(* Planners: the upload form and the automation rules                      *)
(***************************************************************************)
\* Half of a price
LEMMA Halves ==
    ASSUME NEW price \in Nat
    PROVE  price \div 2 \in Nat /\ OptionRange(price).min \in Int /\ OptionRange(price).max \in Int
<1>1. price \div 2 \in Nat
    OBVIOUS
<1>2. PICK h \in Nat : h = price \div 2
    BY <1>1
<1> QED BY <1>2 DEF OptionRange

\* A discount in the range the browser allows
LEMMA DiscountsInRange ==
    ASSUME NEW price \in Nat \ {0}, NEW value \in Nat, NEW unit \in {"PERCENT", "WON"},
           Within(value, DiscountRange(price, unit))
    PROVE  /\ 1 <= value /\ value <= MaxDiscount
           /\ unit = "PERCENT" => value < 100
           /\ unit = "WON" => value < price \/ price = 1
<1>1. PICK most \in Nat : most = (IF unit = "PERCENT" THEN 99
             ELSE Larger(1, Smaller(MaxDiscount, IF price > 1 THEN price - 1 ELSE 1)))
    BY DEF Larger, Smaller, MaxDiscount
<1>2. DiscountRange(price, unit).min = 1 /\ DiscountRange(price, unit).max = most
    BY <1>1 DEF DiscountRange
<1>3. 1 <= value /\ value <= most
    BY <1>2 DEF Within
<1> QED BY <1>1, <1>3 DEF Larger, Smaller, MaxDiscount

LEMMA SomethingIsPaid ==
    ASSUME NEW price \in Nat, price >= 50, NEW value \in Nat, value < 100, 1 <= value
    PROVE  (price \div 100) * (100 - value) + ((price % 100) * (100 - value) + 50) \div 100 >= 1
<1>1. PICK part \in Nat : part = 100 - value /\ part >= 1
    OBVIOUS
<1>2. PICK high \in Nat, low \in Nat : high = price \div 100 /\ low = price % 100 /\ price = 100 * high + low
    OBVIOUS
<1>3. high * part \in Nat /\ low * part \in Nat
    OBVIOUS
<1>4. (low * part + 50) \div 100 \in Nat
    <2>1. PICK x \in Nat : x = low * part + 50
        BY <1>3
    <2> QED BY <2>1
<1>5. CASE high >= 1
    <2>1. high * part >= 1
        BY <1>1, <1>5
    <2> QED BY <1>1, <1>2, <1>3, <1>4, <2>1
<1>6. CASE high = 0
    <2>1. low >= 50
        BY <1>2, <1>6
    <2>2. low * part >= 50
        BY <1>1, <2>1
    <2>3. PICK x \in Nat : x = low * part
        BY <1>3
    <2>4. (x + 50) \div 100 >= 1
        BY <2>2, <2>3
    <2>5. high * part = 0
        BY <1>6
    <2> QED BY <1>1, <1>2, <2>3, <2>4, <2>5
<1> QED BY <1>2, <1>5, <1>6

\* The browser's rules for a form and the server's, which are written a second time,
\* agree but in the three cases that are named, for every price, stock, discount and
\* list of options; and nothing is sold for nothing.
THEOREM FormsAgree ==
    \A q \in GuidedForm : FormAgreesWithServer(q, GuidedFormAccepts(q))
<1> SUFFICES ASSUME NEW q \in GuidedForm, GuidedFormAccepts(q), ~ OnlyServerRefuses(q)
             PROVE  /\ ServerAccepts(GuidedPayload(q))
                    /\ q.discount # Absent =>
                        \/ DiscountedPrice(q.price, q.discount) >= 1
                        \/ q.price < 50 /\ q.discount.unit = "PERCENT"
    BY DEF FormAgreesWithServer
<1>1. PICK price : price = q.price
    OBVIOUS
<1>2. price \in Nat \ {0} /\ price # Absent /\ Present(q.price, 0) = price
    <2>1. Present(q.price, 0) # 0
        BY DEF OnlyServerRefuses
    <2>2. q.price \in Optional(Nat)
        BY DEF GuidedForm
    <2> QED BY <1>1, <2>1, <2>2 DEF Present, Optional
<1>3. PICK p : p = GuidedPayload(q)
    OBVIOUS
<1>4. PICK stock : stock = Present(q.stock, 0)
    OBVIOUS
<1>5. /\ p.salePrice = price /\ p.stockQuantity = stock /\ p.discount = q.discount
      /\ p.options = [i \in DOMAIN q.options |->
            [price |-> q.options[i].delta, stockQuantity |-> Present(q.options[i].stock, stock)]]
    BY <1>2, <1>3, <1>4 DEF GuidedPayload
<1>6. stock \in Nat /\ stock <= MaxStock
    <2>1. q.stock \in Optional(Nat)
        BY DEF GuidedForm
    <2>2. stock \in Nat
        BY <1>4, <2>1 DEF Present, Optional
    <2>3. ~ (stock > MaxStock)
        BY <1>3, <1>5 DEF OnlyServerRefuses
    <2> QED BY <2>2, <2>3 DEF MaxStock
<1>7. ASSUME NEW i \in DOMAIN q.options
      PROVE  /\ i \in DOMAIN p.options /\ p.options[i].price = q.options[i].delta
             /\ p.options[i].stockQuantity \in Nat /\ p.options[i].stockQuantity <= MaxStock
    <2>0. q.options \in Seq([delta : Int, stock : Optional(Nat)])
        BY DEF GuidedForm
    <2>1. q.options[i] \in [delta : Int, stock : Optional(Nat)]
        <3> DEFINE Option == [delta : Int, stock : Optional(Nat)]
        <3>1. PICK options \in Seq(Option) : options = q.options
            BY <2>0
        <3> HIDE DEF Option
        <3>2. options[i] \in Option
            BY <3>1
        <3> QED BY <3>1, <3>2 DEF Option
    <2>2. p.options[i].price = q.options[i].delta
          /\ p.options[i].stockQuantity = Present(q.options[i].stock, stock)
        BY <1>5
    <2>3. p.options[i].stockQuantity \in Nat
        BY <1>6, <2>1, <2>2 DEF Present, Optional
    <2>4. p.options[i].stockQuantity <= MaxStock
        BY <1>3, <2>3 DEF OnlyServerRefuses, MaxStock
    <2> QED BY <1>5, <2>2, <2>3, <2>4
<1>8. /\ price <= MaxPrice
      /\ q.discount # Absent => Within(q.discount.value, DiscountRange(price, q.discount.unit))
      /\ \A i \in DOMAIN q.options : Within(q.options[i].delta, OptionRange(price))
      /\ q.options # <<>> => \E i \in DOMAIN q.options : q.options[i].delta = 0
    BY <1>2 DEF GuidedFormAccepts
<1>9. ASSUME q.discount # Absent
      PROVE  /\ q.discount.value \in Nat /\ q.discount.unit \in {"PERCENT", "WON"}
             /\ 1 <= q.discount.value /\ q.discount.value <= MaxDiscount
             /\ q.discount.unit = "PERCENT" => q.discount.value < 100
             /\ q.discount.unit = "WON" => q.discount.value < price
    <2>1. q.discount \in [value : Nat, unit : {"PERCENT", "WON"}]
        BY <1>9 DEF GuidedForm, Optional
    <2>2. q.discount.value \in Nat /\ q.discount.unit \in {"PERCENT", "WON"}
        BY <2>1
    <2>3. ~ (price = 1 /\ q.discount.unit = "WON")
        BY <1>1, <1>9 DEF OnlyServerRefuses
    <2> QED BY <1>2, <1>8, <1>9, <2>2, <2>3, DiscountsInRange
<1>10. ServerAccepts(p)
    <2>1. p.options # <<>> => \E i \in DOMAIN p.options : p.options[i].price = 0
        <3>1. CASE q.options = <<>>
            <4>1. DOMAIN p.options = {} /\ p.options = [i \in {} |-> 0]
                BY <1>5, <3>1
            <4> QED BY <4>1
        <3>2. CASE q.options # <<>>
            BY <1>7, <1>8, <3>2
        <3> QED BY <3>1, <3>2
    <2>2. DOMAIN p.options = DOMAIN q.options
        BY <1>5
    <2>3. \A i \in DOMAIN p.options :
            /\ Within(p.options[i].price, OptionRange(price))
            /\ 0 <= p.options[i].stockQuantity /\ p.options[i].stockQuantity <= MaxStock
        BY <1>7, <1>8, <2>2
    <2>4. ~ (p.salePrice <= 0) /\ 0 < p.salePrice /\ p.salePrice <= MaxPrice
        BY <1>2, <1>5, <1>8
    <2>5. 0 <= p.stockQuantity /\ p.stockQuantity <= MaxStock
        BY <1>5, <1>6
    <2>6. p.discount # Absent =>
            /\ 1 <= p.discount.value /\ p.discount.value <= MaxDiscount
            /\ p.discount.unit = "PERCENT" => p.discount.value < 100
            /\ p.discount.unit = "WON" => p.discount.value < p.salePrice
        BY <1>5, <1>9
    <2> QED BY <1>5, <2>1, <2>3, <2>4, <2>5, <2>6 DEF ServerAccepts
<1>11. ASSUME q.discount # Absent
       PROVE  \/ DiscountedPrice(price, q.discount) >= 1
              \/ price < 50 /\ q.discount.unit = "PERCENT"
    <2>1. PICK value \in Nat : value = q.discount.value /\ 1 <= value
        BY <1>9, <1>11
    <2>2. CASE q.discount.unit = "WON"
        <3>1. value < price
            BY <1>9, <1>11, <2>1, <2>2
        <3> QED BY <1>2, <2>1, <2>2, <3>1 DEF DiscountedPrice, Larger
    <2>3. CASE q.discount.unit = "PERCENT" /\ price >= 50
        <3>1. value < 100 /\ q.discount.unit # "WON"
            BY <1>9, <1>11, <2>1, <2>3
        <3>2. (price \div 100) * (100 - value) + ((price % 100) * (100 - value) + 50) \div 100 >= 1
            BY <1>2, <2>1, <2>3, <3>1, SomethingIsPaid
        <3> QED BY <2>1, <3>1, <3>2 DEF DiscountedPrice
    <2> QED BY <1>2, <1>9, <1>11, <2>2, <2>3
<1> QED BY <1>1, <1>3, <1>10, <1>11

\* Of finitely many things that are compared, some are not behind any other.
LEMMA SomeAreBest ==
    ASSUME NEW S, IsFiniteSet(S), S # {}, NEW Ahead \in SUBSET (S \X S),
           \A x \in S : <<x, x>> \notin Ahead,
           \A x, y, z \in S : <<x, y>> \in Ahead /\ <<y, z>> \in Ahead => <<x, z>> \in Ahead
    PROVE  \E best \in S : \A x \in S : <<x, best>> \notin Ahead
<1> DEFINE behind(x) == {y \in S : <<y, x>> \in Ahead}
           Counts == {Cardinality(behind(x)) : x \in S}
<1>1. \A x \in S : IsFiniteSet(behind(x)) /\ Cardinality(behind(x)) \in Nat
    BY FS_Subset, FS_CardinalityType
<1>2. Counts \subseteq Nat /\ Counts # {}
    <2> HIDE DEF behind
    <2> QED BY <1>1
<1>4. PICK n \in Counts : \A k \in Counts : n <= k
    <2> HIDE DEF Counts
    <2> QED BY <1>2, FirstOfSome
<1>5. PICK best \in S : n = Cardinality(behind(best))
    OBVIOUS
<1>6. ASSUME NEW x \in S, <<x, best>> \in Ahead
      PROVE  FALSE
    <2>1. behind(x) \subseteq behind(best) /\ x \in behind(best) /\ x \notin behind(x)
        BY <1>6
    <2>2. behind(x) # behind(best)
        BY <2>1
    <2> HIDE DEF behind
    <2>3. Cardinality(behind(x)) < Cardinality(behind(best))
        BY <1>1, <2>1, <2>2, FS_Subset
    <2>4. Cardinality(behind(x)) \in Counts
        BY DEF Counts
    <2>5. Cardinality(behind(x)) \in Nat /\ n \in Nat
        BY <1>1, <1>5
    <2> HIDE DEF Counts
    <2> QED BY <1>4, <1>5, <2>3, <2>4, <2>5
<1> QED BY <1>6

\* Among finitely many dated counts one is the newest, and of these the largest, and of
\* these the first.
LEMMA SomeIsNewest ==
    ASSUME NEW S \in SUBSET Nat, IsFiniteSet(S), S # {}, NEW at \in [S -> Int], NEW count \in [S -> Int]
    PROVE  \E best \in S : \A j \in S :
            \/ at[j] < at[best]
            \/ at[best] = at[j] /\ count[j] < count[best]
            \/ at[best] = at[j] /\ count[best] = count[j] /\ best <= j
<1> DEFINE Earlier(i, j) ==
            \/ at[j] < at[i]
            \/ at[i] = at[j] /\ count[j] < count[i]
            \/ at[i] = at[j] /\ count[i] = count[j] /\ i < j
           Ahead == {ij \in S \X S : Earlier(ij[1], ij[2])}
<1>1. \A i, j \in S : <<i, j>> \in Ahead <=> Earlier(i, j)
    OBVIOUS
<1>2. \A i \in S : ~ Earlier(i, i)
    OBVIOUS
<1>3. \A i, j, k \in S : Earlier(i, j) /\ Earlier(j, k) => Earlier(i, k)
    OBVIOUS
<1>4. Ahead \in SUBSET (S \X S)
    OBVIOUS
<1>5. \A i, j \in S : ~ Earlier(j, i) =>
            \/ at[j] < at[i]
            \/ at[i] = at[j] /\ count[j] < count[i]
            \/ at[i] = at[j] /\ count[i] = count[j] /\ i <= j
    OBVIOUS
<1> HIDE DEF Ahead, Earlier
<1>6. \A i \in S : <<i, i>> \notin Ahead
    BY <1>1, <1>2
<1>7. \A i, j, k \in S : <<i, j>> \in Ahead /\ <<j, k>> \in Ahead => <<i, k>> \in Ahead
    BY <1>1, <1>3
<1>8. PICK best \in S : \A j \in S : <<j, best>> \notin Ahead
    BY <1>4, <1>6, <1>7, SomeAreBest
<1> QED BY <1>1, <1>5, <1>8

\* A proposal rests on an alert that the seller is shown, the newest that its rule is
\* about; one that would change a marketplace asks for a confirmation and names the
\* market.  This holds of every rule the schema lets through and any list of alerts.
THEOREM ProposalsRest ==
    ASSUME NEW q, ValidRule(q.rule), RuleQuestion(q)
    PROVE  ProposalRestsOnAlert(q, Proposal(q.rule, q.signals))
<1> DEFINE matching == {i \in DOMAIN q.signals : q.rule.enabled /\ Matches(q.rule, q.signals[i])}
           Before(i, j) ==
            \/ q.signals[i].at > q.signals[j].at
            \/ /\ q.signals[i].at = q.signals[j].at
               /\ \/ q.signals[i].count > q.signals[j].count
                  \/ q.signals[i].count = q.signals[j].count /\ i <= j
           best == CHOOSE i \in matching : \A j \in matching : Before(i, j)
<1>1. SUFFICES ASSUME Proposal(q.rule, q.signals) # Absent
               PROVE  ProposalRestsOnAlert(q, Proposal(q.rule, q.signals))
    BY DEF ProposalRestsOnAlert
<1>2. PICK n \in Nat : DOMAIN q.signals = 1..n
    BY DEF RuleQuestion, IsList
<1>4. \A i \in DOMAIN q.signals : i \in Nat /\ q.signals[i].at \in Int /\ q.signals[i].count \in Int
    BY <1>2 DEF RuleQuestion
<1>5. matching # {}
    BY <1>1 DEF Proposal
<1>6. IsFiniteSet(matching)
    <2>1. IsFiniteSet(1..n)
        BY FS_Interval
    <2>2. matching \subseteq 1..n
        BY <1>2
    <2> HIDE DEF matching
    <2> QED BY <2>1, <2>2, FS_Subset
<1>7. \E i \in matching : \A j \in matching : Before(i, j)
    <2> DEFINE at == [i \in matching |-> q.signals[i].at]
               count == [i \in matching |-> q.signals[i].count]
    <2>1. at \in [matching -> Int] /\ count \in [matching -> Int] /\ matching \in SUBSET Nat
        BY <1>4
    <2>2. \A i \in matching : at[i] = q.signals[i].at /\ count[i] = q.signals[i].count
        OBVIOUS
    <2>3. \A i, j \in matching :
            /\ q.signals[j].at < q.signals[i].at => Before(i, j)
            /\ q.signals[i].at = q.signals[j].at /\ q.signals[j].count < q.signals[i].count => Before(i, j)
            /\ q.signals[i].at = q.signals[j].at /\ q.signals[i].count = q.signals[j].count /\ i <= j
                => Before(i, j)
        <3> HIDE DEF matching
        <3> QED OBVIOUS
    <2> HIDE DEF at, count, matching, Before
    <2>4. PICK newest \in matching : \A j \in matching :
            \/ at[j] < at[newest]
            \/ at[newest] = at[j] /\ count[j] < count[newest]
            \/ at[newest] = at[j] /\ count[newest] = count[j] /\ newest <= j
        BY <1>5, <1>6, <2>1, SomeIsNewest
    <2> QED BY <2>2, <2>3, <2>4
<1>8. best \in matching /\ \A j \in matching : Before(best, j)
    BY <1>7
<1>9. PICK chosen : chosen = best
    OBVIOUS
<1>20. Proposal(q.rule, q.signals) =
        [signal |-> best,
         market |-> IF q.rule.market # Absent THEN q.rule.market ELSE q.signals[best].market,
         action |-> q.rule.action,
         requiresConfirmation |-> IsMarketplaceMutation(q.rule.action)]
    BY <1>5 DEF Proposal
<1>10. Proposal(q.rule, q.signals) =
        [signal |-> chosen,
         market |-> IF q.rule.market # Absent THEN q.rule.market ELSE q.signals[chosen].market,
         action |-> q.rule.action,
         requiresConfirmation |-> IsMarketplaceMutation(q.rule.action)]
    <2> HIDE DEF best
    <2> QED BY <1>9, <1>20
<1>11. chosen \in matching /\ \A j \in matching : Before(chosen, j)
    BY <1>8, <1>9
<1> HIDE DEF best
<1>12. ASSUME NEW j \in matching
       PROVE  q.signals[j].at <= q.signals[chosen].at
    <2>1. q.signals[chosen].at > q.signals[j].at \/ q.signals[chosen].at = q.signals[j].at
        BY <1>11
    <2>2. PICK tc \in Int, tj \in Int : tc = q.signals[chosen].at /\ tj = q.signals[j].at
        BY <1>4, <1>11
    <2> HIDE DEF matching, Before
    <2>3. tc > tj \/ tc = tj
        BY <2>1, <2>2
    <2>4. tj <= tc
        BY <2>3
    <2> QED BY <2>2, <2>4
<1>13. PICK proposal : proposal = Proposal(q.rule, q.signals)
    OBVIOUS
<1>14. /\ proposal.signal = chosen /\ proposal.action = q.rule.action
       /\ proposal.requiresConfirmation = IsMarketplaceMutation(q.rule.action)
       /\ q.rule.market # Absent => proposal.market = q.rule.market
    BY <1>10, <1>13
<1>15. q.rule.enabled /\ Matches(q.rule, q.signals[chosen]) /\ chosen \in DOMAIN q.signals
    BY <1>11
<1>16. IsAlert(q.signals[chosen])
    BY <1>15 DEF Matches, IsAlert
<1>17. \A i \in DOMAIN q.signals : Matches(q.rule, q.signals[i]) => q.signals[i].at <= q.signals[chosen].at
    BY <1>12, <1>15
<1>18. ASSUME proposal.action \in {"pause_listing", "set_stock_zero"}
       PROVE  /\ proposal.requiresConfirmation /\ NeedsReview(q.signals[chosen])
              /\ proposal.market = q.signals[chosen].market /\ q.signals[chosen].market # Absent
    <2>1. IsMarketplaceMutation(q.rule.action)
        BY <1>14, <1>18 DEF IsMarketplaceMutation
    <2>2. q.rule.kind = "stock_risk" /\ q.rule.market # Absent
        BY <2>1 DEF ValidRule
    <2>3. q.signals[chosen].kind = "stock_risk" /\ q.signals[chosen].market = q.rule.market
        BY <1>15, <2>2 DEF Matches
    <2> QED BY <1>14, <2>1, <2>2, <2>3 DEF NeedsReview
<1> HIDE DEF matching, Before
<1>19. ProposalRestsOnAlert(q, proposal)
    BY <1>14, <1>16, <1>17, <1>18 DEF ProposalRestsOnAlert
<1> QED BY <1>13, <1>19

\* Whatever is asked, the advice holds: allocations add up, rows account for what was
\* paid, a proposal rests on the newest alert and asks before it changes a
\* marketplace, and the upload page lets nothing through that the server refuses but in
\* the three cases named.
THEOREM AdviceIsSound == PlannersSpec => []AdviceHolds
<1>1. PlannersInit => AdviceHolds
    BY DEF PlannersInit, AdviceHolds
<1>2. ASSUME NEW job \in Jobs, NEW q \in Questions(job), Consult(job, q)
      PROVE  AdviceHolds'
    <2>1. PICK given : given = advice'
        OBVIOUS
    <2>2. given.job = job /\ given.question = q
        BY <1>2, <2>1 DEF Consult
    <2>3. CASE job = "stock"
        <3>1. q \in StockQuestions /\ given.answer = StockSync(q.listed, Allocation(q).quantity)
            BY <1>2, <2>1, <2>3 DEF Questions, Consult
        <3>2. StockAddsUp(q, given.answer)
            BY <3>1, PlannersAssumption, StockIsShared
        <3> QED BY <2>1, <2>2, <2>3, <3>2 DEF AdviceHolds
    <2>4. CASE job = "settlements"
        <3>1. q \in SettlementQuestions /\ given.answer = Reconciliation(q)
            BY <1>2, <2>1, <2>4 DEF Questions, Consult
        <3>2. SettlementsAddUp(q, given.answer)
            BY <3>1, PlannersAssumption, SettlementsAreReconciled
        <3> QED BY <2>1, <2>2, <2>4, <3>2 DEF AdviceHolds
    <2>5. CASE job = "rules"
        <3>1. q \in RuleQuestions /\ ValidRule(q.rule) /\ given.answer = Proposal(q.rule, q.signals)
            BY <1>2, <2>1, <2>5 DEF Questions, Consult
        <3>2. RuleQuestion(q)
            BY <3>1, PlannersAssumption
        <3>3. ProposalRestsOnAlert(q, given.answer)
            BY <3>1, <3>2, ProposalsRest
        <3> QED BY <2>1, <2>2, <2>5, <3>3 DEF AdviceHolds
    <2>6. CASE job = "upload"
        <3>1. q \in UploadQuestions /\ given.answer = GuidedFormAccepts(q)
            BY <1>2, <2>1, <2>6 DEF Questions, Consult
        <3>2. q \in GuidedForm
            BY <3>1, PlannersAssumption
        <3>3. FormAgreesWithServer(q, given.answer)
            BY <3>1, <3>2, FormsAgree
        <3> QED BY <2>1, <2>2, <2>6, <3>3 DEF AdviceHolds
    <2> QED BY <2>3, <2>4, <2>5, <2>6 DEF Jobs
<1>3. AdviceHolds /\ [PlannersNext]_advice => AdviceHolds'
    <2>1. AdviceHolds /\ UNCHANGED advice => AdviceHolds'
        BY DEF AdviceHolds
    <2> QED BY <1>2, <2>1 DEF PlannersNext
<1> QED BY <1>1, <1>3, PTL DEF PlannersSpec

-----------------------------------------------------------------------------
(***************************************************************************)
(* The desk.  What is proved of a part holds of it while the others move,  *)
(* in any interleaving.                                                    *)
(***************************************************************************)
\* The desk does to each part what the part does by itself.
LEMMA PartsMoveAlone ==
    DeskSpec => ShipmentsSpec /\ PlannersSpec /\ FormSpec /\ ConnectionsSpec /\ WorkspaceSpec
<1>1. DeskInit => ShipmentsInit /\ PlannersInit /\ FormInit /\ ConnectionsInit /\ WorkspaceInit
    BY DEF DeskInit
<1>2. ASSUME [DeskNext]_deskVars
      PROVE  /\ [ShipmentsNext]_shipmentVars /\ [PlannersNext]_advice /\ [FormNext]_formVars
             /\ [ConnectionsNext]_connectionVars /\ [WorkspaceNext]_workspaceVars
    BY <1>2 DEF DeskNext, deskVars
<1> QED BY <1>1, <1>2, PTL
    DEF DeskSpec, ShipmentsSpec, PlannersSpec, FormSpec, ConnectionsSpec, WorkspaceSpec

\* The variables of the whole desk keep their types, whichever part moves.
THEOREM DeskTypeCorrect == DeskSpec => []DeskTypeOK
<1>1. DeskTypeOK <=> ShipmentsTypeOK /\ FormTypeOK /\ ConnectionsTypeOK /\ WorkspaceTypeOK
    BY DEF DeskTypeOK
<1> QED BY <1>1, PartsMoveAlone, ShipmentsTypeCorrect, FormTypeCorrect,
           ConnectionsTypeCorrect, WorkspaceTypeCorrect, PTL

\* The promises of the parts hold side by side: shipment plans are exact, the advice is
\* sound, what is sent was confirmed, no plan of a tenant is exceeded, and the page is
\* truthful.
THEOREM DeskKeepsItsPromises ==
    DeskSpec => [](/\ PlanIsExact /\ AcceptedOnce /\ AdviceHolds
                   /\ SentAsConfirmed /\ ConnectionsHold /\ PageIsTruthful)
BY PartsMoveAlone, PlansAreExact, LinesAreTakenOnce, AdviceIsSound, SentAsTicked, PlansAreHeld,
   PageTellsTheTruth, PTL
=============================================================================
