------------------------- MODULE RegistrationProofs -------------------------
(***************************************************************************)
(* Registration's safety properties, proved for any number of concurrent   *)
(* requests, keys, SKUs and products.                                      *)
(***************************************************************************)
EXTENDS Registration, TLAPS

(***************************************************************************)
(* The inductive invariant                                                 *)
(***************************************************************************)
\* No product number before the answer, one from the answer on.
IdAfterAnswer ==
    \A h \in Handlers :
        /\ handler[h].at \in {"claiming", "verifying", "posting"} => handler[h].id = NoProduct
        /\ handler[h].at = "mapping" => handler[h].id \in Products

\* Where a key stands in its cycle claim, POST, verdict: a row without a POST
\* under way has had its verdict for every POST sent.
SentWithinVerdicts ==
    /\ \A k \in Keys :
        /\ sent[k] <= failed[k] + 1
        /\ ledger[k].status \in {"none", "FAILED"} => sent[k] <= failed[k]
    /\ \A h \in Handlers :
        handler[h].at = "verifying" => sent[handler[h].key] <= failed[handler[h].key]

\* A product number a handler carries is a product created for its SKU, and once
\* past the mapping the SKU is mapped, unless a user interfered.
CarriedIsReal ==
    \A h \in Handlers : handler[h].at # "idle" /\ handler[h].id \in Products =>
        /\ made[handler[h].id] # NoPost
        /\ SkuOf[made[handler[h].id].body] = MySku(h)
        /\ handler[h].at = "finishing" => MySku(h) \in edited \/ catalog[MySku(h)] \in Products

\* The mapping of a SKU no user touched is a product created for it.
CatalogIsReal ==
    \A s \in Skus \ edited :
        /\ catalog[s] # NoSku
        /\ catalog[s] \in Products =>
            made[catalog[s]] # NoPost /\ SkuOf[made[catalog[s]].body] = s

IInv ==
    /\ TypeOK
    /\ OneHolderPerKey
    /\ IdAfterAnswer
    /\ SentWithinVerdicts
    /\ CarriedIsReal
    /\ CatalogIsReal
    /\ CompletedIsMapped
    /\ CompletedIsReal

-----------------------------------------------------------------------------
(***************************************************************************)
(* Lemmas                                                                  *)
(***************************************************************************)
\* A handler that is not idle carries a request.
LEMMA ActiveHandler ==
    ASSUME TypeOK, NEW h \in Handlers, handler[h].at # "idle"
    PROVE  /\ handler[h] \in Active
           /\ handler[h].key \in Keys
           /\ handler[h].body \in Bodies
           /\ MySku(h) \in Skus
<1>1. handler[h] \in Active
    BY DEF TypeOK, Idle
<1>2. QED
    BY <1>1, RegistrationAssumption DEF Active, MySku

\* A row with a status has a body.
LEMMA RealRow ==
    ASSUME TypeOK, NEW k \in Keys, ledger[k].status # "none"
    PROVE  /\ ledger[k] \in Row
           /\ ledger[k].body \in Bodies
           /\ SkuOf[ledger[k].body] \in Skus
<1>1. ledger[k] \in Row
    BY DEF TypeOK, NoRow
<1>2. QED
    BY <1>1, RegistrationAssumption DEF Row

LEMMA InitIInv == Init => IInv
    BY RegistrationAssumption
    DEF Init, IInv, TypeOK, Idle, NoRow, OneHolderPerKey, Holds, MyRow, IdAfterAnswer,
        SentWithinVerdicts, CarriedIsReal, CatalogIsReal, CompletedIsMapped, CompletedIsReal

LEMMA TypeStep == TypeOK /\ OneHolderPerKey /\ [Next]_vars => TypeOK'
<1> SUFFICES ASSUME TypeOK, OneHolderPerKey, [Next]_vars PROVE TypeOK'
    OBVIOUS
<1> USE RegistrationAssumption
<1>1. ASSUME NEW h \in Handlers, NEW k \in Keys, NEW b \in Bodies, Request(h, k, b)
      PROVE  TypeOK'
    BY <1>1 DEF Request, TypeOK, Active, historyVars
<1>2. ASSUME NEW h \in Handlers, Step(h) PROVE TypeOK'
    <2>1. CASE ClaimGranted(h)
        <3>1. handler[h] \in Active BY <2>1, ActiveHandler DEF ClaimGranted
        <3>2. handler' \in [Handlers -> Active \union {Idle}]
            BY <2>1, <3>1 DEF ClaimGranted, TypeOK, Active
        <3>3. ledger' \in [Keys -> Row \union {NoRow}]
            BY <2>1, <3>1 DEF ClaimGranted, TypeOK, Active, Row
        <3>4. QED BY <2>1, <3>2, <3>3 DEF ClaimGranted, TypeOK, historyVars
    <2>2. CASE ClaimRefused(h)
        BY <2>2 DEF ClaimRefused, GoIdle, TypeOK, historyVars
    <2>3. CASE VerifyOk(h)
        <3>1. handler[h] \in Active BY <2>3, ActiveHandler DEF VerifyOk
        <3>2. /\ sent[handler[h].key] + 1 \in Nat
              /\ sent' = [sent EXCEPT ![handler[h].key] = sent[handler[h].key] + 1]
              /\ sent'[handler[h].key] = sent[handler[h].key] + 1
            BY <2>3, <3>1 DEF VerifyOk, TypeOK, Active
        <3>3. handler' \in [Handlers -> Active \union {Idle}]
            BY <2>3, <3>1, <3>2 DEF VerifyOk, TypeOK, Active
        <3>4. wire' \subseteq Post
            BY <2>3, <3>1, <3>2 DEF VerifyOk, TypeOK, Active, Post
        <3>5. sent' \in [Keys -> Nat]
            BY <3>2 DEF TypeOK
        <3>6. QED BY <2>3, <3>3, <3>4, <3>5 DEF VerifyOk, TypeOK
    <2>4. CASE VerifyFails(h)
        <3>1. handler[h] \in Active BY <2>4, ActiveHandler DEF VerifyFails
        <3>2. QED BY <2>4, <3>1 DEF VerifyFails, TypeOK, Active, historyVars
    <2>5. CASE PostFails(h)
        <3>1. handler[h] \in Active BY <2>5, ActiveHandler DEF PostFails
        <3>2. QED BY <2>5, <3>1 DEF PostFails, TypeOK, Active, historyVars
    <2>6. ASSUME NEW p \in Products, PostAnswered(h, p) PROVE TypeOK'
        <3>1. handler[h] \in Active BY <2>6, ActiveHandler DEF PostAnswered
        <3>2. QED BY <2>6, <3>1 DEF PostAnswered, TypeOK, Active, historyVars
    <2>7. CASE MapProduct(h)
        <3>1. handler[h] \in Active /\ MySku(h) \in Skus
            BY <2>7, ActiveHandler DEF MapProduct
        <3>2. QED BY <2>7, <3>1 DEF MapProduct, TypeOK, Active, historyVars
    <2>8. CASE Finish(h)
        <3>1. handler[h] \in Active BY <2>8, ActiveHandler DEF Finish
        <3>2. MyRow(h) \in Row
            <4>1. MyRow(h).status = "PENDING"
                BY <2>8 DEF Finish, OneHolderPerKey, Holds
            <4>2. QED BY <3>1, <4>1, RealRow DEF MyRow, Active
        <3>3. ledger' \in [Keys -> Row \union {NoRow}]
            BY <2>8, <3>1, <3>2 DEF Finish, Verdict, MyRow, TypeOK, Active, Row
        <3>4. QED BY <2>8, <3>1, <3>3 DEF Finish, GoIdle, TypeOK, Active
    <2>9. QED BY <1>2, <2>1, <2>2, <2>3, <2>4, <2>5, <2>6, <2>7, <2>8
             DEF Step, Claim, Verify, Register
<1>3. ASSUME NEW h \in Handlers, WriteFails(h) PROVE TypeOK'
    BY <1>3 DEF WriteFails, ClaimWriteFails, MapWriteFails, FinishWriteFails, GoIdle, TypeOK,
                historyVars
<1>4. CASE Remote
    BY <1>4 DEF Remote, RemoteRejects, RemoteCreates, TypeOK, historyVars
<1>5. CASE User
    BY <1>5 DEF User, UserRemoves, UserUpserts, TypeOK, Created
<1>6. CASE Restart
    <2>1. ASSUME NEW k \in Keys PROVE Recovered(ledger[k]) \in Row \union {NoRow}
        <3>1. CASE ledger[k].status = "PENDING" /\ catalog[SkuOf[ledger[k].body]] \in Products
            <4>1. ledger[k] \in Row BY <3>1, RealRow
            <4>2. QED BY <3>1, <4>1 DEF Recovered, Row
        <3>2. CASE ~(ledger[k].status = "PENDING" /\ catalog[SkuOf[ledger[k].body]] \in Products)
            BY <3>2 DEF Recovered, TypeOK
        <3>3. QED BY <3>1, <3>2
    <2>2. QED BY <1>6, <2>1 DEF Restart, TypeOK, historyVars
<1>7. CASE UNCHANGED vars
    BY <1>7 DEF vars, TypeOK
<1>8. QED BY <1>1, <1>2, <1>3, <1>4, <1>5, <1>6, <1>7 DEF Next

\* The holder of a key is unique: only a claim makes one, and only from a row
\* that no holder can have left PENDING.
LEMMA HolderStep == TypeOK /\ OneHolderPerKey /\ [Next]_vars => OneHolderPerKey'
<1> SUFFICES ASSUME TypeOK, OneHolderPerKey, [Next]_vars PROVE OneHolderPerKey'
    OBVIOUS
<1> USE RegistrationAssumption DEF OneHolderPerKey, Holds, MyRow
<1>1. ASSUME NEW h \in Handlers, NEW k \in Keys, NEW b \in Bodies, Request(h, k, b)
      PROVE  OneHolderPerKey'
    BY <1>1 DEF Request, TypeOK
<1>2. ASSUME NEW h \in Handlers, Step(h) PROVE OneHolderPerKey'
    <2>1. CASE ClaimGranted(h)
        <3>1. handler[h] \in Active BY <2>1, ActiveHandler DEF ClaimGranted
        <3>2. handler[h].key \in Keys BY <3>1 DEF Active
        <3>3. \A g \in Handlers : Holds(g) => handler[g].key # handler[h].key
            BY <2>1 DEF ClaimGranted, Claimable, NoRow
        <3>4. /\ \A g \in Handlers \ {h} : handler'[g] = handler[g]
              /\ handler'[h].key = handler[h].key
              /\ handler'[h].body = handler[h].body
            BY <2>1, <3>1 DEF ClaimGranted, TypeOK, Active
        <3>5. /\ \A k \in Keys \ {handler[h].key} : ledger'[k] = ledger[k]
              /\ ledger'[handler[h].key].status = "PENDING"
              /\ ledger'[handler[h].key].body = handler[h].body
            BY <2>1, <3>2 DEF ClaimGranted, TypeOK
        <3>6. \A g \in Handlers : handler[g].at # "idle" => handler[g].key \in Keys
            BY ActiveHandler
        <3>7. QED BY <3>3, <3>4, <3>5, <3>6
    <2>2. CASE ClaimRefused(h)
        BY <2>2 DEF ClaimRefused, GoIdle, TypeOK, Idle
    <2>3. CASE VerifyOk(h)
        BY <2>3, ActiveHandler DEF VerifyOk, TypeOK, Active
    <2>4. CASE VerifyFails(h)
        BY <2>4, ActiveHandler DEF VerifyFails, TypeOK, Active
    <2>5. CASE PostFails(h)
        BY <2>5, ActiveHandler DEF PostFails, TypeOK, Active
    <2>6. ASSUME NEW p \in Products, PostAnswered(h, p) PROVE OneHolderPerKey'
        BY <2>6, ActiveHandler DEF PostAnswered, TypeOK, Active
    <2>7. CASE MapProduct(h)
        BY <2>7, ActiveHandler DEF MapProduct, TypeOK, Active
    <2>8. CASE Finish(h)
        <3>1. handler[h].key \in Keys BY <2>8, ActiveHandler DEF Finish
        <3>2. \A g \in Handlers \ {h} : Holds(g) => handler[g].key # handler[h].key
            BY <2>8 DEF Finish
        <3>3. /\ \A g \in Handlers \ {h} : handler'[g] = handler[g]
              /\ handler'[h] = Idle
              /\ \A k \in Keys \ {handler[h].key} : ledger'[k] = ledger[k]
            BY <2>8, <3>1 DEF Finish, GoIdle, TypeOK
        <3>4. \A g \in Handlers : handler[g].at # "idle" => handler[g].key \in Keys
            BY ActiveHandler
        <3>5. QED BY <3>2, <3>3, <3>4 DEF Idle
    <2>9. QED BY <1>2, <2>1, <2>2, <2>3, <2>4, <2>5, <2>6, <2>7, <2>8
             DEF Step, Claim, Verify, Register
<1>3. ASSUME NEW h \in Handlers, WriteFails(h) PROVE OneHolderPerKey'
    BY <1>3 DEF WriteFails, ClaimWriteFails, MapWriteFails, FinishWriteFails, GoIdle, TypeOK, Idle
<1>4. CASE Remote
    BY <1>4 DEF Remote, RemoteRejects, RemoteCreates
<1>5. CASE User
    BY <1>5 DEF User, UserRemoves, UserUpserts
<1>6. CASE Restart
    BY <1>6 DEF Restart, Idle
<1>7. CASE UNCHANGED vars
    BY <1>7 DEF vars
<1>8. QED BY <1>1, <1>2, <1>3, <1>4, <1>5, <1>6, <1>7 DEF Next

LEMMA IdStep == TypeOK /\ IdAfterAnswer /\ [Next]_vars => IdAfterAnswer'
<1> SUFFICES ASSUME TypeOK, IdAfterAnswer, [Next]_vars PROVE IdAfterAnswer'
    OBVIOUS
<1> USE RegistrationAssumption DEF IdAfterAnswer
<1>1. ASSUME NEW h \in Handlers, NEW k \in Keys, NEW b \in Bodies, Request(h, k, b)
      PROVE  IdAfterAnswer'
    BY <1>1 DEF Request, TypeOK
<1>2. ASSUME NEW h \in Handlers, Step(h) PROVE IdAfterAnswer'
    <2>1. CASE Claim(h)
        BY <2>1, ActiveHandler DEF Claim, ClaimGranted, ClaimRefused, GoIdle, Idle, TypeOK, Active
    <2>2. CASE Verify(h)
        BY <2>2, ActiveHandler DEF Verify, VerifyOk, VerifyFails, TypeOK, Active
    <2>3. CASE Register(h)
        BY <2>3, ActiveHandler DEF Register, PostFails, PostAnswered, TypeOK, Active
    <2>4. CASE MapProduct(h)
        BY <2>4, ActiveHandler DEF MapProduct, TypeOK, Active
    <2>5. CASE Finish(h)
        BY <2>5, ActiveHandler DEF Finish, GoIdle, Idle, TypeOK, Active
    <2>6. QED BY <1>2, <2>1, <2>2, <2>3, <2>4, <2>5 DEF Step
<1>3. ASSUME NEW h \in Handlers, WriteFails(h) PROVE IdAfterAnswer'
    BY <1>3 DEF WriteFails, ClaimWriteFails, MapWriteFails, FinishWriteFails, GoIdle, TypeOK, Idle
<1>4. CASE Remote \/ User \/ UNCHANGED vars
    BY <1>4 DEF Remote, RemoteRejects, RemoteCreates, User, UserRemoves, UserUpserts, vars
<1>5. CASE Restart
    BY <1>5 DEF Restart, Idle
<1>6. QED BY <1>1, <1>2, <1>3, <1>4, <1>5 DEF Next

\* A POST is sent once per claim, and a claim needs a verdict on the previous one.
LEMMA SentStep ==
    TypeOK /\ OneHolderPerKey /\ IdAfterAnswer /\ SentWithinVerdicts /\ [Next]_vars
        => SentWithinVerdicts'
<1> SUFFICES ASSUME TypeOK, OneHolderPerKey, IdAfterAnswer, SentWithinVerdicts, [Next]_vars
             PROVE  SentWithinVerdicts'
    OBVIOUS
<1> USE RegistrationAssumption DEF SentWithinVerdicts
<1>1. ASSUME NEW h \in Handlers, NEW k \in Keys, NEW b \in Bodies, Request(h, k, b)
      PROVE  SentWithinVerdicts'
    BY <1>1 DEF Request, TypeOK, historyVars
<1>2. ASSUME NEW h \in Handlers, Step(h) PROVE SentWithinVerdicts'
    <2>0. ASSUME handler[h].at # "idle"
          PROVE  /\ handler[h] \in Active /\ handler[h].key \in Keys
                 /\ sent[handler[h].key] \in Nat /\ failed[handler[h].key] \in Nat
        BY <2>0, ActiveHandler DEF TypeOK
    <2>1. CASE ClaimGranted(h)
        <3>1. sent[handler[h].key] <= failed[handler[h].key]
            BY <2>0, <2>1 DEF ClaimGranted, Claimable, MyRow, NoRow
        <3>2. QED BY <2>0, <2>1, <3>1 DEF ClaimGranted, TypeOK, Active, historyVars
    <2>2. CASE ClaimRefused(h)
        BY <2>2 DEF ClaimRefused, GoIdle, Idle, TypeOK, historyVars
    <2>3. CASE VerifyOk(h)
        <3>1. /\ sent[handler[h].key] <= failed[handler[h].key]
              /\ ledger[handler[h].key].status = "PENDING"
            BY <2>0, <2>3 DEF VerifyOk, OneHolderPerKey, Holds, MyRow
        <3>2. \A g \in Handlers \ {h} : Holds(g) => handler[g].key # handler[h].key
            BY <2>3 DEF VerifyOk, OneHolderPerKey, Holds
        <3>3. /\ sent' = [sent EXCEPT ![handler[h].key] = sent[handler[h].key] + 1]
              /\ \A g \in Handlers \ {h} : handler'[g] = handler[g]
              /\ handler'[h].at = "posting"
              /\ UNCHANGED <<ledger, failed>>
            BY <2>0, <2>3 DEF VerifyOk, TypeOK, Active
        <3>4. \A g \in Handlers : handler[g].at # "idle" => handler[g].key \in Keys
            BY ActiveHandler
        <3>5. QED BY <2>0, <2>3, <3>1, <3>2, <3>3, <3>4 DEF TypeOK, Holds, VerifyOk
    <2>4. CASE VerifyFails(h) \/ Register(h) \/ MapProduct(h)
        BY <2>0, <2>4 DEF VerifyFails, Register, PostFails, PostAnswered, MapProduct, TypeOK,
                          Active, historyVars
    <2>5. CASE Finish(h)
        <3>1. \A g \in Handlers \ {h} : Holds(g) => handler[g].key # handler[h].key
            BY <2>5 DEF Finish, OneHolderPerKey, Holds
        <3>2. /\ sent' = sent
              /\ \A g \in Handlers \ {h} : handler'[g] = handler[g]
              /\ handler'[h].at = "idle"
              /\ \A k \in Keys \ {handler[h].key} : ledger'[k] = ledger[k] /\ failed'[k] = failed[k]
              /\ ledger'[handler[h].key].status = Verdict(h)
              /\ Verdict(h) = "FAILED" => failed'[handler[h].key] = failed[handler[h].key] + 1
              /\ Verdict(h) = "COMPLETED" => failed'[handler[h].key] = failed[handler[h].key]
              /\ Verdict(h) \in {"FAILED", "COMPLETED"}
            BY <2>0, <2>5 DEF Finish, GoIdle, Idle, TypeOK, Verdict
        <3>3. \A g \in Handlers : handler[g].at # "idle" => handler[g].key \in Keys
            BY ActiveHandler
        <3>4. QED BY <2>0, <2>5, <3>1, <3>2, <3>3 DEF TypeOK, Holds, Finish
    <2>6. QED BY <1>2, <2>1, <2>2, <2>3, <2>4, <2>5 DEF Step, Claim, Verify
<1>3. ASSUME NEW h \in Handlers, WriteFails(h) PROVE SentWithinVerdicts'
    BY <1>3 DEF WriteFails, ClaimWriteFails, MapWriteFails, FinishWriteFails, GoIdle, TypeOK,
                Idle, historyVars
<1>4. CASE Remote \/ User \/ UNCHANGED vars
    BY <1>4 DEF Remote, RemoteRejects, RemoteCreates, User, UserRemoves, UserUpserts, vars,
                historyVars
<1>5. CASE Restart
    <2>1. \A k \in Keys : ledger'[k].status \in {"none", "FAILED"} => ledger'[k] = ledger[k]
        BY <1>5, RealRow DEF Restart, Recovered, Row
    <2>2. QED BY <1>5, <2>1 DEF Restart, Idle, historyVars
<1>6. QED BY <1>1, <1>2, <1>3, <1>4, <1>5 DEF Next

\* What each handler, mapping and COMPLETED row says of the marketplace stays true.
RealInv == CarriedIsReal /\ CatalogIsReal /\ CompletedIsMapped /\ CompletedIsReal

LEMMA RealStep ==
    TypeOK /\ TypeOK' /\ OneHolderPerKey /\ IdAfterAnswer /\ RealInv /\ [Next]_vars => RealInv'
<1> SUFFICES ASSUME TypeOK, TypeOK', OneHolderPerKey, IdAfterAnswer, RealInv, [Next]_vars
             PROVE  RealInv'
    OBVIOUS
<1> USE RegistrationAssumption
    DEF RealInv, CarriedIsReal, CatalogIsReal, CompletedIsMapped, CompletedIsReal
<1>0. /\ \A h \in Handlers : handler[h].at # "idle" =>
            handler[h] \in Active /\ handler[h].key \in Keys /\ MySku(h) \in Skus
      /\ \A k \in Keys : ledger[k].status = "COMPLETED" =>
            ledger[k] \in Row /\ ledger[k].id \in Products /\ SkuOf[ledger[k].body] \in Skus
    BY ActiveHandler, RealRow DEF Row
<1>1. ASSUME NEW h \in Handlers, NEW k \in Keys, NEW b \in Bodies, Request(h, k, b)
      PROVE  RealInv'
    BY <1>0, <1>1 DEF Request, TypeOK, MySku, historyVars
<1>2. ASSUME NEW h \in Handlers, Step(h) PROVE RealInv'
    <2>1. CASE Claim(h)
        BY <1>0, <2>1 DEF Claim, ClaimGranted, ClaimRefused, GoIdle, Idle, TypeOK, Active, MySku,
                          IdAfterAnswer, historyVars
    <2>2. CASE Verify(h)
        BY <1>0, <2>2 DEF Verify, VerifyOk, VerifyFails, TypeOK, Active, MySku, IdAfterAnswer,
                          historyVars
    <2>3. CASE PostFails(h)
        BY <1>0, <2>3 DEF PostFails, TypeOK, Active, MySku, IdAfterAnswer, historyVars
    <2>4. ASSUME NEW p \in Products, PostAnswered(h, p) PROVE RealInv'
        <3>1. made[p] # NoPost /\ made[p].body = handler[h].body
            BY <1>0, <2>4 DEF PostAnswered, MyPost, NoPost, Active, TypeOK, Post
        <3>2. QED
            BY <1>0, <2>4, <3>1 DEF PostAnswered, TypeOK, Active, MySku, historyVars
    <2>5. CASE MapProduct(h)
        <3>1. /\ handler[h].id \in Products
              /\ made[handler[h].id] # NoPost
              /\ SkuOf[made[handler[h].id].body] = MySku(h)
            BY <1>0, <2>5 DEF MapProduct, IdAfterAnswer
        <3>2. MySku(h) \in Skus
            BY <1>0, <2>5 DEF MapProduct
        <3>3. /\ catalog' \in [Skus -> Products \union {NoProduct, NoSku}]
              /\ \A s \in Skus : catalog'[s] = catalog[s] \/ (s = MySku(h) /\ catalog'[s] = handler[h].id)
              /\ catalog'[MySku(h)] # handler[h].id => MySku(h) \in edited
              /\ \A g \in Handlers \ {h} : handler'[g] = handler[g]
              /\ handler'[h] = [handler[h] EXCEPT !.at = "finishing"]
              /\ UNCHANGED <<ledger, made, edited>>
            BY <2>5, <3>2 DEF MapProduct, TypeOK, historyVars
        <3>4. /\ \A s \in Skus : catalog[s] \in Products => catalog'[s] \in Products
              /\ MySku(h) \in edited \/ catalog'[MySku(h)] \in Products
            BY <3>1, <3>3
        <3>5. CarriedIsReal'
            BY <1>0, <2>5, <3>1, <3>3, <3>4 DEF MapProduct, MySku, Active, Idle
        <3>6. CatalogIsReal' /\ CompletedIsMapped' /\ CompletedIsReal'
            BY <1>0, <3>1, <3>3, <3>4
        <3>7. QED BY <3>5, <3>6
    <2>6. CASE Finish(h)
        <3>1. ledger[handler[h].key].body = handler[h].body
            BY <1>0, <2>6 DEF Finish, OneHolderPerKey, Holds, MyRow
        <3>2. /\ ledger'[handler[h].key].body = handler[h].body
              /\ ledger'[handler[h].key].id = handler[h].id
              /\ ledger'[handler[h].key].status = "COMPLETED" => handler[h].id \in Products
              /\ \A k \in Keys \ {handler[h].key} : ledger'[k] = ledger[k]
              /\ \A g \in Handlers \ {h} : handler'[g] = handler[g]
              /\ handler'[h].at = "idle"
              /\ UNCHANGED <<catalog, made, edited>>
            BY <1>0, <2>6, <3>1 DEF Finish, GoIdle, Idle, Verdict, TypeOK, Active
        <3>3. handler[h].id \in Products =>
                /\ MySku(h) \in edited \/ catalog[MySku(h)] \in Products
                /\ made[handler[h].id] # NoPost
                /\ SkuOf[made[handler[h].id].body] = MySku(h)
            BY <2>6 DEF Finish
        <3>4. CarriedIsReal' /\ CatalogIsReal'
            BY <3>2 DEF MySku
        <3>5. CompletedIsMapped' /\ CompletedIsReal'
            BY <3>2, <3>3 DEF MySku
        <3>6. QED BY <3>4, <3>5
    <2>7. QED BY <1>2, <2>1, <2>2, <2>3, <2>4, <2>5, <2>6 DEF Step, Register
<1>3. ASSUME NEW h \in Handlers, WriteFails(h) PROVE RealInv'
    BY <1>0, <1>3 DEF WriteFails, ClaimWriteFails, MapWriteFails, FinishWriteFails, GoIdle,
                      TypeOK, Idle, MySku, historyVars
<1>4. CASE Remote
    <2>1. \A p \in Products : made[p] # NoPost => made'[p] = made[p]
        BY <1>4 DEF Remote, RemoteRejects, RemoteCreates, TypeOK
    <2>2. QED BY <1>0, <1>4, <2>1 DEF Remote, RemoteRejects, RemoteCreates, MySku, TypeOK,
                                      historyVars
<1>5. CASE User
    BY <1>0, <1>5 DEF User, UserRemoves, UserUpserts, TypeOK, MySku
<1>6. CASE Restart
    <2>1. /\ UNCHANGED <<catalog, made, edited>>
          /\ \A h \in Handlers : handler'[h].at = "idle"
        BY <1>6 DEF Restart, Idle, historyVars
    <2>2. ASSUME NEW k \in Keys, ledger'[k].status = "COMPLETED"
          PROVE  \/ ledger[k].status = "COMPLETED" /\ ledger'[k] = ledger[k]
                 \/ /\ ledger'[k].body = ledger[k].body
                    /\ ledger'[k].id = catalog[SkuOf[ledger[k].body]]
                    /\ ledger'[k].id \in Products
                    /\ SkuOf[ledger[k].body] \in Skus
        <3>1. ledger'[k] = Recovered(ledger[k])
            BY <1>6 DEF Restart
        <3>2. CASE ledger[k].status = "PENDING" /\ catalog[SkuOf[ledger[k].body]] \in Products
            <4>1. ledger[k] \in Row /\ SkuOf[ledger[k].body] \in Skus
                BY <3>2, RealRow
            <4>2. ledger'[k] = [ledger[k] EXCEPT !.status = "COMPLETED",
                                                 !.id = catalog[SkuOf[ledger[k].body]]]
                BY <3>1, <3>2 DEF Recovered
            <4>3. QED BY <3>2, <4>1, <4>2 DEF Row
        <3>3. CASE ~(ledger[k].status = "PENDING" /\ catalog[SkuOf[ledger[k].body]] \in Products)
            BY <2>2, <3>1, <3>3 DEF Recovered
        <3>4. QED BY <3>2, <3>3
    <2>3. CarriedIsReal' /\ CatalogIsReal'
        BY <2>1
    <2>4. CompletedIsMapped' /\ CompletedIsReal'
        BY <2>1, <2>2
    <2>5. QED BY <2>3, <2>4
<1>7. CASE UNCHANGED vars
    BY <1>7 DEF vars, MySku
<1>8. QED BY <1>1, <1>2, <1>3, <1>4, <1>5, <1>6, <1>7 DEF Next

LEMMA IInvStep == IInv /\ [Next]_vars => IInv'
    BY TypeStep, HolderStep, IdStep, SentStep, RealStep DEF IInv, RealInv

-----------------------------------------------------------------------------
(***************************************************************************)
(* Theorems                                                                *)
(***************************************************************************)
\* The invariant the others follow from.
THEOREM Inductive == Spec => []IInv
<1>1. Init => IInv
    BY InitIInv
<1>2. IInv /\ [Next]_vars => IInv'
    BY IInvStep
<1>3. QED BY <1>1, <1>2, PTL DEF Spec

\* Every variable keeps its type: in particular a COMPLETED row always has a
\* product number and no other row has one (recordSchema, lines 15-25).
THEOREM TypeCorrect == Spec => []TypeOK
<1>1. IInv => TypeOK
    BY DEF IInv
<1>2. QED BY <1>1, Inductive, PTL

\* Two requests with one key are never both past the claim.
THEOREM MutualExclusion == Spec => []OneHolderPerKey
<1>1. IInv => OneHolderPerKey
    BY DEF IInv
<1>2. QED BY <1>1, Inductive, PTL

\* The registration POST of a key is repeated only after a FAILED verdict.
THEOREM NoBlindRetry == Spec => []RetryOnlyAfterVerdict
<1>1. IInv => RetryOnlyAfterVerdict
    BY DEF IInv, SentWithinVerdicts, RetryOnlyAfterVerdict
<1>2. QED BY <1>1, Inductive, PTL

\* A COMPLETED row rests on a durable mapping and on a product that exists.
THEOREM VerdictIsBacked == Spec => []CompletedIsBacked
<1>1. IInv => CompletedIsBacked
    BY DEF IInv, CompletedIsBacked
<1>2. QED BY <1>1, Inductive, PTL

\* A COMPLETED row never changes again.
THEOREM ReplayIsStable == Spec => CompletedIsFinal
<1> DEFINE Kept == \A k \in Keys : ledger[k].status = "COMPLETED" => ledger'[k] = ledger[k]
<1>1. IInv /\ [Next]_vars => Kept
    <2> SUFFICES ASSUME IInv, [Next]_vars, NEW k \in Keys, ledger[k].status = "COMPLETED"
                 PROVE  ledger'[k] = ledger[k]
        OBVIOUS
    <2> USE DEF IInv, OneHolderPerKey, Holds, MyRow
    <2>1. ASSUME NEW h \in Handlers, Step(h) PROVE ledger'[k] = ledger[k]
        <3>1. CASE ClaimGranted(h)
            BY <2>1, <3>1 DEF ClaimGranted, Claimable, NoRow, TypeOK
        <3>2. CASE Finish(h)
            BY <2>1, <3>2 DEF Finish, TypeOK
        <3>3. CASE ~ClaimGranted(h) /\ ~Finish(h)
            BY <2>1, <3>3 DEF Step, Claim, ClaimRefused, Verify, VerifyOk, VerifyFails, Register,
                              PostFails, PostAnswered, MapProduct
        <3>4. QED BY <3>1, <3>2, <3>3
    <2>2. CASE Restart
        BY <2>2 DEF Restart, Recovered
    <2>3. CASE ~Restart /\ \A h \in Handlers : ~Step(h)
        BY <2>3 DEF Next, Request, WriteFails, ClaimWriteFails, MapWriteFails, FinishWriteFails,
                    Remote, RemoteRejects, RemoteCreates, User, UserRemoves, UserUpserts, vars
    <2>4. QED BY <2>1, <2>2, <2>3
<1>2. QED BY <1>1, Inductive, PTL DEF Spec, CompletedIsFinal
=============================================================================
