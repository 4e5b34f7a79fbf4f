---------------------------- MODULE BillingProofs ----------------------------
(***************************************************************************)
(* Billing's safety properties, proved for any number of orders, requests  *)
(* and days.                                                               *)
(***************************************************************************)
EXTENDS Billing, TLAPS, FiniteSetTheorems

(***************************************************************************)
(* The inductive invariant                                                 *)
(***************************************************************************)
Done(d) == {o \in Orders : d.order[o].status = "DONE"}

\* The orders an entitlement rests on: each extends another or none, no two
\* extend the same, and none extends the last.
IsChain(d, chain) ==
    /\ d.pro.last \in chain
    /\ \A o \in chain :
        /\ d.order[o].prev \in chain \union {None}
        /\ d.order[o].prev # d.pro.last
    /\ \A o, q \in chain : d.order[o].prev = d.order[q].prev /\ d.order[o].prev # None => o = q

\* Every order but the first of a chain added ProDays to what it extended.
AddsUp(d, chain) ==
    /\ d.order[d.pro.last].prev # None => d.pro.until = d.order[d.pro.last].prevUntil + ProDays
    /\ \A o \in chain : \A p \in chain :
        d.order[o].prev = p /\ d.order[p].prev # None =>
            d.order[o].prevUntil = d.order[p].prevUntil + ProDays

\* An image of the data, beside the payments and the time.
Solid(d, pays, time) ==
    /\ \A o \in Done(d) : pays[o] \in {"DONE", "CANCELED"}
    /\ d.pro # NoEntitlement =>
        /\ \E chain \in SUBSET Done(d) : IsChain(d, chain) /\ AddsUp(d, chain)
        /\ d.pro.until <= time + ProDays * Cardinality(Done(d))

AllSolid == \A d \in Images : Solid(d, payment, now)

\* A request in the queue is there once, waits for its write, and only the
\* first has begun it.
QueueOfSaving ==
    /\ \A n \in 1..Len(writes) : request[writes[n]].at \in Saving
    /\ \A m, n \in 1..Len(writes) : writes[m] = writes[n] => m = n
    /\ \A r \in Requests : image[r] # NoImage => writes # <<>> /\ Head(writes) = r

\* A status that a query returned was the payment's, which has not gone back,
\* and only the webhook that asked holds it.
SeenIsReal ==
    \A r \in Requests :
        /\ request[r].seen = "DONE" => payment[request[r].order] \in {"DONE", "CANCELED"}
        /\ request[r].seen # "none" => request[r].at = "querying"

\* What is DONE or CANCELED in d is never less in e.
Later(d, e) ==
    \A o \in Orders :
        /\ d.order[o].status = "DONE" => e.order[o].status \in {"DONE", "CANCELED"}
        /\ d.order[o].status = "CANCELED" => e.order[o].status = "CANCELED"

\* The file, the image being written and the memory follow each other.
InOrder ==
    /\ Later(disk, data)
    /\ \A r \in Requests : image[r] # NoImage => Later(disk, image[r]) /\ Later(image[r], data)

Carries(d, r) ==
    LET o == request[r].order
    IN  /\ request[r].at = "completing" => d.order[o].status \in {"DONE", "CANCELED"}
        /\ request[r].at = "canceling" => d.order[o].status = "CANCELED"

\* The memory, and the image of its own write, hold what a request waits for.
OwnWriteCarries ==
    \A r \in Requests : Carries(data, r) /\ (image[r] # NoImage => Carries(image[r], r))

IInv ==
    /\ TypeOK
    /\ QueueOfSaving
    /\ SeenIsReal
    /\ AllSolid
    /\ InOrder
    /\ OwnWriteCarries
    /\ AnsweredIsDurable
-----------------------------------------------------------------------------
(***************************************************************************)
(* Lemmas about the operations of the store                                *)
(***************************************************************************)
LEMMA DoneIsFinite ==
    ASSUME NEW d
    PROVE  IsFiniteSet(Done(d)) /\ Cardinality(Done(d)) \in Nat
BY BillingAssumption, FS_Subset, FS_CardinalityType DEF Done

LEMMA RealEntitlement ==
    ASSUME NEW d \in Data, d.pro # NoEntitlement
    PROVE  d.pro \in Entitlement /\ d.pro.until \in Nat /\ d.pro.last \in Orders /\ d.pro.last # None
BY BillingAssumption DEF Data, Entitlement

LEMMA OrderFields ==
    ASSUME NEW d \in Data, NEW o \in Orders
    PROVE  /\ d.order[o] \in Order /\ d.order \in [Orders -> Order]
           /\ d.order[o].prevUntil \in Nat
           /\ d.order[o].prev \in Orders \union {None}
           /\ d.order[o].status \in Status
BY DEF Data, Order

LEMMA OneMoreOrder ==
    ASSUME NEW n \in Nat
    PROVE  ProDays \in Nat /\ ProDays * n \in Nat /\ ProDays * (n + 1) = ProDays * n + ProDays
BY BillingAssumption

LEMMA AddBoth ==
    ASSUME NEW a \in Nat, NEW b \in Nat, NEW c \in Nat, NEW p \in Nat
    PROVE  a <= b + c <=> a + p <= b + (c + p)
OBVIOUS

\* A payment that goes on and time that passes leave an image solid.
LEMMA SolidStays ==
    ASSUME NEW d \in Data, NEW pays, NEW later, NEW t \in Nat, NEW u \in Nat, Solid(d, pays, t), t <= u,
           \A o \in Orders : pays[o] \in {"DONE", "CANCELED"} => later[o] \in {"DONE", "CANCELED"}
    PROVE  Solid(d, later, u)
<1>1. \A o \in Done(d) : later[o] \in {"DONE", "CANCELED"}
    BY DEF Solid, Done
<1>2. ASSUME d.pro # NoEntitlement
      PROVE  d.pro.until <= u + ProDays * Cardinality(Done(d))
    <2>1. d.pro.until \in Nat
        BY <1>2, RealEntitlement
    <2>2. ProDays * Cardinality(Done(d)) \in Nat
        BY DoneIsFinite, OneMoreOrder
    <2>3. d.pro.until <= t + ProDays * Cardinality(Done(d))
        BY <1>2 DEF Solid
    <2>4. QED BY <2>1, <2>2, <2>3
<1>3. QED BY <1>1, <1>2 DEF Solid

\* What changes the status of one order only, which is not DONE before or after.
SetsStatus(o, status) == data' = [data EXCEPT !.order[o].status = status]

LEMMA StatusSet ==
    ASSUME data \in Data, NEW o \in Orders, NEW status \in Status, SetsStatus(o, status)
    PROVE  /\ data' \in Data
           /\ data'.pro = data.pro
           /\ data'.order[o].status = status
           /\ \A p \in Orders : /\ p # o => data'.order[p] = data.order[p]
                                /\ data'.order[p].prev = data.order[p].prev
                                /\ data'.order[p].prevUntil = data.order[p].prevUntil
<1>1. data.order \in [Orders -> Order] /\ data.pro \in Entitlement \union {NoEntitlement}
    BY DEF Data
<1>2. [data.order[o] EXCEPT !.status = status] \in Order
    BY <1>1 DEF Order
<1>3. data' = [order |-> [data.order EXCEPT ![o] = [data.order[o] EXCEPT !.status = status]],
               pro |-> data.pro]
    BY <1>1 DEF SetsStatus, Data
<1>4. data' \in Data
    BY <1>1, <1>2, <1>3 DEF Data
<1>5. QED BY <1>1, <1>2, <1>3, <1>4 DEF Order

LEMMA SolidStatus ==
    ASSUME data \in Data, NEW o \in Orders, NEW status \in Status \ {"DONE"}, SetsStatus(o, status),
           data.order[o].status # "DONE", NEW pays, NEW t \in Nat, Solid(data, pays, t)
    PROVE  Solid(data', pays, t)
<1>1. Done(data') = Done(data)
    BY StatusSet DEF Done
<1>2. \A chain \in SUBSET Orders :
        IsChain(data, chain) /\ AddsUp(data, chain) => IsChain(data', chain) /\ AddsUp(data', chain)
    <2>1. data'.pro = data.pro
        BY StatusSet
    <2>2. \A p \in Orders : data'.order[p].prev = data.order[p].prev
                            /\ data'.order[p].prevUntil = data.order[p].prevUntil
        BY StatusSet
    <2> SUFFICES ASSUME NEW chain \in SUBSET Orders, IsChain(data, chain), AddsUp(data, chain)
                 PROVE  IsChain(data', chain) /\ AddsUp(data', chain)
        OBVIOUS
    <2>3. IsChain(data', chain)
        BY <2>1, <2>2 DEF IsChain
    <2>4. AddsUp(data', chain)
        BY <2>1, <2>2 DEF AddsUp, IsChain
    <2>5. QED BY <2>3, <2>4
<1>3. Done(data) \subseteq Orders
    BY DEF Done
<1>4. QED BY <1>1, <1>2, <1>3, StatusSet DEF Solid

LEMMA Completed ==
    ASSUME data \in Data, now \in Nat, NEW o \in Orders, CompleteOrder(o)
    PROVE  /\ data' \in Data
           /\ data'.order[o].status = "DONE"
           /\ \A p \in Orders : p # o => data'.order[p] = data.order[p]
           /\ data'.pro.last = o
           /\ Active => /\ data'.order[o].prev = data.pro.last
                        /\ data'.order[o].prevUntil = data.pro.until
                        /\ data'.pro.until = data.pro.until + ProDays
           /\ ~Active => /\ data'.order[o].prev = None
                         /\ data'.pro.until = now + ProDays
<1> DEFINE row == [status |-> "DONE",
                   prevUntil |-> IF Active THEN data.pro.until ELSE 0,
                   prev |-> IF Active THEN data.pro.last ELSE None]
           pro == [until |-> (IF Active THEN data.pro.until ELSE now) + ProDays, last |-> o]
<1>1. data.order \in [Orders -> Order] /\ data.pro \in Entitlement \union {NoEntitlement}
    BY DEF Data
<1>2. Active => data.pro.until \in Nat /\ data.pro.last \in Orders
    BY RealEntitlement DEF Active
<1>3. row \in Order
    BY <1>2 DEF Order, Status
<1>4. pro \in Entitlement
    BY <1>2, BillingAssumption DEF Entitlement
<1>5. data' = [order |-> [data.order EXCEPT ![o] = row], pro |-> pro]
    BY DEF CompleteOrder
<1>6. data' \in Data
    BY <1>1, <1>3, <1>4, <1>5 DEF Data
<1>7. QED BY <1>1, <1>5, <1>6

\* completeOrder puts the order on top of the chain.
LEMMA SolidComplete ==
    ASSUME data \in Data, now \in Nat, NEW o \in Orders, data.order[o].status # "DONE", CompleteOrder(o),
           NEW pays, pays[o] \in {"DONE", "CANCELED"}, Solid(data, pays, now)
    PROVE  Solid(data', pays, now)
<1> DEFINE n == Cardinality(Done(data))
<1> HIDE DEF n
<1>1. Done(data') = Done(data) \union {o} /\ o \notin Done(data)
    BY Completed DEF Done
<1>2. n \in Nat /\ Cardinality(Done(data')) = n + 1
    BY <1>1, DoneIsFinite, FS_AddElement DEF n
<1>3. \A p \in Done(data') : pays[p] \in {"DONE", "CANCELED"}
    BY <1>1 DEF Solid
<1>4. CASE Active
    <2>1. data.pro # NoEntitlement
        BY <1>4 DEF Active
    <2>2. PICK chain \in SUBSET Done(data) : IsChain(data, chain) /\ AddsUp(data, chain)
        BY <2>1 DEF Solid
    <2>3. data.pro.until <= now + ProDays * n
        BY <2>1 DEF Solid, n
    <2>4. chain \subseteq Orders /\ o \notin chain /\ o # None
        BY <1>1, <2>2, BillingAssumption DEF Done
    <2>5. \A p \in chain : data'.order[p] = data.order[p]
        BY <2>4, Completed
    <2>6. /\ data'.order[o].prev = data.pro.last
          /\ data'.order[o].prevUntil = data.pro.until
          /\ data'.pro.until = data.pro.until + ProDays
          /\ data'.pro.last = o
        BY <1>4, Completed
    <2>7. data.pro.last \in chain
        BY <2>2 DEF IsChain
    <2>8. IsChain(data', chain \union {o})
        BY <2>2, <2>4, <2>5, <2>6, <2>7 DEF IsChain
    <2>9. AddsUp(data', chain \union {o})
        <3>1. data'.order[o].prev # None => data'.pro.until = data'.order[o].prevUntil + ProDays
            BY <2>6
        <3>2. ASSUME NEW q \in chain \union {o}, NEW p \in chain \union {o},
                     data'.order[q].prev = p, data'.order[p].prev # None
              PROVE  data'.order[q].prevUntil = data'.order[p].prevUntil + ProDays
            <4>1. p \in chain
                BY <2>2, <2>4, <2>5, <2>6, <2>7, <3>2 DEF IsChain
            <4>2. CASE q = o
                BY <2>2, <2>5, <2>6, <3>2, <4>1, <4>2 DEF AddsUp
            <4>3. CASE q \in chain
                BY <2>2, <2>5, <3>2, <4>1, <4>3 DEF AddsUp
            <4>4. QED BY <4>2, <4>3
        <3>3. QED BY <2>6, <3>1, <3>2 DEF AddsUp
    <2>10. data'.pro.until <= now + ProDays * (n + 1)
        <3>1. data.pro.until \in Nat
            BY <2>1, RealEntitlement
        <3>2. ProDays \in Nat /\ ProDays * n \in Nat /\ ProDays * (n + 1) = ProDays * n + ProDays
            BY <1>2, OneMoreOrder
        <3>3. data.pro.until + ProDays <= now + (ProDays * n + ProDays)
            BY <2>3, <3>1, <3>2, AddBoth
        <3>4. QED BY <2>6, <3>2, <3>3
    <2>11. chain \union {o} \in SUBSET Done(data')
        BY <1>1
    <2>12. QED BY <1>2, <1>3, <2>8, <2>9, <2>10, <2>11 DEF Solid
<1>5. CASE ~Active
    <2>1. data'.order[o].prev = None /\ data'.pro.until = now + ProDays /\ data'.pro.last = o
        BY <1>5, Completed
    <2>2. IsChain(data', {o}) /\ AddsUp(data', {o})
        BY <2>1, BillingAssumption DEF IsChain, AddsUp
    <2>3. data'.pro.until <= now + ProDays * (n + 1)
        BY <1>2, <2>1, OneMoreOrder
    <2>4. {o} \in SUBSET Done(data')
        BY <1>1
    <2>5. QED BY <1>2, <1>3, <2>2, <2>3, <2>4 DEF Solid
<1>6. QED BY <1>4, <1>5

LEMMA Canceled ==
    ASSUME data \in Data, NEW o \in Orders, CancelOrder(o)
    PROVE  /\ data' \in Data
           /\ data'.order[o].status = "CANCELED"
           /\ data'.pro = AfterCancel(o)
           /\ \A p \in Orders : /\ p # o => data'.order[p] = data.order[p]
                                /\ data'.order[p].prev = data.order[p].prev
                                /\ data'.order[p].prevUntil = data.order[p].prevUntil
<1>1. data.order \in [Orders -> Order]
    BY DEF Data
<1>2. [data.order[o] EXCEPT !.status = "CANCELED"] \in Order
    BY <1>1 DEF Order, Status
<1>3. AfterCancel(o) \in Entitlement \union {NoEntitlement}
    BY OrderFields DEF AfterCancel, Entitlement
<1>4. data' = [order |-> [data.order EXCEPT ![o] = [data.order[o] EXCEPT !.status = "CANCELED"]],
               pro |-> AfterCancel(o)]
    BY <1>1 DEF CancelOrder
<1>5. data' \in Data
    BY <1>1, <1>2, <1>3, <1>4 DEF Data
<1>6. QED BY <1>1, <1>2, <1>4, <1>5 DEF Order

\* cancelOrder takes the top off the chain, or ends the entitlement.
LEMMA SolidCancel ==
    ASSUME data \in Data, now \in Nat, NEW o \in Orders, CancelOrder(o),
           NEW pays, Solid(data, pays, now)
    PROVE  Solid(data', pays, now)
<1>1. Done(data') = Done(data) \ {o}
    BY Canceled DEF Done
<1>2. \A p \in Done(data') : pays[p] \in {"DONE", "CANCELED"}
    BY <1>1 DEF Solid
<1>3. CASE AfterCancel(o) = NoEntitlement
    BY <1>2, <1>3, Canceled DEF Solid
<1>4. CASE AfterCancel(o) # NoEntitlement
    <2> DEFINE n == Cardinality(Done(data)) - 1
               p == data.order[o].prev
    <2> HIDE DEF n, p
    <2>1. data.pro.last = o /\ p # None /\ data'.pro.last = p
          /\ data'.pro.until = data.order[o].prevUntil
        <3>1. data.pro.last = o /\ data.order[o].prev # None
              /\ AfterCancel(o) = [until |-> data.order[o].prevUntil, last |-> data.order[o].prev]
            BY <1>4 DEF AfterCancel
        <3>2. data'.pro = AfterCancel(o)
            BY Canceled
        <3>3. QED BY <3>1, <3>2 DEF p
    <2>2. data.pro # NoEntitlement
        BY <2>1, BillingAssumption DEF NoEntitlement
    <2>3. PICK chain \in SUBSET Done(data) : IsChain(data, chain) /\ AddsUp(data, chain)
        BY <2>2 DEF Solid
    <2>4. o \in chain /\ o \in Done(data) /\ p \in chain /\ p # o /\ chain \subseteq Orders
        BY <2>1, <2>3 DEF IsChain, Done, p
    <2>5. \A q \in Orders : data'.order[q].prev = data.order[q].prev
                            /\ data'.order[q].prevUntil = data.order[q].prevUntil
        BY Canceled
    <2>6. IsChain(data', chain \ {o})
        <3>1. \A q \in chain \ {o} : data.order[q].prev # o /\ data.order[q].prev # p
            BY <2>1, <2>3, <2>4 DEF IsChain, p
        <3>2. QED BY <2>1, <2>3, <2>4, <2>5, <3>1 DEF IsChain
    <2>7. AddsUp(data', chain \ {o})
        BY <2>1, <2>3, <2>4, <2>5 DEF AddsUp, p
    <2>8. n \in Nat /\ Cardinality(Done(data')) = n /\ Cardinality(Done(data)) = n + 1
        <3>1. IsFiniteSet(Done(data)) /\ Cardinality(Done(data)) \in Nat
            BY DoneIsFinite
        <3>2. Cardinality(Done(data')) = Cardinality(Done(data)) - 1
            BY <1>1, <2>4, <3>1, FS_RemoveElement
        <3>3. Cardinality(Done(data')) \in Nat
            BY DoneIsFinite
        <3>4. QED BY <3>1, <3>2, <3>3 DEF n
    <2>9. data'.pro.until <= now + ProDays * n
        <3>1. data.pro.until <= now + (ProDays * n + ProDays)
            BY <2>2, <2>8, OneMoreOrder DEF Solid
        <3>2. data.pro.until = data.order[o].prevUntil + ProDays
            BY <2>1, <2>3 DEF AddsUp, p
        <3>3. data.order[o].prevUntil \in Nat
            BY OrderFields
        <3>4. ProDays \in Nat /\ ProDays * n \in Nat
            BY <2>8, OneMoreOrder
        <3>5. data.order[o].prevUntil <= now + ProDays * n
            BY <3>1, <3>2, <3>3, <3>4, AddBoth
        <3>6. QED BY <2>1, <3>5
    <2>10. chain \ {o} \in SUBSET Done(data')
        BY <1>1, <2>3
    <2>11. QED BY <1>2, <2>6, <2>7, <2>8, <2>9, <2>10 DEF Solid
<1>5. QED BY <1>3, <1>4
-----------------------------------------------------------------------------
(***************************************************************************)
(* The kinds of steps                                                      *)
(***************************************************************************)
Paid(o) == payment[o] \in {"DONE", "CANCELED"}

\* The store is left alone; requests wait for Toss Payments or end.
Quiet ==
    /\ UNCHANGED <<storeVars, historyVars>>
    /\ request' \in [Requests -> Request \union {Idle}]
    /\ posted' \subseteq {"create", "confirm"} \X Orders
    /\ payment' \in [Orders -> PaymentStatus]
    /\ \A o \in Orders : Paid(o) => Paid(o)'
    /\ now' \in 0..MaxTime /\ now <= now'
    /\ \A r \in Requests :
        \/ request'[r] = request[r]
        \/ /\ request[r].at \notin Saving /\ request'[r].at \notin Saving
           /\ request'[r].seen = "DONE" => Paid(request'[r].order)
           /\ request'[r].seen # "none" => request'[r].at = "querying"

\* A request changes the memory and queues its write.
Mutates(r, at, o) ==
    /\ request[r].at \notin Saving
    /\ Persist(r, at, o)
    /\ UNCHANGED <<tossVars, now, historyVars>>
    /\ \/ at = "creating" /\ StatusOf(o) = "none" /\ SetsStatus(o, "CREATED")
       \/ at = "failing" /\ StatusOf(o) \notin {"DONE", "CANCELED"} /\ SetsStatus(o, "FAILED")
       \/ at = "completing" /\ Completable(o) /\ Paid(o) /\ CompleteOrder(o)
       \/ at = "canceling" /\ CancelOrder(o)

LEMMA Waiting ==
    ASSUME TypeOK, NEW r \in Requests, request[r].at # "idle"
    PROVE  request[r] \in Request /\ request[r].order \in Orders
BY DEF TypeOK, Idle, Request

LEMMA WaitsFor ==
    ASSUME TypeOK, NEW r \in Requests, NEW o \in Orders,
           NEW at \in Saving \union {"paying", "confirming", "querying"}, Waits(r, at, o)
    PROVE  /\ request' \in [Requests -> Request \union {Idle}]
           /\ request'[r] = [at |-> at, order |-> o, seen |-> "none"]
           /\ \A q \in Requests \ {r} : request'[q] = request[q]
BY DEF TypeOK, Waits, Request, PaymentStatus

LEMMA EndsIdle ==
    ASSUME TypeOK, NEW r \in Requests, Ends(r)
    PROVE  /\ request' \in [Requests -> Request \union {Idle}]
           /\ request'[r] = Idle
           /\ \A q \in Requests \ {r} : request'[q] = request[q]
BY DEF TypeOK, Ends

LEMMA QuietEnds ==
    ASSUME TypeOK, NEW r \in Requests, request[r].at \notin Saving, Ends(r),
           UNCHANGED <<storeVars, tossVars, now, historyVars>>
    PROVE  Quiet
<1>1. now \in 0..MaxTime /\ now <= now
    BY BillingAssumption DEF TypeOK
<1>2. request'[r].at = "idle" /\ request'[r].seen = "none"
    BY EndsIdle DEF Idle
<1>3. QED BY <1>1, <1>2, EndsIdle DEF Quiet, TypeOK, tossVars, Saving, Paid

LEMMA QuietWaits ==
    ASSUME TypeOK, NEW r \in Requests, request[r].at \notin Saving, NEW o \in Orders,
           NEW at \in {"paying", "confirming", "querying"}, Waits(r, at, o),
           UNCHANGED <<storeVars, payment, now, historyVars>>,
           posted' \subseteq {"create", "confirm"} \X Orders
    PROVE  Quiet
<1>1. now \in 0..MaxTime /\ now <= now
    BY BillingAssumption DEF TypeOK
<1>2. /\ request' \in [Requests -> Request \union {Idle}]
      /\ request'[r] = [at |-> at, order |-> o, seen |-> "none"]
      /\ \A q \in Requests \ {r} : request'[q] = request[q]
    BY WaitsFor
<1>3. request'[r].at = at /\ request'[r].seen = "none" /\ at \notin Saving
    BY <1>2 DEF Saving
<1>4. QED BY <1>1, <1>2, <1>3 DEF Quiet, TypeOK, Paid

LEMMA Kinds ==
    ASSUME TypeOK, SeenIsReal, [Next]_vars
    PROVE  \/ Quiet
           \/ \E r \in Requests, o \in Orders : \E at \in Saving : Mutates(r, at, o)
           \/ \E r \in Requests : Writes(r)
           \/ Restart
<1> DEFINE Change == \E r \in Requests, o \in Orders : \E at \in Saving : Mutates(r, at, o)
<1> HIDE DEF Change
<1>0. ASSUME NEW r \in Requests, NEW o \in Orders, Paid(o), request[r].at \notin Saving,
             Completes(r, o), UNCHANGED <<tossVars, now, historyVars>>
      PROVE  Quiet \/ Change
    <2>1. CASE Completable(o)
        BY <1>0, <2>1 DEF Completes, Mutates, Change, Saving
    <2>2. CASE ~Completable(o)
        BY <1>0, <2>2, QuietEnds DEF Completes
    <2>3. QED BY <2>1, <2>2
<1>1. ASSUME NEW r \in Requests, NEW o \in Orders, Arrives(r, o) PROVE Quiet \/ Change
    <2>1. request[r].at \notin Saving
        BY <1>1 DEF Arrives, Checkout, Confirm, Webhook, Idle, Saving
    <2>2. CASE Checkout(r, o)
        BY <2>1, <2>2 DEF Checkout, CreateOrder, SetsStatus, Mutates, Change, Saving
    <2>3. CASE Confirm(r, o)
        BY <2>1, <2>3, QuietWaits DEF Confirm, TypeOK
    <2>4. CASE Webhook(r, o)
        BY <2>1, <2>4, QuietWaits DEF Webhook, tossVars, TypeOK
    <2>5. QED BY <1>1, <2>2, <2>3, <2>4 DEF Arrives
<1>2. ASSUME NEW r \in Requests, Step(r) PROVE Quiet \/ Change
    <2>1. request[r] \in Request /\ request[r].order \in Orders
        <3>1. request[r].at # "idle"
            BY <1>2 DEF Step, CheckoutAnswered, CheckoutFails, ConfirmAnswered, ConfirmFails,
                        QueryAnswered, WebhookActs, QueryFails, SeenIsReal
        <3>2. QED BY <3>1, Waiting
    <2>2. CASE CheckoutAnswered(r) \/ ConfirmFails(r) \/ QueryFails(r)
        BY <2>2, QuietEnds DEF CheckoutAnswered, ConfirmFails, QueryFails, Saving
    <2>3. CASE CheckoutFails(r)
        <3>1. CASE StatusOf(request[r].order) \in {"DONE", "CANCELED"}
            BY <2>3, <3>1, QuietEnds DEF CheckoutFails, Saving
        <3>2. CASE StatusOf(request[r].order) \notin {"DONE", "CANCELED"}
            BY <2>1, <2>3, <3>2 DEF CheckoutFails, FailOrder, SetsStatus, Mutates, Change, Saving
        <3>3. QED BY <3>1, <3>2
    <2>4. CASE ConfirmAnswered(r)
        <3>1. Paid(request[r].order) /\ request[r].at \notin Saving
            BY <2>4 DEF ConfirmAnswered, Paid, Saving
        <3>2. QED BY <1>0, <2>1, <2>4, <3>1 DEF ConfirmAnswered
    <2>5. CASE QueryAnswered(r)
        <3>1. PICK status \in Queried(r) : request' = [request EXCEPT ![r].seen = status]
            BY <2>5 DEF QueryAnswered
        <3>2. status = payment[request[r].order] /\ status \in PaymentStatus
            BY <2>1, <3>1 DEF Queried, TypeOK
        <3>3. [request[r] EXCEPT !.seen = status] \in Request
            BY <2>1, <3>2 DEF Request
        <3>4. request' = [request EXCEPT ![r] = [request[r] EXCEPT !.seen = status]]
            BY <3>1 DEF TypeOK
        <3>5. request' \in [Requests -> Request \union {Idle}]
              /\ \A q \in Requests \ {r} : request'[q] = request[q]
            BY <3>3, <3>4 DEF TypeOK
        <3>6. /\ request'[r].at = "querying" /\ request'[r].order = request[r].order
              /\ request'[r].seen = status
            BY <2>1, <2>5, <3>4 DEF QueryAnswered, TypeOK, Request
        <3>7. now \in 0..MaxTime /\ now <= now
            BY BillingAssumption DEF TypeOK
        <3>8. QED BY <2>5, <3>2, <3>5, <3>6, <3>7
                  DEF QueryAnswered, Quiet, tossVars, TypeOK, Saving, Paid
    <2>6. CASE WebhookActs(r)
        <3>1. request[r].at \notin Saving
            BY <2>6 DEF WebhookActs, SeenIsReal, Saving
        <3>2. CASE request[r].seen = "DONE"
            <4>1. Paid(request[r].order)
                BY <3>2 DEF SeenIsReal, Paid
            <4>2. QED BY <1>0, <2>1, <2>6, <3>1, <3>2, <4>1 DEF WebhookActs
        <3>3. CASE request[r].seen = "CANCELED" /\ StatusOf(request[r].order) \notin {"none", "CANCELED"}
            BY <2>1, <2>6, <3>1, <3>3 DEF WebhookActs, Mutates, Change, Saving
        <3>4. CASE ~(request[r].seen = "DONE") /\
                   ~(request[r].seen = "CANCELED" /\ StatusOf(request[r].order) \notin {"none", "CANCELED"})
            BY <2>6, <3>1, <3>4, QuietEnds DEF WebhookActs
        <3>5. QED BY <3>2, <3>3, <3>4
    <2>7. QED BY <1>2, <2>2, <2>3, <2>4, <2>5, <2>6 DEF Step
<1>3. ASSUME NEW o \in Orders, Toss(o) PROVE Quiet
    <2>1. PICK from \in PaymentStatus, to \in PaymentStatus :
            Pays(o, from, to) /\ (from \in {"DONE", "CANCELED"} => to \in {"DONE", "CANCELED"})
        BY <1>3 DEF Toss, TossCreates, CustomerPays, TossConfirms, TossRefunds, PaymentStatus
    <2>2. now \in 0..MaxTime /\ now <= now
        BY BillingAssumption DEF TypeOK
    <2>3. payment' \in [Orders -> PaymentStatus] /\ \A q \in Orders : Paid(q) => Paid(q)'
        BY <2>1 DEF Pays, TypeOK, Paid
    <2>4. QED BY <2>1, <2>2, <2>3 DEF Pays, Quiet, TypeOK
<1>4. CASE Tick
    <2>1. now' \in 0..MaxTime /\ now <= now'
        BY <1>4, BillingAssumption DEF Tick, TypeOK
    <2>2. QED BY <1>4, <2>1 DEF Tick, Quiet, TypeOK, tossVars, Paid
<1>5. CASE UNCHANGED vars
    <2>1. now \in 0..MaxTime /\ now <= now
        BY BillingAssumption DEF TypeOK
    <2>2. QED BY <1>5, <2>1 DEF vars, Quiet, TypeOK, storeVars, historyVars, Paid
<1>6. QED BY <1>1, <1>2, <1>3, <1>4, <1>5 DEF Next, Change
-----------------------------------------------------------------------------
(***************************************************************************)
(* What a step does to the store                                           *)
(***************************************************************************)
LEMMA LaterSelf == ASSUME NEW d PROVE Later(d, d)
BY DEF Later

LEMMA LaterTwice ==
    ASSUME NEW d, NEW e, NEW f, Later(d, e), Later(e, f)
    PROVE  Later(d, f)
BY DEF Later

\* A mutation keeps the data well formed and solid, never takes a completion or a
\* cancellation back, and leaves what its request waits for.
LEMMA Mutation ==
    ASSUME TypeOK, Solid(data, payment, now), NEW r \in Requests, NEW o \in Orders, NEW at \in Saving,
           Mutates(r, at, o)
    PROVE  /\ data' \in Data
           /\ Solid(data', payment, now)
           /\ Later(data, data')
           /\ at = "completing" => data'.order[o].status = "DONE"
           /\ at = "canceling" => data'.order[o].status = "CANCELED"
<1>1. data \in Data /\ now \in Nat
    BY BillingAssumption DEF TypeOK
<1>2. CASE at = "creating" /\ StatusOf(o) = "none" /\ SetsStatus(o, "CREATED")
    <2>1. "CREATED" \in Status \ {"DONE"} /\ data.order[o].status = "none"
        BY <1>2 DEF Status, StatusOf
    <2>2. data' \in Data /\ \A p \in Orders : p # o => data'.order[p] = data.order[p]
        BY <1>1, <1>2, <2>1, StatusSet
    <2>3. Solid(data', payment, now)
        BY <1>1, <1>2, <2>1, SolidStatus
    <2>4. QED BY <1>2, <2>1, <2>2, <2>3 DEF Later
<1>3. CASE at = "failing" /\ StatusOf(o) \notin {"DONE", "CANCELED"} /\ SetsStatus(o, "FAILED")
    <2>1. "FAILED" \in Status \ {"DONE"} /\ data.order[o].status \notin {"DONE", "CANCELED"}
        BY <1>3 DEF Status, StatusOf
    <2>2. data' \in Data /\ \A p \in Orders : p # o => data'.order[p] = data.order[p]
        BY <1>1, <1>3, <2>1, StatusSet
    <2>3. Solid(data', payment, now)
        BY <1>1, <1>3, <2>1, SolidStatus
    <2>4. QED BY <1>3, <2>1, <2>2, <2>3 DEF Later
<1>4. CASE at = "completing" /\ Completable(o) /\ Paid(o) /\ CompleteOrder(o)
    <2>1. data.order[o].status \in {"CREATED", "FAILED"} /\ payment[o] \in {"DONE", "CANCELED"}
        BY <1>4 DEF Completable, StatusOf, Paid
    <2>2. data' \in Data /\ data'.order[o].status = "DONE"
          /\ \A p \in Orders : p # o => data'.order[p] = data.order[p]
        BY <1>1, <1>4, Completed
    <2>3. Solid(data', payment, now)
        BY <1>1, <1>4, <2>1, SolidComplete
    <2>4. QED BY <1>4, <2>1, <2>2, <2>3 DEF Later
<1>5. CASE at = "canceling" /\ CancelOrder(o)
    <2>1. data' \in Data /\ data'.order[o].status = "CANCELED"
          /\ \A p \in Orders : p # o => data'.order[p] = data.order[p]
        BY <1>1, <1>5, Canceled
    <2>2. Solid(data', payment, now)
        BY <1>1, <1>5, SolidCancel
    <2>3. QED BY <1>5, <2>1, <2>2 DEF Later
<1>6. QED BY <1>2, <1>3, <1>4, <1>5 DEF Mutates

\* A mutation leaves all but its own request alone, which queues up last.
LEMMA Queueing ==
    ASSUME TypeOK, QueueOfSaving, NEW r \in Requests, NEW o \in Orders, NEW at \in Saving,
           Mutates(r, at, o)
    PROVE  /\ request' \in [Requests -> Request \union {Idle}]
           /\ request'[r] = [at |-> at, order |-> o, seen |-> "none"]
           /\ \A q \in Requests \ {r} : request'[q] = request[q]
           /\ writes' = Append(writes, r)
           /\ \A n \in 1..Len(writes) : writes[n] # r
           /\ image[r] = NoImage
<1>1. Waits(r, at, o) /\ writes' = Append(writes, r)
    BY DEF Mutates, Persist
<1>2. \A n \in 1..Len(writes) : writes[n] # r
    BY DEF QueueOfSaving, Mutates
<1>3. image[r] = NoImage
    <2>1. writes # <<>> => Len(writes) >= 1 /\ Head(writes) = writes[1]
        BY DEF TypeOK
    <2>2. QED BY <1>2, <2>1 DEF QueueOfSaving
<1>4. QED BY <1>1, <1>2, <1>3, WaitsFor

\* The end of a write: the queue moves up, no image is left, and only the request
\* of the write goes on.
LEMMA WriteOver ==
    ASSUME TypeOK, QueueOfSaving, NEW r \in Requests, Rename(r) \/ WriteFails(r)
    PROVE  /\ writes # <<>> /\ writes[1] = r /\ request[r].at \in Saving
           /\ writes' = Tail(writes)
           /\ \A q \in Requests : image'[q] = NoImage
           /\ image' \in [Requests -> Data \union {NoImage}]
           /\ request' \in [Requests -> Request \union {Idle}]
           /\ request'[r].at \notin Saving /\ request'[r].seen = "none"
           /\ \A q \in Requests \ {r} : request'[q] = request[q]
           /\ UNCHANGED <<data, payment, now>>
           /\ posted' \subseteq {"create", "confirm"} \X Orders
<1>1. writes # <<>> /\ Head(writes) = r /\ Dequeue(r)
    BY DEF Rename, WriteFails, Turn
<1>2. writes[1] = r /\ 1 \in 1..Len(writes)
    BY <1>1 DEF TypeOK
<1>3. request[r].at \in Saving
    BY <1>2 DEF QueueOfSaving
<1>4. \A q \in Requests : image'[q] = NoImage
    BY <1>1 DEF QueueOfSaving, Dequeue, TypeOK
<1>5. image' \in [Requests -> Data \union {NoImage}]
    BY <1>1 DEF Dequeue, TypeOK
<1>6. writes' = Tail(writes)
    BY <1>1 DEF Dequeue
<1>7. UNCHANGED <<data, payment, now>>
    BY DEF Rename, WriteFails, Rejected, tossVars
<1>8. request[r] \in Request /\ request[r].order \in Orders
    BY <1>3, Waiting DEF Saving
<1>9. posted' \subseteq {"create", "confirm"} \X Orders
    BY <1>8 DEF Rename, Resumes, WriteFails, Rejected, tossVars, TypeOK
<1>10. CASE Ends(r)
    BY <1>1, <1>2, <1>3, <1>4, <1>5, <1>6, <1>7, <1>9, <1>10, EndsIdle DEF Idle, Saving
<1>11. CASE Waits(r, "paying", request[r].order)
    <2>1. /\ request' \in [Requests -> Request \union {Idle}]
          /\ request'[r] = [at |-> "paying", order |-> request[r].order, seen |-> "none"]
          /\ \A q \in Requests \ {r} : request'[q] = request[q]
        BY <1>8, <1>11, WaitsFor
    <2>2. request'[r].at \notin Saving /\ request'[r].seen = "none"
        BY <2>1 DEF Saving
    <2>3. QED BY <1>1, <1>2, <1>3, <1>4, <1>5, <1>6, <1>7, <1>9, <2>1, <2>2
<1>12. QED BY <1>10, <1>11 DEF Rename, Resumes, WriteFails, Rejected
-----------------------------------------------------------------------------
(***************************************************************************)
(* The invariant is inductive                                              *)
(***************************************************************************)
LEMMA InitIInv == Init => IInv
<1> SUFFICES ASSUME Init PROVE IInv
    OBVIOUS
<1>1. EmptyData \in Data
    BY BillingAssumption DEF EmptyData, Data, Order, Status, NoOrder
<1>2. TypeOK
    <2>1. data \in Data /\ disk \in Data /\ writes \in Seq(Requests) /\ poisoned = FALSE
        BY <1>1 DEF Init
    <2>2. image \in [Requests -> Data \union {NoImage}] /\ request \in [Requests -> Request \union {Idle}]
        BY DEF Init
    <2>3. posted \subseteq {"create", "confirm"} \X Orders /\ payment \in [Orders -> PaymentStatus]
          /\ now \in 0..MaxTime /\ paid \subseteq Orders /\ refunded \subseteq Orders
        BY BillingAssumption DEF Init, PaymentStatus
    <2>4. QED BY <2>1, <2>2, <2>3 DEF TypeOK
<1>3. QueueOfSaving /\ SeenIsReal /\ AnsweredIsDurable
    BY DEF Init, QueueOfSaving, SeenIsReal, AnsweredIsDurable, Idle
<1>4. AllSolid
    BY DEF Init, AllSolid, Images, Solid, Done, EmptyData, NoOrder
<1>5. InOrder /\ OwnWriteCarries
    BY DEF Init, InOrder, Later, OwnWriteCarries, Carries, Idle
<1>6. QED BY <1>2, <1>3, <1>4, <1>5 DEF IInv

LEMMA TypeStep == IInv /\ [Next]_vars => TypeOK'
<1> SUFFICES ASSUME IInv, [Next]_vars PROVE TypeOK'
    OBVIOUS
<1>0. TypeOK /\ SeenIsReal /\ QueueOfSaving /\ Solid(data, payment, now)
    BY DEF IInv, AllSolid, Images
<1>1. CASE Quiet
    BY <1>0, <1>1 DEF Quiet, TypeOK, storeVars, historyVars
<1>2. ASSUME NEW r \in Requests, NEW o \in Orders, NEW at \in Saving, Mutates(r, at, o) PROVE TypeOK'
    <2>1. data' \in Data
        BY <1>0, <1>2, Mutation
    <2>2. request' \in [Requests -> Request \union {Idle}] /\ writes' = Append(writes, r)
        BY <1>0, <1>2, Queueing
    <2>3. writes' \in Seq(Requests)
        BY <1>0, <2>2 DEF TypeOK
    <2>4. QED BY <1>0, <1>2, <2>1, <2>2, <2>3 DEF TypeOK, Mutates, Persist, tossVars, historyVars
<1>3. ASSUME NEW r \in Requests, Serialise(r) PROVE TypeOK'
    BY <1>0, <1>3 DEF TypeOK, Serialise, tossVars, historyVars
<1>4. ASSUME NEW r \in Requests, Rename(r) \/ WriteFails(r) PROVE TypeOK'
    <2>1. /\ writes # <<>> /\ request[r].at \in Saving
          /\ writes' = Tail(writes)
          /\ image' \in [Requests -> Data \union {NoImage}]
          /\ request' \in [Requests -> Request \union {Idle}]
          /\ UNCHANGED <<data, payment, now>>
          /\ posted' \subseteq {"create", "confirm"} \X Orders
        BY <1>0, <1>4, WriteOver
    <2>2. writes' \in Seq(Requests)
        BY <1>0, <2>1 DEF TypeOK
    <2>3. request[r].order \in Orders
        BY <1>0, <2>1, Waiting DEF Saving
    <2>4. disk' \in Data /\ poisoned' \in BOOLEAN /\ paid' \subseteq Orders /\ refunded' \subseteq Orders
        BY <1>0, <1>4, <2>3 DEF Rename, Resumes, WriteFails, Rejected, historyVars, TypeOK
    <2>5. QED BY <1>0, <2>1, <2>2, <2>4 DEF TypeOK
<1>5. CASE Restart
    <2>1. data' \in Data /\ disk' \in Data /\ writes' \in Seq(Requests) /\ poisoned' = FALSE
        BY <1>0, <1>5 DEF TypeOK, Restart
    <2>2. image' \in [Requests -> Data \union {NoImage}] /\ request' \in [Requests -> Request \union {Idle}]
        BY <1>5 DEF Restart
    <2>3. QED BY <1>0, <1>5, <2>1, <2>2 DEF TypeOK, Restart, tossVars, historyVars
<1>6. QED BY <1>0, <1>1, <1>2, <1>3, <1>4, <1>5, Kinds DEF Writes

LEMMA QueueStep == IInv /\ [Next]_vars => QueueOfSaving' /\ SeenIsReal'
<1> SUFFICES ASSUME IInv, [Next]_vars PROVE QueueOfSaving' /\ SeenIsReal'
    OBVIOUS
<1>0. TypeOK /\ SeenIsReal /\ QueueOfSaving
    BY DEF IInv
<1>1. CASE Quiet
    <2>1. QueueOfSaving'
        BY <1>0, <1>1 DEF Quiet, TypeOK, storeVars, QueueOfSaving
    <2>2. SeenIsReal'
        <3> SUFFICES ASSUME NEW r \in Requests
                     PROVE  /\ request'[r].seen = "DONE" =>
                                payment'[request'[r].order] \in {"DONE", "CANCELED"}
                            /\ request'[r].seen # "none" => request'[r].at = "querying"
            BY DEF SeenIsReal
        <3>1. request'[r].seen # "none" => request'[r].at = "querying"
            BY <1>0, <1>1 DEF Quiet, SeenIsReal
        <3>2. request'[r].seen = "DONE" => Paid(request'[r].order)
            BY <1>0, <1>1 DEF Quiet, SeenIsReal, Paid
        <3>3. request'[r].seen # "none" => request'[r].order \in Orders
            BY <1>1, <3>1 DEF Quiet, Request, Idle
        <3>4. QED BY <1>1, <3>1, <3>2, <3>3 DEF Quiet, Paid
    <2>3. QED BY <2>1, <2>2
<1>2. ASSUME NEW r \in Requests, NEW o \in Orders, NEW at \in Saving, Mutates(r, at, o)
      PROVE  QueueOfSaving' /\ SeenIsReal'
    <2>1. /\ request'[r] = [at |-> at, order |-> o, seen |-> "none"]
          /\ \A q \in Requests \ {r} : request'[q] = request[q]
          /\ writes' = Append(writes, r)
          /\ \A n \in 1..Len(writes) : writes[n] # r
          /\ image' = image /\ payment' = payment
        BY <1>0, <1>2, Queueing DEF Mutates, Persist, tossVars
    <2>2. /\ Len(writes') = Len(writes) + 1 /\ writes' # <<>> /\ Len(writes) \in Nat
          /\ \A n \in 1..Len(writes) : writes'[n] = writes[n] /\ writes[n] \in Requests \ {r}
          /\ writes'[Len(writes) + 1] = r
          /\ writes # <<>> => Head(writes') = Head(writes)
        BY <1>0, <2>1 DEF TypeOK
    <2>3. \A n \in 1..Len(writes') : n \in 1..Len(writes) \/ n = Len(writes) + 1
        BY <2>2
    <2>4. \A n \in 1..Len(writes') : request'[writes'[n]].at \in Saving
        BY <1>0, <2>1, <2>2, <2>3 DEF QueueOfSaving
    <2>5. \A i, n \in 1..Len(writes') : writes'[i] = writes'[n] => i = n
        BY <1>0, <2>2, <2>3 DEF QueueOfSaving
    <2>6. \A q \in Requests : image'[q] # NoImage => writes' # <<>> /\ Head(writes') = q
        BY <1>0, <2>1, <2>2 DEF QueueOfSaving
    <2>7. SeenIsReal'
        BY <1>0, <2>1 DEF SeenIsReal
    <2>8. QED BY <2>4, <2>5, <2>6, <2>7 DEF QueueOfSaving
<1>3. ASSUME NEW r \in Requests, Serialise(r) PROVE QueueOfSaving' /\ SeenIsReal'
    BY <1>0, <1>3 DEF TypeOK, Serialise, Turn, tossVars, QueueOfSaving, SeenIsReal
<1>4. ASSUME NEW r \in Requests, Rename(r) \/ WriteFails(r) PROVE QueueOfSaving' /\ SeenIsReal'
    <2>1. /\ writes # <<>> /\ writes[1] = r /\ writes' = Tail(writes)
          /\ \A q \in Requests : image'[q] = NoImage
          /\ request'[r].seen = "none"
          /\ \A q \in Requests \ {r} : request'[q] = request[q]
          /\ payment' = payment
        BY <1>0, <1>4, WriteOver
    <2>2. /\ Len(writes') = Len(writes) - 1 /\ Len(writes) \in Nat \ {0}
          /\ \A n \in 1..Len(writes') : n + 1 \in 1..Len(writes) /\ writes'[n] = writes[n + 1]
        BY <1>0, <2>1 DEF TypeOK
    <2>3. \A n \in 1..Len(writes') : writes[n + 1] # r /\ writes[n + 1] \in Requests
        <3> SUFFICES ASSUME NEW n \in 1..Len(writes')
                     PROVE  writes[n + 1] # r /\ writes[n + 1] \in Requests
            OBVIOUS
        <3>1. n + 1 \in 1..Len(writes) /\ 1 \in 1..Len(writes) /\ n + 1 # 1
            BY <2>2
        <3>2. writes[n + 1] # r
            BY <1>0, <2>1, <3>1 DEF QueueOfSaving
        <3>3. QED BY <1>0, <3>1, <3>2 DEF TypeOK
    <2>4. \A n \in 1..Len(writes') : request'[writes'[n]].at \in Saving
        BY <1>0, <2>1, <2>2, <2>3 DEF QueueOfSaving
    <2>5. \A i, n \in 1..Len(writes') : writes'[i] = writes'[n] => i = n
        <3> SUFFICES ASSUME NEW i \in 1..Len(writes'), NEW n \in 1..Len(writes'), writes'[i] = writes'[n]
                     PROVE  i = n
            OBVIOUS
        <3>1. i + 1 \in 1..Len(writes) /\ n + 1 \in 1..Len(writes) /\ writes[i + 1] = writes[n + 1]
            BY <2>2
        <3>2. i + 1 = n + 1
            BY <1>0, <3>1 DEF QueueOfSaving
        <3>3. QED BY <3>2
    <2>6. SeenIsReal'
        BY <1>0, <2>1 DEF SeenIsReal
    <2>7. QED BY <2>1, <2>4, <2>5, <2>6 DEF QueueOfSaving
<1>5. CASE Restart
    BY <1>0, <1>5 DEF Restart, QueueOfSaving, SeenIsReal, Idle, tossVars, TypeOK
<1>6. QED BY <1>0, <1>1, <1>2, <1>3, <1>4, <1>5, Kinds DEF Writes

\* No step makes an image but of the memory, and the memory changes by mutations
\* and by reading the file.
LEMMA SolidStep == IInv /\ [Next]_vars => AllSolid'
<1> SUFFICES ASSUME IInv, [Next]_vars PROVE AllSolid'
    OBVIOUS
<1>0. TypeOK /\ SeenIsReal /\ QueueOfSaving /\ AllSolid
    BY DEF IInv
<1>1. \A d \in Images : d \in Data /\ Solid(d, payment, now)
    BY <1>0 DEF AllSolid, Images, TypeOK
<1>2. data \in Images /\ disk \in Images /\ \A r \in Requests : image[r] # NoImage => image[r] \in Images
    BY DEF Images
<1>3. CASE Quiet
    <2>1. Images' = Images /\ \A o \in Orders : Paid(o) => Paid(o)'
        BY <1>3 DEF Quiet, Images, storeVars
    <2>2. now \in Nat /\ now' \in Nat /\ now <= now'
        BY <1>0, <1>3, BillingAssumption DEF Quiet, TypeOK
    <2>3. \A d \in Images : Solid(d, payment', now')
        BY <1>1, <2>1, <2>2, SolidStays DEF Paid
    <2>4. QED BY <2>1, <2>3 DEF AllSolid, Solid, Done
<1>4. ASSUME NEW r \in Requests, NEW o \in Orders, NEW at \in Saving, Mutates(r, at, o) PROVE AllSolid'
    <2>1. Solid(data', payment, now)
        BY <1>0, <1>1, <1>2, <1>4, Mutation
    <2>2. Images' \subseteq Images \union {data'} /\ payment' = payment /\ now' = now
        BY <1>4 DEF Mutates, Persist, Images, tossVars
    <2>3. QED BY <1>1, <2>1, <2>2 DEF AllSolid, Solid, Done
<1>5. ASSUME Images' \subseteq Images, payment' = payment, now' = now PROVE AllSolid'
    BY <1>1, <1>5 DEF AllSolid, Solid, Done
<1>6. ASSUME NEW r \in Requests, Serialise(r) PROVE AllSolid'
    <2>1. Images' \subseteq Images /\ payment' = payment /\ now' = now
        BY <1>0, <1>6 DEF Serialise, Images, tossVars, TypeOK
    <2>2. QED BY <1>5, <2>1
<1>7. ASSUME NEW r \in Requests, Rename(r) \/ WriteFails(r) PROVE AllSolid'
    <2>1. (\A q \in Requests : image'[q] = NoImage) /\ UNCHANGED <<data, payment, now>>
        BY <1>0, <1>7, WriteOver
    <2>2. disk' \in Images
        BY <1>2, <1>7 DEF Rename, WriteFails
    <2>3. Images' \subseteq Images
        BY <1>2, <2>1, <2>2 DEF Images
    <2>4. QED BY <1>5, <2>1, <2>3
<1>8. CASE Restart
    <2>1. Images' \subseteq Images /\ payment' = payment /\ now' = now
        BY <1>8 DEF Restart, Images, tossVars
    <2>2. QED BY <1>5, <2>1
<1>9. QED BY <1>0, <1>3, <1>4, <1>6, <1>7, <1>8, Kinds DEF Writes
LEMMA OrderStep == IInv /\ [Next]_vars => InOrder'
<1> SUFFICES ASSUME IInv, [Next]_vars PROVE InOrder'
    OBVIOUS
<1>0. TypeOK /\ SeenIsReal /\ QueueOfSaving /\ InOrder /\ Solid(data, payment, now)
    BY DEF IInv, AllSolid, Images
<1>1. CASE Quiet
    BY <1>0, <1>1 DEF Quiet, storeVars, InOrder, Later
<1>2. ASSUME NEW r \in Requests, NEW o \in Orders, NEW at \in Saving, Mutates(r, at, o) PROVE InOrder'
    <2>1. Later(data, data') /\ disk' = disk /\ image' = image
        BY <1>0, <1>2, Mutation DEF Mutates, Persist
    <2>2. Later(disk, data')
        BY <1>0, <2>1, LaterTwice DEF InOrder
    <2>3. \A q \in Requests : image[q] # NoImage => Later(disk, image[q]) /\ Later(image[q], data')
        BY <1>0, <2>1, LaterTwice DEF InOrder
    <2>4. QED BY <2>1, <2>2, <2>3 DEF InOrder, Later
<1>3. ASSUME NEW r \in Requests, Serialise(r) PROVE InOrder'
    <2>1. data' = data /\ disk' = disk /\ \A q \in Requests : image'[q] = image[q] \/ image'[q] = data
        BY <1>0, <1>3 DEF Serialise, TypeOK
    <2>2. Later(disk, data) /\ Later(data, data)
        BY <1>0, LaterSelf DEF InOrder
    <2>3. \A q \in Requests : image'[q] # NoImage => Later(disk, image'[q]) /\ Later(image'[q], data)
        BY <1>0, <2>1, <2>2 DEF InOrder
    <2>4. QED BY <2>1, <2>2, <2>3 DEF InOrder, Later
<1>4. ASSUME NEW r \in Requests, Rename(r) \/ WriteFails(r) PROVE InOrder'
    <2>1. data' = data /\ \A q \in Requests : image'[q] = NoImage
        BY <1>0, <1>4, WriteOver
    <2>2. Later(disk', data)
        BY <1>0, <1>4 DEF Rename, WriteFails, InOrder
    <2>3. QED BY <2>1, <2>2 DEF InOrder, Later
<1>5. CASE Restart
    <2>1. disk' = disk /\ data' = disk /\ \A q \in Requests : image'[q] = NoImage
        BY <1>5 DEF Restart
    <2>2. QED BY <2>1 DEF InOrder, Later
<1>6. QED BY <1>0, <1>1, <1>2, <1>3, <1>4, <1>5, Kinds DEF Writes

LEMMA CarriesStep == IInv /\ [Next]_vars => OwnWriteCarries'
<1> SUFFICES ASSUME IInv, [Next]_vars PROVE OwnWriteCarries'
    OBVIOUS
<1>0. TypeOK /\ SeenIsReal /\ QueueOfSaving /\ OwnWriteCarries /\ Solid(data, payment, now)
    BY DEF IInv, AllSolid, Images
<1>1. CASE Quiet
    <2>1. data' = data /\ image' = image
        BY <1>1 DEF Quiet, storeVars
    <2>2. \A q \in Requests : request'[q] = request[q] \/ request'[q].at \notin {"completing", "canceling"}
        BY <1>1 DEF Quiet, Saving
    <2>3. QED BY <1>0, <2>1, <2>2 DEF OwnWriteCarries, Carries
<1>2. ASSUME NEW r \in Requests, NEW o \in Orders, NEW at \in Saving, Mutates(r, at, o)
      PROVE  OwnWriteCarries'
    <2>1. /\ Later(data, data')
          /\ at = "completing" => data'.order[o].status = "DONE"
          /\ at = "canceling" => data'.order[o].status = "CANCELED"
        BY <1>0, <1>2, Mutation
    <2>2. /\ request'[r] = [at |-> at, order |-> o, seen |-> "none"]
          /\ \A q \in Requests \ {r} : request'[q] = request[q]
          /\ image[r] = NoImage /\ image' = image
        BY <1>0, <1>2, Queueing DEF Mutates, Persist
    <2>3. ASSUME NEW q \in Requests \ {r} PROVE Carries(data, q)' /\ (image'[q] # NoImage => Carries(image[q], q)')
        <3>1. request[q].at \in {"completing", "canceling"} => request[q].order \in Orders
            BY <1>0, Waiting
        <3>2. QED BY <1>0, <2>1, <2>2, <3>1 DEF OwnWriteCarries, Carries, Later
    <2>4. Carries(data, r)'
        BY <2>1, <2>2 DEF Carries
    <2>5. QED BY <2>2, <2>3, <2>4 DEF OwnWriteCarries, Carries
<1>3. ASSUME NEW r \in Requests, Serialise(r) PROVE OwnWriteCarries'
    <2>1. /\ data' = data /\ request' = request
          /\ \A q \in Requests : image'[q] = image[q] \/ image'[q] = data
        BY <1>0, <1>3 DEF Serialise, TypeOK
    <2>2. QED BY <1>0, <2>1 DEF OwnWriteCarries, Carries
<1>4. ASSUME NEW r \in Requests, Rename(r) \/ WriteFails(r) PROVE OwnWriteCarries'
    <2>1. /\ data' = data /\ request'[r].at \notin {"completing", "canceling"}
          /\ \A q \in Requests : image'[q] = NoImage
          /\ \A q \in Requests \ {r} : request'[q] = request[q]
        BY <1>0, <1>4, WriteOver DEF Saving
    <2>2. QED BY <1>0, <2>1 DEF OwnWriteCarries, Carries
<1>5. CASE Restart
    BY <1>5 DEF Restart, OwnWriteCarries, Carries, Idle
<1>6. QED BY <1>0, <1>1, <1>2, <1>3, <1>4, <1>5, Kinds DEF Writes

LEMMA DurableStep == IInv /\ [Next]_vars => AnsweredIsDurable'
<1> SUFFICES ASSUME IInv, [Next]_vars PROVE AnsweredIsDurable'
    OBVIOUS
<1>0. TypeOK /\ SeenIsReal /\ QueueOfSaving /\ InOrder /\ OwnWriteCarries /\ AnsweredIsDurable
    BY DEF IInv
<1>1. ASSUME UNCHANGED <<disk, historyVars>> PROVE AnsweredIsDurable'
    BY <1>0, <1>1 DEF AnsweredIsDurable, historyVars
<1>2. CASE Quiet \/ Restart
    BY <1>1, <1>2 DEF Quiet, Restart, storeVars
<1>3. ASSUME NEW r \in Requests, NEW o \in Orders, NEW at \in Saving, Mutates(r, at, o)
      PROVE  AnsweredIsDurable'
    BY <1>1, <1>3 DEF Mutates, Persist
<1>4. ASSUME NEW r \in Requests, Serialise(r) \/ WriteFails(r) PROVE AnsweredIsDurable'
    BY <1>1, <1>4 DEF Serialise, WriteFails, Rejected
<1>5. ASSUME NEW r \in Requests, Rename(r) PROVE AnsweredIsDurable'
    <2>1. image[r] # NoImage /\ disk' = image[r] /\ Resumes(r)
        BY <1>5 DEF Rename
    <2>2. Later(disk, disk') /\ Carries(disk', r)
        BY <1>0, <2>1 DEF InOrder, OwnWriteCarries
    <2>3. \A o \in paid' : o \in paid \/ (request[r].at = "completing" /\ o = request[r].order)
        BY <2>1 DEF Resumes
    <2>4. \A o \in refunded' : o \in refunded \/ (request[r].at = "canceling" /\ o = request[r].order)
        BY <2>1 DEF Resumes
    <2>5. \A o \in paid' : disk'.order[o].status \in {"DONE", "CANCELED"}
        BY <1>0, <2>2, <2>3 DEF AnsweredIsDurable, Later, Carries, TypeOK
    <2>6. \A o \in refunded' : disk'.order[o].status = "CANCELED"
        BY <1>0, <2>2, <2>4 DEF AnsweredIsDurable, Later, Carries, TypeOK
    <2>7. QED BY <2>5, <2>6 DEF AnsweredIsDurable
<1>6. QED BY <1>0, <1>2, <1>3, <1>4, <1>5, Kinds DEF Writes

THEOREM Inductive == Spec => []IInv
<1>1. IInv /\ [Next]_vars => IInv'
    BY TypeStep, QueueStep, SolidStep, OrderStep, CarriesStep, DurableStep DEF IInv
<1>2. QED BY InitIInv, <1>1, PTL DEF Spec
-----------------------------------------------------------------------------
(***************************************************************************)
(* Theorems                                                                *)
(***************************************************************************)
\* Every variable keeps its type, for any number of orders and requests.
THEOREM TypeCorrect == Spec => []TypeOK
<1>1. IInv => TypeOK
    BY DEF IInv
<1>2. QED BY <1>1, Inductive, PTL

\* PRO time rests on confirmed payments, in memory and in every image.
THEOREM BackedByPayments == Spec => []EntitlementBacked
<1>1. IInv => EntitlementBacked
    <2> SUFFICES ASSUME IInv, NEW d \in Images
                 PROVE  /\ \A o \in Orders : d.order[o].status = "DONE" => payment[o] \in {"DONE", "CANCELED"}
                        /\ d.pro # NoEntitlement => Backed(d)
        BY DEF EntitlementBacked
    <2>1. Solid(d, payment, now)
        BY DEF IInv, AllSolid
    <2>2. QED BY <2>1 DEF Solid, Done, IsChain, Backed
<1>2. QED BY <1>1, Inductive, PTL

\* PRO lasts no longer than the DONE orders pay for.
THEOREM NoUnpaidTime == Spec => []PaidTimeBound
<1>1. IInv => PaidTimeBound
    BY DEF IInv, AllSolid, Solid, Done, PaidTimeBound
<1>2. QED BY <1>1, Inductive, PTL

\* A completion or a cancellation that was answered is on disk.
THEOREM AnswersArePersisted == Spec => []AnsweredIsDurable
<1>1. IInv => AnsweredIsDurable
    BY DEF IInv
<1>2. QED BY <1>1, Inductive, PTL

\* A cancellation on disk is never taken back, on disk or in memory.
THEOREM CanceledForGood == Spec => CancellationIsFinal
<1> DEFINE Final == \A o \in Orders : disk.order[o].status = "CANCELED" =>
                        disk'.order[o].status = "CANCELED" /\ data'.order[o].status = "CANCELED"
<1>1. IInv /\ IInv' /\ [Next]_vars => Final
    <2> SUFFICES ASSUME IInv, IInv', [Next]_vars PROVE Final
        OBVIOUS
    <2>1. TypeOK /\ SeenIsReal /\ InOrder /\ InOrder'
        BY DEF IInv
    <2>2. disk' = disk \/ \E r \in Requests : image[r] # NoImage /\ disk' = image[r]
        BY <2>1, Kinds DEF Quiet, storeVars, Mutates, Persist, Writes, Serialise, Rename, WriteFails, Restart
    <2>3. Later(disk, disk')
        BY <2>1, <2>2, LaterSelf DEF InOrder
    <2>4. \A o \in Orders : disk'.order[o].status = "CANCELED" => data'.order[o].status = "CANCELED"
        BY <2>1 DEF InOrder, Later
    <2>5. QED BY <2>3, <2>4 DEF Later
<1>2. QED BY <1>1, Inductive, PTL DEF Spec, CancellationIsFinal
=============================================================================
