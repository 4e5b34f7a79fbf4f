------------------------------- MODULE Billing -------------------------------
(***************************************************************************)
(* Paying for the PRO plan: checkout, confirm and the payment webhook      *)
(* (src/src/billing/tossPaymentsBilling.ts) over the billing store         *)
(* (src/src/persistence/billingStore.ts).                                  *)
(*                                                                         *)
(* One tenant: an order carries its tenant, an entitlement is keyed by it, *)
(* and no operation reads another's.  One payment per order, so a payment  *)
(* key never mismatches; a mismatch, like a wrong amount or identity, ends *)
(* the request before it changes anything.                                 *)
(*                                                                         *)
(* The store changes its memory first and then queues a write of whatever  *)
(* the memory holds when the write begins.  Restarting reads the last      *)
(* image renamed into place; how that file itself is kept whole is not     *)
(* part of this module.                                                    *)
(***************************************************************************)
EXTENDS Integers, FiniteSets, Sequences

CONSTANTS
    Orders,    \* order ids
    Requests,  \* requests the server is processing at the same time
    None,      \* no order
    ProDays,   \* BILLING_PRO_DAYS
    MaxTime,   \* bound: the clock stops here
    Faults     \* TRUE: the process may die and a write may fail

ASSUME BillingAssumption ==
    /\ IsFiniteSet(Orders)
    /\ None \notin Orders
    /\ ProDays \in Nat \ {0}
    /\ MaxTime \in Nat
    /\ Faults \in BOOLEAN

VARIABLES
    data,      \* BillingStore.data: the orders and the tenant's entitlement
    disk,      \* the same in billing.json
    writes,    \* BillingStore.writeChain: requests whose write is not over
    image,     \* [Requests -> ...], what a write in progress has serialised
    poisoned,  \* the chain has rejected, and so will every later write
    request,   \* [Requests -> Request], requests in progress
    posted,    \* POSTs sent to Toss Payments, as <<call, order>>
    payment,   \* [Orders -> ...], the payment's status at Toss Payments
    now,       \* the clock, in days
    paid,      \* history: orders whose completion was persisted and answered
    refunded   \* history: orders whose cancellation was persisted and answered

storeVars == <<data, disk, writes, image, poisoned>>
tossVars == <<posted, payment>>
historyVars == <<paid, refunded>>
vars == <<data, disk, writes, image, poisoned, request, posted, payment, now,
          paid, refunded>>

(***************************************************************************)
(* Types                                                                   *)
(***************************************************************************)
Status == {"none", "CREATED", "DONE", "FAILED", "CANCELED"}
\* prevUntil = 0 and prev = None stand for null.
Order == [status : Status, prevUntil : Nat, prev : Orders \union {None}]
NoOrder == [status |-> "none", prevUntil |-> 0, prev |-> None]
Entitlement == [until : Nat, last : Orders]
NoEntitlement == [until |-> 0, last |-> None]
Data == [order : [Orders -> Order], pro : Entitlement \union {NoEntitlement}]
NoImage == [order |-> <<>>, pro |-> NoEntitlement]

\* at: the await a request is suspended in.
\*   creating, failing, completing, canceling   the store's persist
\*   paying       POST /v1/payments
\*   confirming   POST /v1/payments/confirm
\*   querying     GET /v1/payments/<key>; seen is the status it returned
Saving == {"creating", "failing", "completing", "canceling"}
PaymentStatus == {"none", "READY", "IN_PROGRESS", "DONE", "CANCELED"}
Request == [at : Saving \union {"paying", "confirming", "querying"},
            order : Orders, seen : PaymentStatus]
Idle == [at |-> "idle", order |-> None, seen |-> "none"]

TypeOK ==
    /\ data \in Data /\ disk \in Data
    /\ writes \in Seq(Requests)
    /\ image \in [Requests -> Data \union {NoImage}]
    /\ poisoned \in BOOLEAN
    /\ request \in [Requests -> Request \union {Idle}]
    /\ posted \subseteq {"create", "confirm"} \X Orders
    /\ payment \in [Orders -> PaymentStatus]
    /\ now \in 0..MaxTime
    /\ paid \subseteq Orders /\ refunded \subseteq Orders

EmptyData == [order |-> [o \in Orders |-> NoOrder], pro |-> NoEntitlement]

Init ==
    /\ data = EmptyData /\ disk = EmptyData
    /\ writes = <<>>
    /\ image = [r \in Requests |-> NoImage]
    /\ poisoned = FALSE
    /\ request = [r \in Requests |-> Idle]
    /\ posted = {}
    /\ payment = [o \in Orders |-> "none"]
    /\ now = 0
    /\ paid = {} /\ refunded = {}

-----------------------------------------------------------------------------
Waits(r, at, o) == request' = [request EXCEPT ![r] = [at |-> at, order |-> o, seen |-> "none"]]
Ends(r) == request' = [request EXCEPT ![r] = Idle]
StatusOf(o) == data.order[o].status

\* Every mutation ends in persist: the request queues its write and waits for it.
Persist(r, at, o) ==
    /\ Waits(r, at, o)
    /\ writes' = Append(writes, r)
    /\ UNCHANGED <<disk, image, poisoned>>

\* entitlement(tenantId).active
Active == data.pro # NoEntitlement /\ data.pro.until > now

(***************************************************************************)
(* The store's mutations of its memory                                     *)
(***************************************************************************)
CreateOrder(o) == data' = [data EXCEPT !.order[o].status = "CREATED"]
FailOrder(o) == data' = [data EXCEPT !.order[o].status = "FAILED"]

CompletesAgain(o) ==             \* mutant: a DONE order is completed again
    StatusOf(o) \in {"CREATED", "FAILED", "DONE"}
CompletesCanceled(o) ==          \* mutant: a late confirmation revives a CANCELED order
    StatusOf(o) \in {"CREATED", "FAILED", "CANCELED"}
\* completeOrder throws for an unknown or a CANCELED order and only looks the
\* entitlement up for a DONE one.
Completable(o) == StatusOf(o) \in {"CREATED", "FAILED"}

CompleteOrder(o) ==
    data' = [order |-> [data.order EXCEPT ![o] =
                 [status |-> "DONE",
                  prevUntil |-> IF Active THEN data.pro.until ELSE 0,
                  prev |-> IF Active THEN data.pro.last ELSE None]],
             pro |-> [until |-> (IF Active THEN data.pro.until ELSE now) + ProDays,
                      last |-> o]]

\* The entitlement after the cancellation of o.
LeavesOlder(o) ==                \* mutant: only the last payment is looked at
    IF data.pro.last # o THEN data.pro ELSE NoEntitlement
KeepsPrevious(o) ==              \* mutant: the previous expiry is not restored
    IF data.pro.last # o THEN NoEntitlement
    ELSE [until |-> data.pro.until, last |-> data.order[o].prev]
AfterCancel(o) ==
    IF data.pro.last = o /\ data.order[o].prev # None /\ data.order[o].prevUntil > now
    THEN [until |-> data.order[o].prevUntil, last |-> data.order[o].prev]
    ELSE NoEntitlement

CancelOrder(o) ==
    data' = [order |-> [data.order EXCEPT ![o].status = "CANCELED"],
             pro |-> AfterCancel(o)]

(***************************************************************************)
(* createCheckout                                                          *)
(***************************************************************************)
Checkout(r, o) ==
    /\ request[r] = Idle
    /\ StatusOf(o) = "none" /\ payment[o] = "none"
    /\ \A q \in Requests : request[q].order # o
    /\ CreateOrder(o)
    /\ Persist(r, "creating", o)
    /\ UNCHANGED <<tossVars, now, historyVars>>

CheckoutAnswered(r) ==
    /\ request[r].at = "paying"
    /\ payment[request[r].order] # "none"
    /\ Ends(r)
    /\ UNCHANGED <<storeVars, tossVars, now, historyVars>>

\* An error, a timeout or an unusable answer: failOrder, which leaves a DONE or
\* CANCELED order alone.
CheckoutFails(r) ==
    LET o == request[r].order IN
    /\ request[r].at = "paying"
    /\ IF StatusOf(o) \in {"DONE", "CANCELED"}
       THEN Ends(r) /\ UNCHANGED storeVars
       ELSE FailOrder(o) /\ Persist(r, "failing", o)
    /\ UNCHANGED <<tossVars, now, historyVars>>

(***************************************************************************)
(* confirm                                                                 *)
(***************************************************************************)
\* The browser comes back from the payment page.  An order that is DONE
\* already is answered at once.
Confirm(r, o) ==
    /\ request[r] = Idle
    /\ StatusOf(o) \notin {"none", "DONE"}
    /\ Waits(r, "confirming", o)
    /\ posted' = posted \union {<<"confirm", o>>}
    /\ UNCHANGED <<storeVars, payment, now, historyVars>>

\* completeOrder: a first completion is persisted, anything else throws or is
\* answered without a write.
Completes(r, o) ==
    IF Completable(o) THEN CompleteOrder(o) /\ Persist(r, "completing", o)
    ELSE Ends(r) /\ UNCHANGED storeVars

\* The confirmation is idempotent: a repeated call is answered DONE as the
\* first one was, whatever has become of the payment since.
ConfirmAnswered(r) ==
    LET o == request[r].order IN
    /\ request[r].at = "confirming"
    /\ payment[o] \in {"DONE", "CANCELED"}
    /\ Completes(r, o)
    /\ UNCHANGED <<tossVars, now, historyVars>>

ConfirmFails(r) ==
    /\ request[r].at = "confirming"
    /\ Ends(r)
    /\ UNCHANGED <<storeVars, tossVars, now, historyVars>>

(***************************************************************************)
(* handleWebhook                                                           *)
(***************************************************************************)
\* Events come late, repeated or out of order, and are not signed: one may
\* arrive for any order at any time.
Webhook(r, o) ==
    /\ request[r] = Idle
    /\ StatusOf(o) # "none"
    /\ Waits(r, "querying", o)
    /\ UNCHANGED <<storeVars, tossVars, now, historyVars>>

\* The status Toss Payments returns for the payment it is asked about.
Queried(r) == {payment[request[r].order]} \ {"none"}

QueryAnswered(r) ==
    /\ request[r].at = "querying" /\ request[r].seen = "none"
    /\ \E status \in Queried(r) : request' = [request EXCEPT ![r].seen = status]
    /\ UNCHANGED <<storeVars, tossVars, now, historyVars>>

\* The handler acts on the status returned, which may be stale by now.
\* CANCELED stands for PARTIAL_CANCELED too.
WebhookActs(r) ==
    LET o == request[r].order IN
    /\ request[r].seen # "none"
    /\ CASE request[r].seen = "DONE" -> Completes(r, o)
         [] request[r].seen = "CANCELED" /\ StatusOf(o) \notin {"none", "CANCELED"} ->
                CancelOrder(o) /\ Persist(r, "canceling", o)
         [] OTHER -> Ends(r) /\ UNCHANGED storeVars
    /\ UNCHANGED <<tossVars, now, historyVars>>

QueryFails(r) ==
    /\ request[r].at = "querying" /\ request[r].seen = "none"
    /\ Ends(r)
    /\ UNCHANGED <<storeVars, tossVars, now, historyVars>>

(***************************************************************************)
(* persist: the writes form a promise chain without a catch                *)
(***************************************************************************)
Turn(r) == writes # <<>> /\ Head(writes) = r

Serialise(r) ==
    /\ Turn(r) /\ ~poisoned
    /\ image[r] = NoImage
    /\ image' = [image EXCEPT ![r] = data]
    /\ UNCHANGED <<data, disk, writes, poisoned, request, tossVars, now, historyVars>>

Dequeue(r) ==
    /\ writes' = Tail(writes)
    /\ image' = [image EXCEPT ![r] = NoImage]

\* What the request does once its write is over: checkout goes on to POST, the
\* others answer.
Resumes(r) ==
    LET o == request[r].order IN
    /\ IF request[r].at = "creating"
       THEN Waits(r, "paying", o) /\ posted' = posted \union {<<"create", o>>}
       ELSE Ends(r) /\ UNCHANGED posted
    /\ paid' = IF request[r].at = "completing" THEN paid \union {o} ELSE paid
    /\ refunded' = IF request[r].at = "canceling" THEN refunded \union {o} ELSE refunded

Rename(r) ==
    /\ Turn(r) /\ image[r] # NoImage
    /\ disk' = image[r]
    /\ Dequeue(r)
    /\ Resumes(r)
    /\ UNCHANGED <<data, poisoned, payment, now>>

Swallowed(r) ==                 \* mutant: a failed write is logged and forgotten
    Resumes(r) /\ UNCHANGED <<poisoned, payment>>
\* The request ends with an error; its change stays in memory.
Rejected(r) == Ends(r) /\ poisoned' = TRUE /\ UNCHANGED <<tossVars, historyVars>>

\* A write that fails rejects the chain; a write queued behind it never runs.
WriteFails(r) ==
    /\ Turn(r) /\ (Faults \/ poisoned)
    /\ Dequeue(r)
    /\ Rejected(r)
    /\ UNCHANGED <<data, disk, now>>

(***************************************************************************)
(* Toss Payments (external), the clock, and the end of the process         *)
(***************************************************************************)
Pays(o, from, to) ==
    /\ payment[o] = from
    /\ payment' = [payment EXCEPT ![o] = to]
    /\ UNCHANGED <<storeVars, request, posted, now, historyVars>>

TossCreates(o) == <<"create", o>> \in posted /\ Pays(o, "none", "READY")
CustomerPays(o) == Pays(o, "READY", "IN_PROGRESS")
TossConfirms(o) == <<"confirm", o>> \in posted /\ Pays(o, "IN_PROGRESS", "DONE")
TossRefunds(o) == Pays(o, "DONE", "CANCELED")

Tick ==
    /\ now < MaxTime
    /\ now' = now + 1
    /\ UNCHANGED <<storeVars, request, tossVars, historyVars>>

Restart ==
    /\ Faults
    /\ data' = disk
    /\ writes' = <<>>
    /\ image' = [r \in Requests |-> NoImage]
    /\ poisoned' = FALSE
    /\ request' = [r \in Requests |-> Idle]
    /\ UNCHANGED <<disk, tossVars, now, historyVars>>

-----------------------------------------------------------------------------
Arrives(r, o) == Checkout(r, o) \/ Confirm(r, o) \/ Webhook(r, o)
Step(r) ==
    \/ CheckoutAnswered(r) \/ CheckoutFails(r)
    \/ ConfirmAnswered(r) \/ ConfirmFails(r)
    \/ QueryAnswered(r) \/ WebhookActs(r) \/ QueryFails(r)
Writes(r) == Serialise(r) \/ Rename(r) \/ WriteFails(r)
Toss(o) == TossCreates(o) \/ CustomerPays(o) \/ TossConfirms(o) \/ TossRefunds(o)

Next ==
    \/ \E r \in Requests, o \in Orders : Arrives(r, o)
    \/ \E r \in Requests : Step(r) \/ Writes(r)
    \/ \E o \in Orders : Toss(o)
    \/ Tick
    \/ Restart

Spec == Init /\ [][Next]_vars

-----------------------------------------------------------------------------
(***************************************************************************)
(* Properties                                                              *)
(***************************************************************************)
\* The images of the billing data that a restart may ever read.
Images == {data, disk} \union ({image[r] : r \in Requests} \ {NoImage})

\* Some set of DONE orders contains the last order of the entitlement and,
\* with each order, the one it extended.
Backed(d) ==
    \E chain \in SUBSET {o \in Orders : d.order[o].status = "DONE"} :
        /\ d.pro.last \in chain
        /\ \A o \in chain : d.order[o].prev \in chain \union {None}

\* PRO time rests on payments that Toss Payments confirmed and none of which was
\* canceled, in memory and in every image a crash may leave, however completions and
\* cancellations of several orders overlap (completeOrder, cancelOrder) and
\* whatever the browser and unsigned webhooks claim.
EntitlementBacked ==
    \A d \in Images :
        /\ \A o \in Orders : d.order[o].status = "DONE" => payment[o] \in {"DONE", "CANCELED"}
        /\ d.pro # NoEntitlement => Backed(d)

\* No sequence of payments, cancellations and restarts makes PRO last longer
\* than the DONE orders pay for.
PaidTimeBound ==
    \A d \in Images : d.pro # NoEntitlement =>
        d.pro.until <= now + ProDays * Cardinality({o \in Orders : d.order[o].status = "DONE"})

\* A completion or a cancellation whose request waited for its write and was
\* answered is on disk, although the write serialises whatever the memory held.
AnsweredIsDurable ==
    /\ \A o \in paid : disk.order[o].status \in {"DONE", "CANCELED"}
    /\ \A o \in refunded : disk.order[o].status = "CANCELED"

\* Once a cancellation is on disk no later write, late confirmation, stale
\* query or restart brings the order back.
CancellationIsFinal ==
    [][\A o \in Orders : disk.order[o].status = "CANCELED" =>
        disk'.order[o].status = "CANCELED" /\ data'.order[o].status = "CANCELED"]_vars
=============================================================================
