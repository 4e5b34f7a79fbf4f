----------------------------- MODULE Shipments -----------------------------
(***************************************************************************)
(* Registering tracking numbers in batches: the batches and their retry    *)
(* keys (src/src/orders/shipmentBatch.ts), the preview, its confirmation   *)
(* key and the resumable plan (shipmentExecutionPlan.ts), and what may be  *)
(* tried again (src/src/operations/retryQueue.ts).                         *)
(*                                                                         *)
(* These planners are pure.  Around them the module has the seller, who    *)
(* edits the import between a preview and its confirmation or between two  *)
(* runs of a plan; the marketplaces, which take a batch, refuse it, or     *)
(* take it and lose the answer; and the caller who keeps the checkpoint,   *)
(* either as the keys of all batches that succeeded or as the last of them.*)
(***************************************************************************)
EXTENDS Integers, Sequences, FiniteSets

CONSTANTS
    MarketOf,    \* [order lines -> marketplaces]
    Trackings,   \* tracking numbers, each with its carrier
    FirstImport, \* the payload the seller begins with
    CallSizes,   \* values of maxItemsPerCall
    MaxTries,    \* maxAttempts of a failed operation
    MaxEdits,    \* bound: edits of the import
    None

ShipmentLines == DOMAIN MarketOf
Items == [line : ShipmentLines, tracking : Trackings]
Batch == [market : {MarketOf[l] : l \in ShipmentLines}, index : Nat, count : Nat,
          items : SUBSET [place : Nat, item : Items]]

ASSUME ShipmentsAssumption ==
    /\ FirstImport \in Seq(Items)
    /\ CallSizes \subseteq Nat \ {0} /\ CallSizes # {}
    /\ MaxTries \in Nat \ {0} /\ MaxEdits \in Nat
    /\ None \notin Batch

VARIABLES
    payload, size,  \* the import and maxItemsPerCall as they stand
    edits,
    shown,          \* the preview on the seller's screen, None before the first
    left,           \* batches of the confirmed plan still to be sent
    done, last,     \* retry keys of the batches that succeeded, and the last of them
    failures,       \* the retry queue: retry key -> entry
    mode,           \* "keys": completedRetryKeys, "last": lastSuccessfulRetryKey
    accepted,       \* [Items -> number of times the marketplace took it, at most 2]
    plan            \* history: the preview that was confirmed, and the batches left out as done

importVars == <<payload, size, edits>>
planVars == <<shown, left, plan>>
checkpointVars == <<done, last>>
shipmentVars == <<payload, size, edits, shown, left, done, last, failures, mode, accepted, plan>>

-----------------------------------------------------------------------------
(***************************************************************************)
(* shipmentBatch.ts.  The batches of an import all differ, so a list of    *)
(* them is a set, with the order in which they come.                       *)
(***************************************************************************)
MarketAt(items, i) == MarketOf[items[i].line]

\* shipmentBatchSchema
ValidImport(items) ==
    /\ items # <<>>
    /\ \A i, j \in DOMAIN items : i # j =>
        /\ items[i].line # items[j].line
        /\ MarketAt(items, i) = MarketAt(items, j) => items[i].tracking # items[j].tracking

\* groupShipmentBatchByMarket: the lines of a market, in their order
Group(items, m) == {i \in DOMAIN items : MarketAt(items, i) = m}
PlaceInGroup(items, i) == Cardinality({j \in Group(items, MarketAt(items, i)) : j < i})

BatchIndex(items, n, i) == PlaceInGroup(items, i) \div n
BatchCount(items, n, m) == (Cardinality(Group(items, m)) + n - 1) \div n

\* The batch of the line at i, with its items numbered in their order.  A batch is its
\* own retry key: the digest of its items is taken to tell any two of them apart.
BatchAt(items, n, i) ==
    LET m == MarketAt(items, i)
        index == BatchIndex(items, n, i)
        lines == {j \in Group(items, m) : BatchIndex(items, n, j) = index}
    IN  [market |-> m, index |-> index, count |-> BatchCount(items, n, m),
         items |-> {[place |-> PlaceInGroup(items, j) % n, item |-> items[j]] : j \in lines}]

ItemsOf(batch) == {x.item : x \in batch.items}

\* chunkShipmentBatchByMarket
Batches(items, n) == {BatchAt(items, n, i) : i \in DOMAIN items}

\* Batch a comes before batch b: its market appears first.
Precedes(items, a, b) ==
    IF a.market = b.market THEN a.index < b.index
    ELSE \E i \in Group(items, a.market) : \A j \in Group(items, b.market) : i < j

\* resumeShipmentApiBatches, once the key is known to belong to the plan
Resume(items, n, lastKey) == {b \in Batches(items, n) : Precedes(items, lastKey, b)}

(***************************************************************************)
(* shipmentExecutionPlan.ts                                                *)
(***************************************************************************)
\* Again the digest of the retry keys, in their order, is taken to be injective.
ConfirmationKey(items, n) ==
    [batches |-> Batches(items, n),
     order |-> {ab \in Batches(items, n) \X Batches(items, n) : Precedes(items, ab[1], ab[2])}]

\* The keys handed to buildShipmentExecutionPlan
Given == IF mode = "last" THEN {last} \ {None} ELSE done

\* Mutant: the plan resumes after as many batches as there are keys.
PendingByCount(items, n) ==
    {b \in Batches(items, n) :
        Cardinality({a \in Batches(items, n) : Precedes(items, a, b)}) >= Cardinality(Given)}

\* pendingBatchesFor; it throws unless the keys belong to the plan.
Pending(items, n) ==
    IF mode = "last" /\ last # None THEN Resume(items, n, last)
    ELSE Batches(items, n) \ Given

(***************************************************************************)
(* retryQueue.ts                                                           *)
(***************************************************************************)
RetriedClasses == {"rate_limited", "transient"}
ManualClasses == {"validation", "ambiguous_write"}
RetriesAmbiguous(class) == class = "validation"      \* mutant: a lost answer is a passing failure
IsManualFailure(class) == class \in ManualClasses

\* Mutant: one attempt more than maxAttempts.
DispositionLate(entry) ==
    CASE IsManualFailure(entry.class) -> "manual_review"
      [] ~IsManualFailure(entry.class) /\ entry.attempts > MaxTries -> "exhausted"
      [] ~IsManualFailure(entry.class) /\ entry.attempts <= MaxTries /\ entry.waits -> "retry_wait"
      [] OTHER -> "retry_ready"

\* dispositionFor.  "waits" stands for a nextRetryAt that is still to come.
Disposition(entry) ==
    CASE IsManualFailure(entry.class) -> "manual_review"
      [] ~IsManualFailure(entry.class) /\ entry.attempts >= MaxTries -> "exhausted"
      [] ~IsManualFailure(entry.class) /\ entry.attempts < MaxTries /\ entry.waits -> "retry_wait"
      [] OTHER -> "retry_ready"

MaySend(b) == b \in DOMAIN failures => Disposition(failures[b]) = "retry_ready"

-----------------------------------------------------------------------------
Entry == [class : RetriedClasses \union ManualClasses, attempts : 1..MaxTries, waits : BOOLEAN]

ShipmentsTypeOK ==
    /\ payload \in Seq(Items) /\ size \in CallSizes /\ edits \in 0..MaxEdits
    /\ shown # None => shown.payload \in Seq(Items) /\ shown.size \in CallSizes
    /\ \A b \in left \union plan.skipped : b \in Batch /\ ItemsOf(b) # {}
    /\ done \subseteq Batch /\ last \in done \union {None}
    /\ DOMAIN failures \subseteq Batch /\ failures \in [DOMAIN failures -> Entry]
    /\ mode = "keys" => DOMAIN failures \intersect done = {}
    /\ mode \in {"keys", "last"}
    /\ accepted \in [Items -> 0..2]

ShipmentsInit ==
    /\ payload = FirstImport
    /\ size \in CallSizes
    /\ edits = 0
    /\ shown = None
    /\ left = {}
    /\ done = {} /\ last = None
    /\ failures = <<>>
    /\ mode \in {"keys", "last"}
    /\ accepted = [item \in Items |-> 0]
    /\ plan = [shown |-> None, skipped |-> {}]

(***************************************************************************)
(* The seller edits the import                                             *)
(***************************************************************************)
Edited ==
    /\ edits < MaxEdits
    /\ edits' = edits + 1
    /\ UNCHANGED <<planVars, checkpointVars, failures, mode, accepted>>

Retype(i, t) ==
    /\ payload[i].tracking # t
    /\ payload' = [payload EXCEPT ![i].tracking = t]
    /\ UNCHANGED size
    /\ Edited

Append1(item) ==
    /\ Len(payload) < Cardinality(ShipmentLines) + 1
    /\ payload' = Append(payload, item)
    /\ UNCHANGED size
    /\ Edited

Withdraw(i) ==
    /\ payload' = SubSeq(payload, 1, i - 1) \o SubSeq(payload, i + 1, Len(payload))
    /\ UNCHANGED size
    /\ Edited

Resize(n) ==
    /\ size # n
    /\ size' = n
    /\ UNCHANGED payload
    /\ Edited

(***************************************************************************)
(* Preview and confirmation                                                *)
(***************************************************************************)
\* buildShipmentExecutionPreview
Preview ==
    /\ ValidImport(payload)
    /\ shown' = [payload |-> payload, size |-> size,
                 confirmationKey |-> ConfirmationKey(payload, size)]
    /\ UNCHANGED <<importVars, left, plan, checkpointVars, failures, mode, accepted>>

\* buildShipmentExecutionPlan, for the preview the seller has confirmed
Build ==
    /\ shown # None
    /\ ValidImport(payload)
    /\ shown.confirmationKey = ConfirmationKey(payload, size)
    /\ Given \subseteq Batches(payload, size)
    /\ left' = Pending(payload, size)
    /\ plan' = [shown |-> shown, skipped |-> Batches(payload, size) \ left']
    /\ UNCHANGED <<importVars, shown, checkpointVars, failures, mode, accepted>>

(***************************************************************************)
(* Sending (external): the caller follows the plan and the retry queue.    *)
(* With the last key alone it must send in order and stop at a failure.    *)
(***************************************************************************)
Sends(b) ==
    /\ MaySend(b)
    /\ mode = "last" => \A a \in left : ~Precedes(plan.shown.payload, a, b)

Accepts(items) ==
    accepted' = [item \in Items |->
        IF item \in items /\ accepted[item] < 2 THEN accepted[item] + 1 ELSE accepted[item]]

Tries(b) == IF b \in DOMAIN failures THEN failures[b].attempts ELSE 0

Failed(b, class, waits) ==
    /\ failures' = [x \in DOMAIN failures \union {b} |->
            IF x = b THEN [class |-> class, attempts |-> Tries(b) + 1, waits |-> waits]
            ELSE failures[x]]
    /\ left' = IF mode = "last" THEN {} ELSE left \ {b}
    /\ UNCHANGED <<importVars, shown, plan, checkpointVars, mode>>

Recorded(b) == done' = done \union {b} /\ last' = b

Without(b) == [x \in DOMAIN failures \ {b} |-> failures[x]]

Succeeds(b) ==
    /\ Sends(b)
    /\ Accepts(ItemsOf(b))
    /\ Recorded(b)
    /\ failures' = Without(b)
    /\ left' = left \ {b}
    /\ UNCHANGED <<importVars, shown, plan, mode>>

Refused(b, class, waits) ==
    /\ Sends(b)
    /\ waits <=> class = "rate_limited"
    /\ Failed(b, class, waits)
    /\ UNCHANGED accepted

AnswerLost(b, taken) ==
    /\ Sends(b)
    /\ IF taken THEN Accepts(ItemsOf(b)) ELSE UNCHANGED accepted
    /\ Failed(b, "ambiguous_write", FALSE)

\* nextRetryAt has come.
Due(b) ==
    /\ failures[b].waits
    /\ failures' = [failures EXCEPT ![b].waits = FALSE]
    /\ UNCHANGED <<importVars, planVars, checkpointVars, mode, accepted>>

\* Somebody looks the lines of a batch up at the marketplace and settles the entry:
\* the batch was taken, or may be sent again.
Review(b) ==
    /\ Disposition(failures[b]) = "manual_review"
    /\ failures' = Without(b)
    /\ IF \A item \in ItemsOf(b) : accepted[item] > 0
       THEN Recorded(b) /\ left' = left \ {b}
       ELSE UNCHANGED <<checkpointVars, left>>
    /\ UNCHANGED <<importVars, shown, plan, mode, accepted>>

-----------------------------------------------------------------------------
Edit ==
    \/ \E i \in DOMAIN payload, t \in Trackings : Retype(i, t)
    \/ \E item \in Items : Append1(item)
    \/ \E i \in DOMAIN payload : Withdraw(i)
    \/ \E n \in CallSizes : Resize(n)

Answer(b) ==
    \/ Succeeds(b)
    \/ \E class \in RetriedClasses \union {"validation"}, waits \in BOOLEAN : Refused(b, class, waits)
    \/ \E taken \in BOOLEAN : AnswerLost(b, taken)

ShipmentsNext ==
    \/ Edit \/ Preview \/ Build
    \/ \E b \in left : Answer(b)
    \/ \E b \in DOMAIN failures : Due(b) \/ Review(b)

ShipmentsSpec == ShipmentsInit /\ [][ShipmentsNext]_shipmentVars

-----------------------------------------------------------------------------
(***************************************************************************)
(* Properties                                                              *)
(***************************************************************************)
\* A confirmed plan is the import the seller saw, no more and no less, although
\* the import may be edited before and after.  What it leaves out as done was
\* taken by the marketplace exactly as it stands: "a checkpoint from an edited
\* shipment plan cannot silently skip different marketplace writes"
\* (shipmentBatch.ts:61-65); with the last key alone this holds of imports
\* nobody edited only.  And nothing is left to be sent but what was in the preview
\* that was confirmed (shipmentExecutionPlan.ts:57-61).
PlanIsExact ==
    /\ mode = "keys" \/ edits = 0 =>
        \A b \in plan.skipped : \A item \in ItemsOf(b) : accepted[item] > 0
    /\ left # {} => left \subseteq Batches(plan.shown.payload, plan.shown.size)

\* Nobody edits the import: a marketplace takes every line once, whatever answers are
\* lost and whatever is tried again ("ambiguous writes are always manual-review
\* to avoid duplicate side effects", retryQueue.ts:76).
AcceptedOnce == edits = 0 => \A item \in Items : accepted[item] <= 1
=============================================================================
