------------------------------ MODULE Planners ------------------------------
(***************************************************************************)
(* Planners that read and advise: stock (catalog/inventorySafetyAllocation *)
(* .ts, operations/inventoryReservationLedger.ts, operations/stockSyncBatch*)
(* .ts), settlements (settlement/settlementReconciliation.ts), automation  *)
(* (automation/rulePlanner.ts, operationsAlert.ts), and the two places     *)
(* that know the limits of Naver's upload form (productUploadRules.ts and  *)
(* ProductRegistration.tsx in the browser, registrationValidator.ts in the *)
(* server).  They are functions: one step puts a question and keeps it     *)
(* with its answer.  Inputs their schemas refuse are not asked, and the    *)
(* order in which they list their answers is left out.                     *)
(***************************************************************************)
EXTENDS Integers, Sequences, FiniteSets, SequencesExt

CONSTANTS
    StockQuestions,      \* [onHand, safety, reservations, weights, listed]
    SettlementQuestions, \* [expected, actual, tolerance]
    RuleQuestions,       \* [rule, signals]
    UploadQuestions,     \* [price, stock, discount, options]
    Absent

VARIABLE advice

Larger(a, b) == IF a > b THEN a ELSE b
Smaller(a, b) == IF a < b THEN a ELSE b
Magnitude(a) == IF a < 0 THEN -a ELSE a

-----------------------------------------------------------------------------
(***************************************************************************)
(* Stock                                                                   *)
(***************************************************************************)
\* calculateInventoryReservations, for one SKU
Reservations(q) ==
    LET reserved == SumFunction(q.reservations)
    IN  [reserved |-> reserved,
         sellable |-> Larger(0, q.onHand - q.safety - reserved),
         oversold |-> reserved > Larger(0, q.onHand - q.safety)]

\* Mutant: every market's share is rounded down.
AllocationRounded(q) ==
    LET sellable == Larger(0, q.onHand - Reservations(q).reserved - q.safety)
    IN  [sellable |-> sellable,
         quantity |-> [i \in DOMAIN q.weights |->
            (sellable * q.weights[i]) \div SumFunction(q.weights)]]

\* allocateSellableStock: shares are rounded down, the last market has the rest.
Allocation(q) ==
    LET sellable == Larger(0, q.onHand - Reservations(q).reserved - q.safety)
        n == Len(q.weights)
        share == [i \in 1..(n - 1) |-> (sellable * q.weights[i]) \div SumFunction(q.weights)]
    IN  [sellable |-> sellable,
         quantity |-> [i \in 1..n |-> IF i < n THEN share[i] ELSE sellable - SumFunction(share)]]

\* planStockSyncBatch: one action for each market whose stock has to change
StockSync(current, target) ==
    [i \in {j \in DOMAIN target : current[j] # target[j]} |->
        [delta |-> target[i] - current[i],
         requiresConfirmation |-> target[i] = 0 \/ Magnitude(target[i] - current[i]) >= 10]]

(***************************************************************************)
(* Settlements.  Amounts are in tenths of a hundredth.                     *)
(***************************************************************************)
\* money: to hundredths, halves upwards
Money(amount) == ((amount + 5) \div 10) * 10

OrdersOf(q) == DOMAIN q.expected \union {q.actual[i].order : i \in DOMAIN q.actual}
SettlementsOf(q, o) == {i \in DOMAIN q.actual : q.actual[i].order = o}

\* actualByOrder, rounded at each addition
Aggregate(q, o) ==
    FoldLeft(LAMBDA sum, row :
                IF row.order # o THEN sum
                ELSE [net |-> Money(sum.net + row.net), fee |-> Money(sum.fee + row.fee)],
             [net |-> 0, fee |-> 0], q.actual)

\* reconcileSettlements: the row of each order
Reconciliation(q) ==
    [o \in OrdersOf(q) |->
        LET actual == Aggregate(q, o)
            due == IF o \in DOMAIN q.expected THEN q.expected[o] ELSE [net |-> 0, fee |-> 0]
            net == Money(actual.net - due.net)
            fee == Money(actual.fee - due.fee)
            status ==
                IF SettlementsOf(q, o) = {} THEN "missing"
                ELSE IF o \notin DOMAIN q.expected THEN "unexpected"
                ELSE IF Magnitude(net) <= q.tolerance /\ Magnitude(fee) <= q.tolerance THEN "matched"
                ELSE "mismatch"
        IN  [status |-> status, net |-> net, fee |-> fee, settlements |-> SettlementsOf(q, o)]]

(***************************************************************************)
(* Alerts and automation rules                                             *)
(***************************************************************************)
\* planOperationsAlerts
IsAlert(signal) == signal.count >= signal.threshold /\ signal.count > 0
NeedsReview(signal) == signal.kind \in {"stock_risk", "claim_backlog"}

IsMarketplaceMutation(action) == action \in {"pause_listing", "set_stock_zero"}

\* automationRulesSchema
ValidRule(rule) ==
    IsMarketplaceMutation(rule.action) => rule.kind = "stock_risk" /\ rule.market # Absent

Matches(rule, signal) ==
    /\ signal.kind = rule.kind
    /\ rule.market # Absent => signal.market = rule.market
    /\ signal.count > 0 /\ signal.count >= signal.threshold /\ signal.count >= rule.minCount

\* planAutomationActions, for one rule: the newest match, the larger of equals
Proposal(rule, signals) ==
    LET matching == {i \in DOMAIN signals : rule.enabled /\ Matches(rule, signals[i])}
        Before(i, j) ==
            \/ signals[i].at > signals[j].at
            \/ /\ signals[i].at = signals[j].at
               /\ \/ signals[i].count > signals[j].count
                  \/ signals[i].count = signals[j].count /\ i <= j
        best == CHOOSE i \in matching : \A j \in matching : Before(i, j)
    IN  IF matching = {} THEN Absent
        ELSE [signal |-> best,
              market |-> IF rule.market # Absent THEN rule.market ELSE signals[best].market,
              action |-> rule.action,
              requiresConfirmation |-> IsMarketplaceMutation(rule.action)]

(***************************************************************************)
(* The limits of Naver's upload form, in the browser and in the server.    *)
(* Fields the seller has left empty are Absent.                            *)
(***************************************************************************)
MaxPrice == 999999990
MaxStock == 99999999
MaxDiscount == 10000000

Present(field, default) == IF field = Absent THEN default ELSE field

\* naverOptionPriceRange, in both places
OptionRange(price) ==
    [min |-> IF price < 2000 THEN 0 ELSE -(price \div 2),
     max |-> IF price < 10000 THEN price ELSE price \div 2]

\* naverDiscountRange in the browser
DiscountRange(price, unit) ==
    [min |-> 1,
     max |-> IF unit = "PERCENT" THEN 99
             ELSE Larger(1, Smaller(MaxDiscount, IF price > 1 THEN price - 1 ELSE 1))]

Within(n, range) == range.min <= n /\ n <= range.max

\* checkGuidedForm.  The inputs let only digits through.
GuidedFormAccepts(q) ==
    LET price == Present(q.price, 0)
    IN  /\ price <= MaxPrice
        /\ q.discount # Absent =>
            price > 0 /\ Within(q.discount.value, DiscountRange(price, q.discount.unit))
        /\ \A i \in DOMAIN q.options : Within(q.options[i].delta, OptionRange(price))
        /\ q.options # <<>> => \E i \in DOMAIN q.options : q.options[i].delta = 0

\* applyGuidedForm over the starter payload, whose price and stock are 0
GuidedPayload(q) ==
    [salePrice |-> Present(q.price, 0),
     stockQuantity |-> Present(q.stock, 0),
     discount |-> q.discount,
     options |-> [i \in DOMAIN q.options |->
        [price |-> q.options[i].delta,
         stockQuantity |-> Present(q.options[i].stock, Present(q.stock, 0))]]]

\* validateNaver, of the fields above
ServerAccepts(p) ==
    LET range == IF p.salePrice <= 0 THEN [min |-> 0, max |-> 0] ELSE OptionRange(p.salePrice)
    IN  /\ 0 < p.salePrice /\ p.salePrice <= MaxPrice
        /\ 0 <= p.stockQuantity /\ p.stockQuantity <= MaxStock
        /\ p.discount # Absent =>
            /\ 1 <= p.discount.value /\ p.discount.value <= MaxDiscount
            /\ p.discount.unit = "PERCENT" => p.discount.value < 100
            /\ p.discount.unit = "WON" => p.discount.value < p.salePrice
        /\ \A i \in DOMAIN p.options :
            /\ Within(p.options[i].price, range)
            /\ 0 <= p.options[i].stockQuantity /\ p.options[i].stockQuantity <= MaxStock
        /\ p.options # <<>> => \E i \in DOMAIN p.options : p.options[i].price = 0

\* discountedPrice, rounded to a won, halves upwards
DiscountedPrice(price, discount) ==
    IF discount.unit = "WON" THEN Larger(0, price - discount.value)
    ELSE LET part == 100 - discount.value
         IN  (price \div 100) * part + ((price % 100) * part + 50) \div 100

-----------------------------------------------------------------------------
(***************************************************************************)
(* Questions their schemas let through                                     *)
(***************************************************************************)
IsList(list) == Len(list) \in Nat /\ DOMAIN list = 1..Len(list)

Optional(S) == S \union {Absent}

StockQuestion(q) ==
    /\ q.onHand \in Nat /\ q.safety \in Nat
    /\ q.reservations \in Seq(Nat \ {0})
    /\ q.weights \in Seq(Nat \ {0}) /\ q.weights # <<>>
    /\ q.listed \in [DOMAIN q.weights -> Nat]

SettlementQuestion(q) ==
    /\ \A o \in DOMAIN q.expected : q.expected[o].net \in Int /\ q.expected[o].fee \in Nat
    /\ IsList(q.actual)
    /\ \A i \in DOMAIN q.actual : q.actual[i].net \in Int /\ q.actual[i].fee \in Nat
    /\ q.tolerance \in Nat

RuleQuestion(q) ==
    /\ IsList(q.signals)
    /\ \A i \in DOMAIN q.signals : q.signals[i].count \in Nat /\ q.signals[i].at \in Int

GuidedForm ==
    [price : Optional(Nat), stock : Optional(Nat),
     discount : Optional([value : Nat, unit : {"PERCENT", "WON"}]),
     options : Seq([delta : Int, stock : Optional(Nat)])]

ASSUME PlannersAssumption ==
    /\ \A q \in StockQuestions : StockQuestion(q)
    /\ \A q \in SettlementQuestions : SettlementQuestion(q)
    /\ \A q \in RuleQuestions : RuleQuestion(q)
    /\ UploadQuestions \subseteq GuidedForm

-----------------------------------------------------------------------------
Jobs == {"stock", "settlements", "rules", "upload"}

Questions(job) ==
    CASE job = "stock" -> StockQuestions
      [] job = "settlements" -> SettlementQuestions
      [] job = "rules" -> {q \in RuleQuestions : ValidRule(q.rule)}
      [] job = "upload" -> UploadQuestions

PlannersInit == advice = Absent

Consult(job, q) ==
    advice' = [job |-> job, question |-> q, answer |->
        CASE job = "stock" -> StockSync(q.listed, Allocation(q).quantity)
          [] job = "settlements" -> Reconciliation(q)
          [] job = "rules" -> Proposal(q.rule, q.signals)
          [] job = "upload" -> GuidedFormAccepts(q)]

PlannersNext ==
    /\ advice = Absent
    /\ \E job \in Jobs : \E q \in Questions(job) : Consult(job, q)

PlannersSpec == PlannersInit /\ [][PlannersNext]_advice

-----------------------------------------------------------------------------
(***************************************************************************)
(* Properties                                                              *)
(***************************************************************************)
\* After the advised changes the markets together list exactly what may be sold:
\* no unit is lost or doubled by rounding, by reservations counted in one
\* planner and subtracted in another, or by a market that is left as it was.  Stock
\* that is oversold goes to zero everywhere, never without confirmation.
StockAddsUp(q, actions) ==
    LET after == [i \in DOMAIN q.listed |->
            q.listed[i] + (IF i \in DOMAIN actions THEN actions[i].delta ELSE 0)]
    IN  /\ SumFunction(after) = Reservations(q).sellable
        /\ \A i \in DOMAIN after : after[i] >= 0
        /\ Reservations(q).oversold =>
            \A i \in DOMAIN actions : after[i] = 0 /\ actions[i].requiresConfirmation

\* No money appears or disappears between the reports and the rows but what the
\* roundings account for, every settlement is in one row, that of its order,
\* and a matched row is one whose difference is within the tolerance.
SettlementsAddUp(q, rows) ==
    LET Paid(o) == SumFunction([i \in SettlementsOf(q, o) |-> q.actual[i].net])
        Due(o) == IF o \in DOMAIN q.expected THEN q.expected[o].net ELSE 0
        Rounding(o) == 5 * (Cardinality(SettlementsOf(q, o)) + 1)
    IN  /\ \A o \in DOMAIN rows :
            /\ Magnitude(rows[o].net - (Paid(o) - Due(o))) <= Rounding(o)
            /\ rows[o].status = "matched" =>
                Magnitude(Paid(o) - Due(o)) <= q.tolerance + Rounding(o)
        /\ \A i \in DOMAIN q.actual :
            {o \in DOMAIN rows : i \in rows[o].settlements} = {q.actual[i].order}

\* A proposal rests on an alert the seller is shown, the newest that reaches the
\* rule's count, and one that would change a marketplace names it, is about an
\* alert that asks for confirmation, and asks for confirmation itself.
ProposalRestsOnAlert(q, proposal) ==
    proposal # Absent =>
        LET signal == q.signals[proposal.signal]
        IN  /\ IsAlert(signal)
            /\ \A i \in DOMAIN q.signals : Matches(q.rule, q.signals[i]) => q.signals[i].at <= signal.at
            /\ proposal.action \in {"pause_listing", "set_stock_zero"} =>
                /\ proposal.requiresConfirmation /\ NeedsReview(signal)
                /\ proposal.market = signal.market /\ signal.market # Absent

\* What the browser lets through and the server does not, each for a reason of its own:
\* a price of 0, stock beyond Naver's limit, and 1 won off a price of 1 won.
OnlyServerRefuses(q) ==
    \/ Present(q.price, 0) = 0
    \/ GuidedPayload(q).stockQuantity > MaxStock
    \/ \E i \in DOMAIN q.options : GuidedPayload(q).options[i].stockQuantity > MaxStock
    \/ q.price = 1 /\ q.discount # Absent /\ q.discount.unit = "WON"

\* A form the browser accepts is accepted by the server, whose rules are
\* written a second time, but in the three cases above; and nothing is sold for
\* nothing, unless a price of less than 50 won is cut by a percentage.
FormAgreesWithServer(q, accepted) ==
    /\ accepted /\ ~OnlyServerRefuses(q) => ServerAccepts(GuidedPayload(q))
    /\ accepted /\ q.discount # Absent =>
        \/ DiscountedPrice(q.price, q.discount) >= 1
        \/ q.price < 50 /\ q.discount.unit = "PERCENT"
        \/ OnlyServerRefuses(q)

\* What the planners promise of every answer: see the four operators above.
AdviceHolds ==
    advice # Absent =>
        CASE advice.job = "stock" -> StockAddsUp(advice.question, advice.answer)
          [] advice.job = "settlements" -> SettlementsAddUp(advice.question, advice.answer)
          [] advice.job = "rules" -> ProposalRestsOnAlert(advice.question, advice.answer)
          [] advice.job = "upload" -> FormAgreesWithServer(advice.question, advice.answer)
=============================================================================
