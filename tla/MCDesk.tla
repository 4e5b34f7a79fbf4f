------------------------------- MODULE MCDesk -------------------------------
(***************************************************************************)
(* The parts of the seller's desk that share nothing: the import of        *)
(* tracking numbers, the planners, the upload form, the application around *)
(* the pages, the markets and the products of the tenants.  A behaviour is *)
(* one of one part, with the others at rest, since their steps commute.    *)
(***************************************************************************)
EXTENDS Desk, TLC

CONSTANTS a1, a2, b1, coupang, naver, toss, t1, t2, o1, o2, s1, s2, s3, d1, d2, x1, x2, n1, n2, u1, u2, i1, i2

(***************************************************************************)
(* Two lines in one market, sent in one call or in two, and a third line   *)
(* in another.                                                             *)
(***************************************************************************)
MCMarketOf == (a1 :> coupang) @@ (a2 :> coupang) @@ (b1 :> naver)
MCImport == <<[line |-> a1, tracking |-> t1], [line |-> a2, tracking |-> t2]>>

(***************************************************************************)
(* Questions.  Weights that divide the stock and weights that do not,      *)
(* reservations within and beyond the stock on hand, changes around 10.    *)
(***************************************************************************)
Short(S, n) == UNION {[1..k -> S] : k \in 0..n}

MCStock == [onHand : {0, 1, 7, 25}, safety : {0, 3}, reservations : Short({1, 4}, 2),
            weights : Short({1, 2, 5}, 3) \ {<<>>}, listed : [1..3 -> {0, 5, 20}]]
MCStockQuestions ==
    {[onHand |-> q.onHand, safety |-> q.safety, reservations |-> q.reservations,
      weights |-> q.weights, listed |-> SubSeq(q.listed, 1, Len(q.weights))] : q \in MCStock}

\* Net amounts that differ by less and by more than the tolerance of 1 won,
\* fees that do not, refunds, and parts of a hundredth.
MCSettlementQuestions ==
    LET due == [net : {5000, -1000}, fee : {300}]
        paid == [order : {o1, o2}, net : {2500, 2503, 5007, -1000}, fee : {0, 300}]
    IN  [expected : UNION {[S -> due] : S \in SUBSET {o1, o2}},
         actual : Short(paid, 2), tolerance : {0, 1000}]

MCRuleQuestions ==
    [rule : [kind : {"stock_risk", "order_backlog"}, market : {naver, Absent}, minCount : {0, 2},
             action : {"notify_telegram", "pause_listing"}, enabled : BOOLEAN],
     signals : Short([kind : {"stock_risk", "order_backlog"}, market : {naver, Absent},
                      count : 0..2, threshold : 0..1, at : 1..2], 2)]

\* Prices, discounts and surcharges on both sides of every limit
MCUploadQuestions ==
    LET deltas == {0, 1, 1999, 2000, -1000, -1001, 9999, -4999, 5000, 5001, -5000, -5001}
        option == [delta : deltas, stock : {Absent, 100000000}]
        free == [delta |-> 0, stock |-> 1]
    IN  [price : {Absent, 0, 1, 40, 60, 1999, 2000, 9999, 10000, 999999990, 999999991},
         stock : {Absent, 99999999, 100000000},
         discount : {Absent} \union [unit : {"PERCENT", "WON"}, value : {0, 1, 39, 40, 99, 100, 9999, 10000001}],
         options : {<<>>} \union {<<o>> : o \in option} \union {<<o, free>> : o \in option}]

-----------------------------------------------------------------------------
ShipmentsAtRest == ShipmentsInit /\ mode = "keys" /\ size = 1
PlannersAtRest == PlannersInit
FormAtRest == FormInit /\ draft = d1
ConnectionsAtRest == ConnectionsInit
WorkspaceAtRest == WorkspaceInit /\ user = Nobody

\* A tenant's markets and its products are limited apart, so they move apart.
NoMarkets == credentials = {} /\ \A t \in Tenants : ~IsLinked(t)
NoProducts == \A t \in Tenants : products[t] = {}
Asking(ops) == \A r \in Requests : waiting[r].op \in ops \union {"none"}

MCConnectionsNext ==
    \/ NoProducts /\ Asking({"link", "credentials"}) /\ ConnectsMarkets
    \/ NoMarkets /\ Asking({"reading", "product"}) /\ SavesProducts
    \/ \E r \in Requests : RequestFails(r)
    \/ PlanChanges(x1)

\* So do what a page shows and the commands it gives.
NoOrders ==
    /\ dialog = Nobody /\ ~busy /\ \A i \in Approvals : approvals[i].by = Nobody
    /\ \A c \in onWay : c.op \in Views
NoLooks == shows["connections"] = Nobody /\ ~loading /\ \A c \in onWay : c.op \in Commands

\* A product mapped elsewhere only keeps the page from registering it: one such is enough.
MCFormNext == Edits \/ Clicks \/ Answers \/ CatalogRead(s1, naver)

MCWorkspaceNext ==
    \/ Sessions
    \/ NoOrders /\ Looks
    \/ NoLooks /\ Orders

Next ==
    \/ /\ PlannersAtRest /\ FormAtRest /\ ConnectionsAtRest /\ WorkspaceAtRest
       /\ ShipmentsNext /\ UNCHANGED <<advice, formVars, connectionVars, workspaceVars>>
    \/ /\ ShipmentsAtRest /\ FormAtRest /\ ConnectionsAtRest /\ WorkspaceAtRest
       /\ PlannersNext /\ UNCHANGED <<shipmentVars, formVars, connectionVars, workspaceVars>>
    \/ /\ ShipmentsAtRest /\ PlannersAtRest /\ ConnectionsAtRest /\ WorkspaceAtRest
       /\ MCFormNext /\ UNCHANGED <<shipmentVars, advice, connectionVars, workspaceVars>>
    \/ /\ ShipmentsAtRest /\ PlannersAtRest /\ FormAtRest /\ WorkspaceAtRest
       /\ MCConnectionsNext /\ UNCHANGED <<shipmentVars, advice, formVars, workspaceVars>>
    \/ /\ ShipmentsAtRest /\ PlannersAtRest /\ FormAtRest /\ ConnectionsAtRest
       /\ MCWorkspaceNext /\ UNCHANGED <<shipmentVars, advice, formVars, connectionVars>>

Spec == DeskInit /\ [][Next]_deskVars

\* What no definition tells apart
Symmetry == Permutations(Users) \union Permutations(Approvals) \union Permutations(SellerAccounts)
=============================================================================
