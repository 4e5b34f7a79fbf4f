------------------------------- MODULE Orders -------------------------------
(***************************************************************************)
(* Reading the orders (and products) of a marketplace: pages collected     *)
(* under a cursor (src/src/markets/marketReferenceService.ts), merged into *)
(* the stored snapshot of orders before they are answered                  *)
(* (persistingMarketReferenceService.ts,                                   *)
(* src/src/persistence/orderSnapshotStore.ts), and the list of stored      *)
(* orders that is shown when the marketplace is not asked.                 *)
(*                                                                         *)
(* Lines are numbered in the order they were ordered, those of one order   *)
(* in that of its items.  The marketplace lists the newest first; its      *)
(* cursor is the last line of a page.  Orders arrive, move on and leave    *)
(* the window of seven days while requests of several windows of the       *)
(* browser collect their pages.                                            *)
(*                                                                         *)
(* The store sorts by the text of a time as the marketplace wrote it.      *)
(* Texts compare as the clocks of their time zones do: Coupang's are nine  *)
(* hours ahead of Toss's and of the server's own.                          *)
(***************************************************************************)
EXTENDS Naturals, Sequences, FiniteSets

CONSTANTS
    MarketOf,     \* [1..number of lines -> marketplace]
    Moment,       \* when each line is ordered
    Undated,      \* lines whose time the marketplace does not give
    Ahead,        \* for each marketplace, how far ahead the times it writes are
    Requests,     \* calls of get
    Filters,      \* for each marketplace looked at, the sets of statuses it is asked for
    MaxStatus,    \* an order moves from status 1 to this one
    Week,         \* how far back orders are asked for
    PageSize,     \* 50 lines in the code
    MaxPages,     \* MAX_DISCOVERY_PAGES
    MaxRows,      \* MAX_ROWS_PER_TENANT
    MaxCached,    \* MAX_CACHED_ORDERS
    MaxNow,       \* bound: the last moment
    MaxRestarts   \* bound: restarts of the server

\* The others are refused.
Markets == {"coupang", "toss"}
Lines == DOMAIN MarketOf
Statuses == 1..MaxStatus

ASSUME OrdersAssumption ==
    /\ IsFiniteSet(Lines) /\ Lines = 1..Cardinality(Lines)
    /\ MarketOf \in [Lines -> Markets]
    /\ Moment \in [Lines -> Nat] /\ \A k, l \in Lines : k < l => Moment[k] <= Moment[l]
    /\ Undated \subseteq Lines
    /\ Ahead \in [Markets -> Nat]
    /\ MaxStatus \in Nat \ {0}
    /\ DOMAIN Filters \subseteq Markets
    /\ \A market \in DOMAIN Filters : Filters[market] \subseteq SUBSET Statuses
    /\ Week \in Nat
    /\ PageSize \in Nat \ {0} /\ MaxPages \in Nat \ {0}
    /\ MaxRows \in Nat \ {0} /\ MaxCached \in Nat \ {0}
    /\ MaxNow \in Nat /\ MaxRestarts \in Nat

VARIABLES
    now,
    status,    \* [Lines -> Statuses]
    req,       \* [Requests -> Request]
    queue,     \* merges under way: one at a time, in this order
    rows,      \* the stored snapshot, a Row for each of its lines
    restarts,
    matched,   \* history: lines that have matched a request since it began to collect
    told       \* history: when a line was last in the answer to a request for orders

marketVars == <<now, status>>
storeVars == <<queue, rows, restarts, told>>
vars == <<now, status, req, queue, rows, restarts, matched, told>>

-----------------------------------------------------------------------------
(***************************************************************************)
(* Types                                                                   *)
(***************************************************************************)
Partial(S, T) == UNION {[D -> T] : D \in SUBSET S}

\* NoCursor: the first page is asked for, or there is no further one.  Astray: two
\* cursors that stand for any number of new ones, of a marketplace that begins its list
\* again and again.
NoCursor == 0
Astray == {Cardinality(Lines) + 1, Cardinality(Lines) + 2}
Cursors == {NoCursor} \union Lines \union Astray
Request ==
    [at : {"new", "fetching", "merging", "ok", "failed"},
     kind : {"orders", "products"}, market : Markets, filter : SUBSET Statuses, from : 0..MaxNow,
     cursor : Cursors, seen : SUBSET Lines, pages : 0..MaxPages,
     items : Partial(Lines, Statuses), more : BOOLEAN]

\* seen: lastSeenAt; place: how many rows are before it in the file.
Row == [status : Statuses, seen : 0..MaxNow, place : 0..MaxRows]

TypeOK ==
    /\ now \in 0..MaxNow
    /\ status \in [Lines -> Statuses]
    /\ DOMAIN req = Requests /\ \A r \in Requests : req[r] \in Request
    /\ queue \in Seq(Requests)
    /\ rows \in Partial(Lines, Row) /\ Cardinality(DOMAIN rows) <= MaxRows
    /\ restarts \in 0..MaxRestarts
    /\ matched \in [Requests -> SUBSET Lines]
    /\ told \in Partial(Lines, 0..MaxNow)

Nothing == [l \in {} |-> 0]
Fresh == [at |-> "new", kind |-> "orders", market |-> "coupang", filter |-> {}, from |-> 0,
          cursor |-> NoCursor, seen |-> {}, pages |-> 0, items |-> Nothing, more |-> FALSE]

Init ==
    /\ now = 0 /\ status = [l \in Lines |-> 1]
    /\ req = [r \in Requests |-> Fresh]
    /\ queue = <<>> /\ rows = Nothing
    /\ restarts = 0
    /\ matched = [r \in Requests |-> {}] /\ told = Nothing

-----------------------------------------------------------------------------
(***************************************************************************)
(* The marketplace                                                         *)
(***************************************************************************)
Placed == {l \in Lines : Moment[l] <= now}

\* A line that x asks for, given the statuses of the lines.
Matches(x, l, st) ==
    /\ MarketOf[l] = x.market /\ x.from <= Moment[l]
    /\ x.kind = "orders" => st[l] \in x.filter

StillMatched(st) ==
    matched' = [r \in Requests |-> {l \in matched[r] : Matches(req[r], l, st)}]

\* Orders come in, and the seven days move on.
Tick ==
    /\ now < MaxNow
    /\ now' = now + 1
    /\ UNCHANGED <<status, req, matched, storeVars>>

Advance(l) ==
    /\ l \in Placed /\ status[l] < MaxStatus
    /\ status' = [status EXCEPT ![l] = @ + 1]
    /\ StillMatched(status')
    /\ UNCHANGED <<now, req, storeVars>>

\* kstDate: the first of the seven days.
FirstDay == IF now < Week THEN 0 ELSE now - Week

Asked(x) == {l \in Placed : Matches(x, l, status)}
After(x) == {l \in Asked(x) : x.cursor = NoCursor \/ l < x.cursor}
Newest(S, n) == {l \in S : Cardinality({k \in S : k > l}) < n}
Page(x) == Newest(After(x), PageSize)
NextCursor(x) ==
    IF After(x) = Page(x) THEN NoCursor ELSE CHOOSE l \in Page(x) : \A k \in Page(x) : l <= k

-----------------------------------------------------------------------------
(***************************************************************************)
(* A request                                                               *)
(***************************************************************************)
\* get: the window of seven days is read once, at the start.
Start(r, kind, market, filter) ==
    /\ req[r].at = "new"
    /\ req' = [req EXCEPT ![r] = [Fresh EXCEPT !.at = "fetching", !.kind = kind, !.market = market,
                                               !.filter = filter, !.from = FirstDay]]
    /\ matched' = [matched EXCEPT ![r] = Asked(req'[r])]
    /\ UNCHANGED <<marketVars, storeVars>>

\* Items are kept by their id: a later page replaces an earlier one's.
Collected(x) == [l \in DOMAIN x.items \union Page(x) |-> IF l \in Page(x) THEN status[l] ELSE x.items[l]]

\* assertProgressingCursor
Repeats(x, next) == next \in x.seen

\* Mutant: the page cap looks like the end.
ForgetsMore(x, next) == next # NoCursor /\ x.pages + 1 < MaxPages

\* Mutant: the page after the last one allowed is asked for.
ContinuesOnce(x, next) == next # NoCursor /\ x.pages < MaxPages

\* There is a further page, whether or not it will be asked for.
HasMore(x, next) == next # NoCursor
Continues(x, next) == next # NoCursor /\ x.pages + 1 < MaxPages

\* Mutant: pages are not counted.
GotUncounted(x, next) ==
    [x EXCEPT !.items = Collected(x), !.cursor = next,
              !.seen = IF next \in Lines THEN @ \union {next} ELSE @,
              !.more = HasMore(x, next)]

Got(x, next) ==
    [x EXCEPT !.items = Collected(x), !.pages = @ + 1, !.cursor = next,
              !.seen = IF next \in Lines THEN @ \union {next} ELSE @,
              !.more = HasMore(x, next)]
Ended(at) == [Fresh EXCEPT !.at = at]
Ends(r, at) ==
    /\ req' = [req EXCEPT ![r] = Ended(at)]
    /\ matched' = [matched EXCEPT ![r] = {}]

\* Orders are merged into the store before they are answered; an empty list is not.
Merges(x) == x.kind = "orders" /\ x.items # Nothing

\* All pages are there.
Complete(r, x) ==
    /\ req' = [req EXCEPT ![r] = IF Merges(x) THEN [x EXCEPT !.at = "merging", !.seen = {}]
                                 ELSE [Ended("ok") EXCEPT !.more = x.more]]
    /\ matched' = [matched EXCEPT ![r] = {}]
    /\ queue' = IF Merges(x) THEN Append(queue, r) ELSE queue
    /\ UNCHANGED told

\* The marketplace answers with a page and a cursor: the right one, one it has given
\* before, or a new one that leads to the beginning.
Given(x) == {NextCursor(x)} \union x.seen \union (Astray \ {x.cursor})

\* A cursor that repeats ends the request with an error.
PageArrives(r, next) ==
    LET x == req[r]
    IN  /\ x.at = "fetching"
        /\ next \in Given(x)
        /\ IF Repeats(x, next)
           THEN Ends(r, "failed") /\ UNCHANGED <<queue, told>>
           ELSE IF Continues(x, next)
           THEN req' = [req EXCEPT ![r] = Got(x, next)] /\ UNCHANGED <<queue, told, matched>>
           ELSE Complete(r, Got(x, next))
        /\ UNCHANGED <<marketVars, rows, restarts>>

\* A page fails, is not what the schema says, or takes more than 20 seconds: what was
\* collected is given up.
PageFails(r) ==
    /\ req[r].at = "fetching"
    /\ Ends(r, "failed")
    /\ UNCHANGED <<marketVars, storeVars>>

-----------------------------------------------------------------------------
(***************************************************************************)
(* The store                                                               *)
(***************************************************************************)
\* orderTimestamp: where the text of the time sorts.  A line without one has the
\* server's clock when it was last seen.
Stamp(l, seen) == IF l \in Undated THEN seen ELSE Moment[l] + Ahead[MarketOf[l]]

\* The sort is stable: of equal times the row that was first stays first.
Before(all, k, l) ==
    \/ Stamp(k, all[k].seen) > Stamp(l, all[l].seen)
    \/ Stamp(k, all[k].seen) = Stamp(l, all[l].seen) /\ all[k].place < all[l].place
Rank(all, S, l) == Cardinality({k \in S : Before(all, k, l)})
First(all, S, n) == {l \in S : Rank(all, S, l) < n}

\* Mutant: sorted the other way round.
KeptLast(all) ==
    LET Last == {l \in DOMAIN all : Cardinality({k \in DOMAIN all : Before(all, l, k)}) < MaxRows}
    IN  [l \in Last |-> [all[l] EXCEPT !.place = Rank(all, Last, l)]]

\* prunePerTenant: the rows of all marketplaces together.
Kept(all) ==
    [l \in First(all, DOMAIN all, MaxRows) |-> [all[l] EXCEPT !.place = Rank(all, DOMAIN all, l)]]

\* A row that is there keeps its place, others come behind in the order of the list.
Joined(items) ==
    [l \in DOMAIN rows \union DOMAIN items |->
        [status |-> IF l \in DOMAIN items THEN items[l] ELSE rows[l].status,
         seen   |-> IF l \in DOMAIN items THEN now ELSE rows[l].seen,
         place  |-> IF l \in DOMAIN rows THEN rows[l].place
                    ELSE Cardinality(DOMAIN rows) + Cardinality({k \in DOMAIN items : k > l})]]
Merged(items) == Kept(Joined(items))

\* A merge takes no time.
MergeDone ==
    /\ queue # <<>>
    /\ LET r == Head(queue)
       IN  /\ rows' = Merged(req[r].items)
           /\ Ends(r, "ok")
           /\ told' = [l \in DOMAIN told \union DOMAIN req[r].items |->
                        IF l \in DOMAIN req[r].items THEN now ELSE told[l]]
    /\ queue' = Tail(queue)
    /\ UNCHANGED <<marketVars, restarts>>

\* The file cannot be written: the rows stay as they were, and the request fails.
MergeFails ==
    /\ queue # <<>>
    /\ Ends(Head(queue), "failed")
    /\ queue' = Tail(queue)
    /\ UNCHANGED <<marketVars, rows, restarts, told>>

\* The rows are those of the file, which the first merge of the queue may have
\* reached.
Restart ==
    /\ restarts < MaxRestarts
    /\ restarts' = restarts + 1
    /\ req' = [r \in Requests |-> IF req[r].at \in {"fetching", "merging"} THEN Ended("failed") ELSE req[r]]
    /\ matched' = [r \in Requests |-> {}]
    /\ \/ UNCHANGED rows
       \/ queue # <<>> /\ rows' = Merged(req[Head(queue)].items)
    /\ queue' = <<>>
    /\ UNCHANGED <<marketVars, told>>

\* cachedOrders
CachedOrders(market) == First(rows, {l \in DOMAIN rows : MarketOf[l] = market}, MaxCached)

-----------------------------------------------------------------------------
RequestStep(r) ==
    \/ \E market \in DOMAIN Filters :
        \/ \E filter \in Filters[market] : Start(r, "orders", market, filter)
        \/ Start(r, "products", market, {})
    \/ \E next \in Cursors : PageArrives(r, next)
    \/ PageFails(r)

Next ==
    \/ Tick \/ \E l \in Lines : Advance(l)
    \/ \E r \in Requests : RequestStep(r)
    \/ MergeDone \/ MergeFails \/ Restart

\* The fetch of a page ends: with the page, or with the abort after 20 seconds.  A write
\* ends.  Nothing makes a marketplace answer, or end its list.
FetchEnds(r) == PageFails(r) \/ \E next \in Cursors : PageArrives(r, next)
Fairness ==
    /\ \A r \in Requests : WF_vars(FetchEnds(r))
    /\ WF_vars(MergeDone \/ MergeFails)

Spec == Init /\ [][Next]_vars /\ Fairness

-----------------------------------------------------------------------------
(***************************************************************************)
(* Properties                                                              *)
(***************************************************************************)
\* A list that does not say there is more holds every line that matched from the start
\* of the request to its last page, whatever arrived, moved on or left meanwhile.
CompleteUnlessMore ==
    [][\A r \in Requests :
        req[r].at = "fetching" /\ req'[r].at \in {"merging", "ok"} /\ ~req'[r].more =>
            matched[r] \subseteq DOMAIN Collected(req[r])]_vars

\* A line that was shown once is in the list of stored orders for good, restarts and
\* failed writes included, unless as many as fit the list or the store come before it:
\* lines of its marketplace in the list, lines of either in the store, whose time is
\* written no earlier than its own.  Of one marketplace these are later orders and those
\* of the same moment; of the other they may be older, by as much as the clocks differ
\* that the two write (orderSnapshotStore.ts:135-149).
NotEarlier(k, l) == k # l /\ Stamp(k, rows[k].seen) >= Stamp(l, told[l])
AnsweredIsKept ==
    \A l \in DOMAIN told :
        \/ l \in CachedOrders(MarketOf[l])
        \/ Cardinality({k \in CachedOrders(MarketOf[l]) : NotEarlier(k, l)}) >= MaxCached
        \/ Cardinality({k \in DOMAIN rows : NotEarlier(k, l)}) >= MaxRows

\* Every request ends, although a marketplace may never answer, or begin its list again
\* under ever new cursors: each page has its own 20 seconds, so that it is the number of
\* pages that must end it (marketReferenceService.ts:262).
RequestsEnd == \A r \in Requests : req[r].at = "fetching" ~> req[r].at \in {"ok", "failed"}
=============================================================================
