---------------------------- MODULE OrdersProofs ----------------------------
(***************************************************************************)
(* Safety of the reading of orders (Orders), proved for any number of      *)
(* lines, requests and pages, any limits of the store and the list, and    *)
(* any clocks of the marketplaces.                                         *)
(***************************************************************************)
EXTENDS Orders, TLAPS, FiniteSetTheorems, SequenceTheorems, WellFoundedInduction

-----------------------------------------------------------------------------
(***************************************************************************)
(* The first n of a sorted set                                             *)
(***************************************************************************)
\* A set of numbers has a least one.
LEMMA Least ==
    ASSUME NEW S \in SUBSET Nat, S # {}
    PROVE  \E l \in S : \A k \in S : l <= k
<1> DEFINE R == {ss \in Nat \X Nat : ss[1] < ss[2]}
<1>1. IsWellFoundedOn(R, Nat)
    BY NatLessThanWellFounded DEF OpToRel
<1>2. PICK l \in S : \A k \in S : ~(<<k, l>> \in R)
    <2> HIDE DEF R
    <2> QED BY <1>1, WFMin
<1>3. \A k \in S : ~(k < l)
    BY <1>2
<1> QED BY <1>3

\* R: the pairs of which the first comes before the second.
Sorts(R, S) ==
    /\ \A a \in S : ~(<<a, a>> \in R)
    /\ \A a, b \in S : a = b \/ <<a, b>> \in R \/ <<b, a>> \in R
    /\ \A a, b, c \in S : <<a, b>> \in R /\ <<b, c>> \in R => <<a, c>> \in R
Over(R, S, l) == {k \in S : <<k, l>> \in R}
Top(R, S, n) == {l \in S : Cardinality(Over(R, S, l)) < n}

LEMMA OverIs ==
    ASSUME NEW R, NEW S, IsFiniteSet(S), NEW l
    PROVE  IsFiniteSet(Over(R, S, l)) /\ Cardinality(Over(R, S, l)) \in Nat
<1>1. Over(R, S, l) \subseteq S
    BY DEF Over
<1> QED BY <1>1, FS_Subset, FS_CardinalityType

\* What comes later has more before it.
LEMMA OverGrows ==
    ASSUME NEW R, NEW S, IsFiniteSet(S), Sorts(R, S), NEW a \in S, NEW b \in S, <<a, b>> \in R
    PROVE  Cardinality(Over(R, S, a)) < Cardinality(Over(R, S, b))
<1>1. Over(R, S, a) \subseteq Over(R, S, b)
    BY DEF Over, Sorts
<1>2. a \in Over(R, S, b) /\ a \notin Over(R, S, a)
    BY DEF Over, Sorts
<1>3. IsFiniteSet(Over(R, S, b)) /\ Cardinality(Over(R, S, a)) \in Nat /\ Cardinality(Over(R, S, b)) \in Nat
    BY OverIs
<1>4. /\ Cardinality(Over(R, S, a)) <= Cardinality(Over(R, S, b))
      /\ Cardinality(Over(R, S, a)) = Cardinality(Over(R, S, b)) => Over(R, S, a) = Over(R, S, b)
    BY <1>1, <1>3, FS_Subset
<1> QED BY <1>2, <1>3, <1>4

LEMMA Foremost ==
    ASSUME NEW R, NEW S, IsFiniteSet(S), Sorts(R, S), NEW T \in SUBSET S, T # {}
    PROVE  \E m \in T : \A k \in T : k = m \/ <<m, k>> \in R
<1> DEFINE P(l) == Cardinality(Over(R, S, l))
           Places == {P(l) : l \in T}
<1>1. Places \in SUBSET Nat /\ Places # {}
    BY OverIs
<1>2. PICK n \in Places : \A i \in Places : n <= i
    BY <1>1, Least
<1>3. PICK m \in T : n = P(m)
    OBVIOUS
<1>4. ASSUME NEW k \in T, <<k, m>> \in R PROVE FALSE
    <2>1. P(k) < P(m) /\ P(m) <= P(k) /\ P(k) \in Nat /\ P(m) \in Nat
        BY <1>2, <1>3, <1>4, OverGrows, OverIs
    <2> HIDE DEF P
    <2> QED BY <2>1
<1> QED BY <1>4 DEF Sorts

LEMMA Hindmost ==
    ASSUME NEW R, NEW S, IsFiniteSet(S), Sorts(R, S), NEW T \in SUBSET S, T # {}
    PROVE  \E m \in T : \A k \in T : k = m \/ <<k, m>> \in R
<1> DEFINE B == {ss \in S \X S : <<ss[2], ss[1]>> \in R}
<1>1. \A a, b \in S : <<a, b>> \in B <=> <<b, a>> \in R
    OBVIOUS
<1> HIDE DEF B
<1>2. Sorts(B, S)
    BY <1>1 DEF Sorts
<1>3. PICK m \in T : \A k \in T : k = m \/ <<m, k>> \in B
    BY <1>2, Foremost
<1> QED BY <1>1, <1>3

LEMMA TopIsUpward ==
    ASSUME NEW R, NEW S, IsFiniteSet(S), Sorts(R, S), NEW n \in Nat,
           NEW a \in Top(R, S, n), NEW b \in S, <<b, a>> \in R
    PROVE  b \in Top(R, S, n)
<1>1. a \in S /\ Cardinality(Over(R, S, a)) < n
    BY DEF Top
<1>2. Cardinality(Over(R, S, b)) < Cardinality(Over(R, S, a))
    BY <1>1, OverGrows
<1>3. Cardinality(Over(R, S, b)) \in Nat /\ Cardinality(Over(R, S, a)) \in Nat
    BY OverIs
<1> QED BY <1>1, <1>2, <1>3 DEF Top

\* The first n are at most n.
LEMMA TopIsSmall ==
    ASSUME NEW R, NEW S, IsFiniteSet(S), Sorts(R, S), NEW n \in Nat
    PROVE  IsFiniteSet(Top(R, S, n)) /\ Cardinality(Top(R, S, n)) <= n
<1> DEFINE N == Top(R, S, n)
<1>1. N \subseteq S
    BY DEF Top
<1>2. IsFiniteSet(N)
    BY <1>1, FS_Subset
<1>3. CASE N = {}
    BY <1>2, <1>3, FS_EmptySet
<1>4. CASE N # {}
    <2>1. PICK m \in N : \A k \in N : k = m \/ <<k, m>> \in R
        BY <1>1, <1>4, Hindmost
    <2>2. N \subseteq Over(R, S, m) \union {m} /\ m \notin Over(R, S, m)
        BY <1>1, <2>1 DEF Over, Sorts
    <2>3. IsFiniteSet(Over(R, S, m)) /\ Cardinality(Over(R, S, m)) \in Nat /\ Cardinality(Over(R, S, m)) < n
        BY OverIs DEF Top
    <2>4. /\ IsFiniteSet(Over(R, S, m) \union {m})
          /\ Cardinality(Over(R, S, m) \union {m}) = Cardinality(Over(R, S, m)) + 1
        BY <2>2, <2>3, FS_AddElement
    <2>5. Cardinality(N) <= Cardinality(Over(R, S, m) \union {m})
        BY <2>2, <2>4, FS_Subset
    <2>6. Cardinality(N) \in Nat
        BY <1>2, FS_CardinalityType
    <2> HIDE DEF N
    <2>7. Cardinality(N) <= n
        BY <2>3, <2>4, <2>5, <2>6
    <2> QED BY <1>2, <2>7 DEF N
<1> QED BY <1>3, <1>4

\* What is not among the first n comes behind them all, and they are n.
LEMMA TopIsAhead ==
    ASSUME NEW R, NEW S, IsFiniteSet(S), Sorts(R, S), NEW n \in Nat, NEW l \in S, l \notin Top(R, S, n)
    PROVE  /\ \A k \in Top(R, S, n) : <<k, l>> \in R
           /\ Cardinality(Top(R, S, n)) >= n
<1> DEFINE N == Top(R, S, n)
<1>1. N \subseteq S /\ IsFiniteSet(N) /\ Cardinality(N) \in Nat
    BY TopIsSmall, FS_CardinalityType DEF Top
<1>2. ASSUME NEW k \in N PROVE <<k, l>> \in R
    <2>1. k \in S /\ k # l
        BY <1>1
    <2>2. ~(<<l, k>> \in R)
        BY TopIsUpward
    <2> QED BY <2>1, <2>2 DEF Sorts
<1>3. PICK m \in S \ N : \A k \in S \ N : k = m \/ <<m, k>> \in R
    BY Foremost
<1>4. Over(R, S, m) \subseteq N
    BY <1>3 DEF Over, Sorts
<1>5. Cardinality(Over(R, S, m)) \in Nat /\ Cardinality(Over(R, S, m)) >= n
    <2>1. Cardinality(Over(R, S, m)) \in Nat
        BY OverIs
    <2>2. ~(Cardinality(Over(R, S, m)) < n)
        BY <1>3 DEF Top
    <2> QED BY <2>1, <2>2
<1>6. Cardinality(Over(R, S, m)) <= Cardinality(N)
    BY <1>1, <1>4, FS_Subset
<1> HIDE DEF N
<1>7. Cardinality(N) >= n
    BY <1>1, <1>5, <1>6
<1> QED BY <1>2, <1>7 DEF N

\* Lines by their number: the newest first
LaterOf == {ss \in Nat \X Nat : ss[1] > ss[2]}
LEMMA NewestIsTop ==
    ASSUME NEW S \in SUBSET Nat
    PROVE  /\ Sorts(LaterOf, S)
           /\ \A n \in Nat : Newest(S, n) = Top(LaterOf, S, n)
           /\ \A l \in Nat : Over(LaterOf, S, l) = {k \in S : k > l}
           /\ \A k, l \in S : <<k, l>> \in LaterOf <=> k > l
<1>1. \A k, l \in Nat : <<k, l>> \in LaterOf <=> k > l
    BY DEF LaterOf
<1>2. Sorts(LaterOf, S)
    BY <1>1 DEF Sorts
<1>3. \A l \in Nat : Over(LaterOf, S, l) = {k \in S : k > l}
    BY <1>1 DEF Over
<1>4. \A n \in Nat : Newest(S, n) = Top(LaterOf, S, n)
    BY <1>3 DEF Newest, Top
<1> QED BY <1>1, <1>2, <1>3, <1>4

-----------------------------------------------------------------------------
(***************************************************************************)
(* The inductive invariant                                                 *)
(***************************************************************************)
\* The merges of the queue are those of requests that wait for them, one each.
QueueOfMerging ==
    \A i \in DOMAIN queue :
        /\ req[queue[i]].at = "merging"
        /\ \A j \in DOMAIN queue : queue[i] = queue[j] => i = j

PagesLeft == \A r \in Requests : req[r].at = "fetching" => req[r].pages < MaxPages

\* A line that still matches a request is collected, or yet to come.
Covers(x, lines) ==
    \A l \in lines :
        /\ l \in Placed /\ Matches(x, l, status)
        /\ l \in DOMAIN x.items \/ x.cursor = NoCursor \/ l < x.cursor
MatchedAreCovered == \A r \in Requests : req[r].at = "fetching" => Covers(req[r], matched[r])

\* No two rows have one place, and no place is left free behind the last.
InPlace(all) ==
    /\ \A k, l \in DOMAIN all : all[k].place = all[l].place => k = l
    /\ \A l \in DOMAIN all : all[l].place < Cardinality(DOMAIN all)
RowsInPlace == InPlace(rows)

\* Rows have been seen, and lines shown, by now.
ByNow ==
    /\ \A l \in DOMAIN rows : rows[l].seen <= now
    /\ \A l \in DOMAIN told : told[l] <= now

\* A line that was shown is in the store, and was not seen later than the store says; or
\* as many as the store may hold come before it.
ToldAreStored ==
    \A l \in DOMAIN told :
        IF l \in DOMAIN rows THEN told[l] <= rows[l].seen
        ELSE Cardinality({k \in DOMAIN rows : NotEarlier(k, l)}) >= MaxRows

StoreInv == RowsInPlace /\ ByNow /\ ToldAreStored

IInv ==
    /\ TypeOK
    /\ QueueOfMerging
    /\ PagesLeft
    /\ MatchedAreCovered
    /\ StoreInv

-----------------------------------------------------------------------------
(***************************************************************************)
(* Types                                                                   *)
(***************************************************************************)
LEMMA LinesAre ==
    /\ \E n \in Nat : Lines = 1..n
    /\ Lines \subseteq Nat \ {0}
    /\ \A S \in SUBSET Lines : IsFiniteSet(S)
<1>1. IsFiniteSet(Lines) /\ Lines = 1..Cardinality(Lines)
    BY OrdersAssumption
<1>2. Cardinality(Lines) \in Nat
    BY <1>1, FS_CardinalityType
<1>3. \E n \in Nat : Lines = 1..n
    BY <1>1, <1>2
<1>4. \A S \in SUBSET Lines : IsFiniteSet(S)
    BY <1>1, FS_Subset
<1> QED BY <1>3, <1>4

LEMMA CursorsAre ==
    /\ Cursors \subseteq Nat
    /\ \A c \in Astray, l \in Lines : l < c
    /\ NoCursor \notin Lines /\ NoCursor \notin Astray /\ NoCursor \in Cursors /\ Lines \subseteq Cursors
<1>1. PICK n \in Nat : Lines = 1..n /\ Cardinality(Lines) = n
    <2>1. IsFiniteSet(Lines) /\ Lines = 1..Cardinality(Lines)
        BY OrdersAssumption
    <2>2. Cardinality(Lines) \in Nat
        BY <2>1, FS_CardinalityType
    <2> QED BY <2>1, <2>2
<1>2. Astray = {n + 1, n + 2}
    BY <1>1 DEF Astray
<1> QED BY <1>1, <1>2 DEF Cursors, NoCursor

LEMMA InPartial ==
    ASSUME NEW S, NEW T, NEW D \in SUBSET S, NEW f \in [D -> T]
    PROVE  f \in Partial(S, T)
BY DEF Partial

LEMMA OfPartial ==
    ASSUME NEW S, NEW T, NEW f \in Partial(S, T)
    PROVE  DOMAIN f \subseteq S /\ f \in [DOMAIN f -> T]
BY DEF Partial

LEMMA EndedIsFine ==
    /\ Fresh \in Request
    /\ \A at \in {"ok", "failed"} : Ended(at) \in Request /\ Ended(at).at = at
<1>1. Nothing \in Partial(Lines, Statuses)
    <2>1. Nothing \in [{} -> Statuses]
        BY DEF Nothing
    <2> QED BY <2>1, InPartial
<1>2. 0 \in 0..MaxNow /\ 0 \in 0..MaxPages /\ NoCursor \in Cursors
    BY CursorsAre, OrdersAssumption
<1>3. Fresh \in Request
    BY <1>1, <1>2 DEF Fresh, Request, Markets
<1> QED BY <1>3 DEF Ended, Request

LEMMA RequestIs ==
    ASSUME TypeOK, NEW r \in Requests
    PROVE  /\ req[r] \in Request
           /\ req[r].items \in Partial(Lines, Statuses) /\ DOMAIN req[r].items \subseteq Lines
           /\ req[r].pages \in Nat /\ req[r].seen \subseteq Lines
           /\ req[r].cursor \in Cursors /\ req[r].cursor \in Nat
<1>1. req[r] \in Request
    BY DEF TypeOK
<1>2. /\ req[r].items \in Partial(Lines, Statuses) /\ req[r].pages \in 0..MaxPages
      /\ req[r].cursor \in Cursors /\ req[r].seen \subseteq Lines
    BY <1>1 DEF Request
<1>3. Cursors \subseteq Nat
    BY CursorsAre
<1> QED BY <1>1, <1>2, <1>3, OfPartial

\* The lines asked for
LEMMA AskedAre ==
    ASSUME TypeOK, NEW x
    PROVE  /\ Asked(x) \subseteq Lines /\ After(x) \subseteq Asked(x) /\ Page(x) \subseteq After(x)
           /\ Lines \subseteq Nat /\ IsFiniteSet(After(x))
<1>2. Asked(x) \subseteq Lines
    BY DEF Asked, Placed
<1>3. After(x) \subseteq Asked(x) /\ Page(x) \subseteq After(x)
    BY DEF After, Page, Newest
<1>4. After(x) \subseteq Lines
    BY <1>2, <1>3
<1> QED BY <1>2, <1>3, <1>4, LinesAre

LEMMA CollectedIs ==
    ASSUME TypeOK, NEW r \in Requests
    PROVE  /\ Collected(req[r]) \in Partial(Lines, Statuses)
           /\ DOMAIN Collected(req[r]) = DOMAIN req[r].items \union Page(req[r])
<1> DEFINE x == req[r]
           D == DOMAIN x.items \union Page(x)
<1>1. x.items \in Partial(Lines, Statuses) /\ DOMAIN x.items \subseteq Lines
    BY RequestIs
<1>2. Page(x) \subseteq Lines
    BY AskedAre
<1>3. \A l \in DOMAIN x.items : x.items[l] \in Statuses
    BY <1>1, OfPartial
<1>4. \A l \in Lines : status[l] \in Statuses
    BY DEF TypeOK
<1>5. DOMAIN Collected(x) = D
    BY DEF Collected
<1>6. \A l \in D : Collected(x)[l] \in Statuses
    BY <1>2, <1>3, <1>4 DEF Collected
<1>7. Collected(x) \in [D -> Statuses]
    BY <1>6 DEF Collected
<1>8. D \subseteq Lines
    BY <1>1, <1>2
<1>9. Collected(x) \in Partial(Lines, Statuses)
    <2> HIDE DEF D, x
    <2> QED BY <1>7, <1>8, InPartial
<1> QED BY <1>5, <1>9

\* The request with one more page is one.
LEMMA GotIs ==
    ASSUME TypeOK, NEW r \in Requests, req[r].pages < MaxPages, NEW next \in Cursors
    PROVE  /\ Got(req[r], next) \in Request
           /\ Got(req[r], next).items = Collected(req[r])
           /\ Got(req[r], next).pages = req[r].pages + 1
           /\ Got(req[r], next).cursor = next
           /\ Got(req[r], next).more = (next # NoCursor)
           /\ \A f \in {"at", "kind", "market", "filter", "from"} : Got(req[r], next)[f] = req[r][f]
<1> DEFINE x == req[r]
<1>1. x \in Request /\ x.pages \in Nat /\ x.seen \subseteq Lines
    BY RequestIs
<1>2. Collected(x) \in Partial(Lines, Statuses)
    BY CollectedIs
<1>3. x.pages + 1 \in 0..MaxPages
    BY <1>1, OrdersAssumption
<1>4. (IF next \in Lines THEN x.seen \union {next} ELSE x.seen) \subseteq Lines
    BY <1>1
<1>5. HasMore(x, next) \in BOOLEAN /\ HasMore(x, next) = (next # NoCursor)
    BY DEF HasMore
<1>6. PICK all : all = Collected(x)
    OBVIOUS
<1>7. PICK seen : seen = IF next \in Lines THEN x.seen \union {next} ELSE x.seen
    OBVIOUS
<1>8. PICK more : more = HasMore(x, next)
    OBVIOUS
<1>9. Got(x, next) = [x EXCEPT !.items = all, !.pages = x.pages + 1, !.cursor = next, !.seen = seen, !.more = more]
    BY <1>1, <1>6, <1>7, <1>8 DEF Got, Request
<1> HIDE DEF x
<1>10. Got(x, next) \in Request
    BY <1>1, <1>2, <1>3, <1>4, <1>5, <1>6, <1>7, <1>8, <1>9 DEF Request
<1>11. /\ Got(x, next).items = all /\ Got(x, next).pages = x.pages + 1 /\ Got(x, next).cursor = next
       /\ Got(x, next).more = more
       /\ Got(x, next).at = x.at /\ Got(x, next).kind = x.kind /\ Got(x, next).market = x.market
       /\ Got(x, next).filter = x.filter /\ Got(x, next).from = x.from
    BY <1>1, <1>9 DEF Request
<1>12. \A f \in {"at", "kind", "market", "filter", "from"} : Got(x, next)[f] = x[f]
    BY <1>11
<1> QED BY <1>5, <1>6, <1>8, <1>10, <1>11, <1>12 DEF x

\* The cursor is the last line of its page: what is not on the page comes after it.
LEMMA CursorIsLast ==
    ASSUME TypeOK, NEW x
    PROVE  /\ NextCursor(x) = NoCursor => After(x) = Page(x)
           /\ NextCursor(x) # NoCursor => \A l \in After(x) \ Page(x) : l < NextCursor(x)
<1> DEFINE S == After(x)
           P == Page(x)
<1>1. S \subseteq Nat \ {0} /\ IsFiniteSet(S) /\ P \subseteq S
    BY AskedAre, LinesAre
<1>2. PageSize \in Nat \ {0}
    BY OrdersAssumption
<1>3. Sorts(LaterOf, S) /\ P = Top(LaterOf, S, PageSize)
    BY <1>1, <1>2, NewestIsTop DEF Page
<1> HIDE DEF S, P
<1>4. CASE S = P
    BY <1>4 DEF NextCursor, S, P
<1>5. CASE S # P
    <2>1. PICK l \in S : l \notin P
        BY <1>1, <1>5
    <2>2. Cardinality(P) >= PageSize
        BY <1>1, <1>2, <1>3, <2>1, TopIsAhead
    <2>3. P # {}
        <3>1. P = {} => Cardinality(P) = 0
            BY FS_EmptySet
        <3> QED BY <1>2, <2>2, <3>1
    <2>4. \E m \in P : \A k \in P : m <= k
        BY <1>1, <2>3, Least
    <2>5. NextCursor(x) \in P
        BY <1>5, <2>4 DEF NextCursor, S, P
    <2>6. NextCursor(x) # NoCursor
        BY <1>1, <2>5 DEF NoCursor
    <2>7. ASSUME NEW k \in S, k \notin P PROVE k < NextCursor(x)
        <3>1. <<NextCursor(x), k>> \in LaterOf
            BY <1>1, <1>2, <1>3, <2>5, <2>7, TopIsAhead
        <3> QED BY <1>1, <2>5, <2>7, <3>1 DEF LaterOf
    <2> QED BY <2>6, <2>7 DEF S, P
<1> QED BY <1>4, <1>5

-----------------------------------------------------------------------------
(***************************************************************************)
(* The store                                                               *)
(***************************************************************************)
\* What the sort needs to know of its rows.
RowsAre(all) ==
    /\ DOMAIN all \subseteq Lines
    /\ \A l \in DOMAIN all : all[l].status \in Statuses /\ all[l].seen \in 0..MaxNow /\ all[l].place \in Nat
    /\ \A k, l \in DOMAIN all : all[k].place = all[l].place => k = l
    /\ all = [l \in DOMAIN all |-> [status |-> all[l].status, seen |-> all[l].seen, place |-> all[l].place]]

OrderOf(all) == {ss \in (DOMAIN all) \X (DOMAIN all) : Before(all, ss[1], ss[2])}

\* A line's place in the sort does not fall when it is seen again.
LEMMA StampIs ==
    ASSUME NEW l \in Lines, NEW s \in Nat, NEW t \in Nat, s <= t
    PROVE  Stamp(l, s) \in Nat /\ Stamp(l, t) \in Nat /\ Stamp(l, s) <= Stamp(l, t)
<1>1. Moment[l] \in Nat /\ Ahead[MarketOf[l]] \in Nat
    BY OrdersAssumption
<1> QED BY <1>1 DEF Stamp

LEMMA BeforeSorts ==
    ASSUME NEW all, RowsAre(all), NEW S \in SUBSET DOMAIN all
    PROVE  /\ IsFiniteSet(S) /\ Sorts(OrderOf(all), S)
           /\ \A l \in DOMAIN all : Rank(all, S, l) = Cardinality(Over(OrderOf(all), S, l))
           /\ \A n : First(all, S, n) = Top(OrderOf(all), S, n)
<1> DEFINE D == DOMAIN all
           T(l) == Stamp(l, all[l].seen)
           P(l) == all[l].place
<1>1. \A l \in D : T(l) \in Nat /\ P(l) \in Nat
    BY StampIs, OrdersAssumption DEF RowsAre
<1>2. \A k, l \in D : P(k) = P(l) => k = l
    BY DEF RowsAre
<1>3. \A k, l \in D : <<k, l>> \in OrderOf(all) <=> Before(all, k, l)
    BY DEF OrderOf
<1>4. \A k, l \in D : Before(all, k, l) <=> T(k) > T(l) \/ (T(k) = T(l) /\ P(k) < P(l))
    BY DEF Before
<1> HIDE DEF T, P
<1>10. Sorts(OrderOf(all), D)
    <2>1. ASSUME NEW a \in D PROVE ~Before(all, a, a)
        BY <1>1, <1>4
    <2>2. ASSUME NEW a \in D, NEW b \in D PROVE a = b \/ Before(all, a, b) \/ Before(all, b, a)
        <3>1. T(a) \in Nat /\ T(b) \in Nat /\ P(a) \in Nat /\ P(b) \in Nat /\ (P(a) = P(b) => a = b)
            BY <1>1, <1>2
        <3>2. T(a) > T(b) \/ T(b) > T(a) \/ (T(a) = T(b) /\ (P(a) < P(b) \/ P(b) < P(a) \/ P(a) = P(b)))
            BY <3>1
        <3> QED BY <1>4, <3>1, <3>2
    <2>3. ASSUME NEW a \in D, NEW b \in D, NEW c \in D, Before(all, a, b), Before(all, b, c)
          PROVE  Before(all, a, c)
        BY <1>1, <1>4, <2>3
    <2> QED BY <1>3, <2>1, <2>2, <2>3 DEF Sorts
<1>5. Sorts(OrderOf(all), S)
    BY <1>10 DEF Sorts
<1>6. IsFiniteSet(S)
    BY LinesAre DEF RowsAre
<1>7. \A l \in D : {k \in S : Before(all, k, l)} = Over(OrderOf(all), S, l)
    BY <1>3 DEF Over
<1>8. \A l \in D : Rank(all, S, l) = Cardinality(Over(OrderOf(all), S, l))
    BY <1>7 DEF Rank
<1>9. \A n : First(all, S, n) = Top(OrderOf(all), S, n)
    BY <1>8 DEF First, Top
<1> QED BY <1>5, <1>6, <1>8, <1>9

LEMMA RowsAreRows ==
    ASSUME TypeOK, StoreInv
    PROVE  RowsAre(rows)
<1>1. DOMAIN rows \subseteq Lines /\ rows \in [DOMAIN rows -> Row]
    BY OfPartial DEF TypeOK
<1>2. ASSUME NEW l \in DOMAIN rows
      PROVE  /\ rows[l].status \in Statuses /\ rows[l].seen \in 0..MaxNow /\ rows[l].place \in Nat
             /\ rows[l] = [status |-> rows[l].status, seen |-> rows[l].seen, place |-> rows[l].place]
    <2>1. rows[l] \in Row
        BY <1>1
    <2> QED BY <2>1, OrdersAssumption DEF Row
<1>3. \A k, l \in DOMAIN rows : rows[k].place = rows[l].place => k = l
    BY DEF StoreInv, RowsInPlace, InPlace
<1> QED BY <1>1, <1>2, <1>3 DEF RowsAre

\* prunePerTenant keeps at most MaxRows rows, and puts them in place.
LEMMA KeptIs ==
    ASSUME NEW all, RowsAre(all)
    PROVE  /\ Kept(all) \in Partial(Lines, Row) /\ InPlace(Kept(all))
           /\ DOMAIN Kept(all) = First(all, DOMAIN all, MaxRows)
           /\ Cardinality(DOMAIN Kept(all)) <= MaxRows
           /\ \A l \in DOMAIN Kept(all) : l \in DOMAIN all /\ Kept(all)[l].seen = all[l].seen
<1> DEFINE D == DOMAIN all
           R == OrderOf(all)
           F == First(all, D, MaxRows)
           P(l) == Cardinality(Over(R, D, l))
<1>1. IsFiniteSet(D) /\ Sorts(R, D) /\ F = Top(R, D, MaxRows) /\ \A l \in D : Rank(all, D, l) = P(l)
    BY BeforeSorts
<1>2. MaxRows \in Nat
    BY OrdersAssumption
<1> HIDE DEF R
<1>3. F \subseteq D /\ \A l \in F : P(l) \in Nat /\ P(l) < MaxRows
    BY <1>1, OverIs DEF Top
<1>4. IsFiniteSet(F) /\ Cardinality(F) <= MaxRows
    BY <1>1, <1>2, TopIsSmall
<1>5. DOMAIN Kept(all) = F
    BY DEF Kept
<1>6. \A l \in F : Kept(all)[l] = [status |-> all[l].status, seen |-> all[l].seen, place |-> P(l)]
    <2>1. \A l \in F : Kept(all)[l] = [all[l] EXCEPT !.place = Rank(all, D, l)]
        BY DEF Kept
    <2>2. \A l \in D : all[l] = [status |-> all[l].status, seen |-> all[l].seen, place |-> all[l].place]
        BY DEF RowsAre
    <2> QED BY <1>1, <1>3, <2>1, <2>2
<1>7. \A l \in F : Kept(all)[l] \in Row
    <2>1. \A l \in F : all[l].status \in Statuses /\ all[l].seen \in 0..MaxNow
        BY <1>3 DEF RowsAre
    <2>2. \A l \in F : P(l) \in 0..MaxRows
        <3> HIDE DEF P
        <3> QED BY <1>2, <1>3
    <2>3. ASSUME NEW l \in F PROVE Kept(all)[l] \in Row
        <3>1. PICK p \in 0..MaxRows, t \in 0..MaxNow, u \in Statuses :
                p = P(l) /\ t = all[l].seen /\ u = all[l].status
            BY <2>1, <2>2
        <3>2. Kept(all)[l] = [status |-> u, seen |-> t, place |-> p]
            BY <1>6, <3>1
        <3> QED BY <3>2 DEF Row
    <2> QED BY <2>3
<1>8. Kept(all) \in Partial(Lines, Row)
    <2>1. F \subseteq Lines
        BY <1>3 DEF RowsAre
    <2>2. Kept(all) \in [F -> Row]
        BY <1>7 DEF Kept
    <2> QED BY <2>1, <2>2, InPartial
<1>9. ASSUME NEW k \in F, NEW l \in F, P(k) = P(l) PROVE k = l
    <2>1. ~(<<k, l>> \in R) /\ ~(<<l, k>> \in R)
        BY <1>1, <1>3, <1>9, OverGrows
    <2> QED BY <1>1, <1>3, <2>1 DEF Sorts
<1>10. ASSUME NEW l \in F PROVE P(l) < Cardinality(F)
    <2>1. Over(R, D, l) \subseteq F
        BY <1>1, <1>2, TopIsUpward DEF Over
    <2>2. l \notin Over(R, D, l)
        BY <1>1, <1>3 DEF Over, Sorts
    <2>3. IsFiniteSet(Over(R, D, l)) /\ P(l) \in Nat
        BY <1>1, OverIs
    <2>4. IsFiniteSet(Over(R, D, l) \union {l}) /\ Cardinality(Over(R, D, l) \union {l}) = P(l) + 1
        BY <2>2, <2>3, FS_AddElement
    <2>5. Cardinality(Over(R, D, l) \union {l}) <= Cardinality(F)
        BY <1>4, <2>1, <2>4, FS_Subset
    <2>6. Cardinality(F) \in Nat
        BY <1>4, FS_CardinalityType
    <2> HIDE DEF F
    <2> QED BY <2>3, <2>4, <2>5, <2>6
<1>13. ASSUME NEW l \in F PROVE Kept(all)[l].place = P(l) /\ Kept(all)[l].seen = all[l].seen
    <2>1. PICK p, t, u : p = P(l) /\ t = all[l].seen /\ u = all[l].status
        OBVIOUS
    <2>2. Kept(all)[l] = [status |-> u, seen |-> t, place |-> p]
        BY <1>6, <2>1
    <2> QED BY <2>1, <2>2
<1>11. InPlace(Kept(all))
    <2>1. \A l \in F : Kept(all)[l].place = P(l)
        BY <1>13
    <2> HIDE DEF F, P
    <2> QED BY <1>5, <1>9, <1>10, <2>1 DEF InPlace
<1>12. \A l \in F : l \in D /\ Kept(all)[l].seen = all[l].seen
    BY <1>3, <1>13
<1> QED BY <1>4, <1>5, <1>8, <1>11, <1>12

\* The rows with the items of a merge behind them, before the sort
LEMMA JoinedIs ==
    ASSUME TypeOK, StoreInv, NEW items \in Partial(Lines, Statuses)
    PROVE  /\ RowsAre(Joined(items)) /\ DOMAIN Joined(items) = DOMAIN rows \union DOMAIN items
           /\ \A l \in DOMAIN items : Joined(items)[l].seen = now
           /\ \A l \in DOMAIN rows : rows[l].seen <= Joined(items)[l].seen /\ rows[l].seen \in Nat
           /\ \A l \in DOMAIN Joined(items) : Joined(items)[l].seen <= now
<1> DEFINE D == DOMAIN rows \union DOMAIN items
           n == Cardinality(DOMAIN rows)
           B(l) == Over(LaterOf, DOMAIN items, l)
           all == Joined(items)
           Status(l) == IF l \in DOMAIN items THEN items[l] ELSE rows[l].status
           Seen(l) == IF l \in DOMAIN items THEN now ELSE rows[l].seen
           Place(l) == IF l \in DOMAIN rows THEN rows[l].place ELSE n + Cardinality(B(l))
<1>1. DOMAIN items \subseteq Lines /\ \A l \in DOMAIN items : items[l] \in Statuses
    BY OfPartial
<1>2. DOMAIN rows \subseteq Lines /\ \A l \in DOMAIN rows : rows[l] \in Row
    BY OfPartial DEF TypeOK
<1>3. IsFiniteSet(DOMAIN rows) /\ n \in Nat /\ DOMAIN items \subseteq Nat /\ IsFiniteSet(DOMAIN items)
    BY <1>1, <1>2, LinesAre, FS_CardinalityType
<1>4. Sorts(LaterOf, DOMAIN items) /\ \A l \in DOMAIN items : B(l) = {k \in DOMAIN items : k > l}
    BY <1>3, NewestIsTop
<1>5. now \in 0..MaxNow /\ \A l \in DOMAIN rows : rows[l].seen <= now
    BY DEF TypeOK, StoreInv, ByNow
<1>6. /\ \A k, l \in DOMAIN rows : rows[k].place = rows[l].place => k = l
      /\ \A l \in DOMAIN rows : rows[l].place < n
    BY DEF StoreInv, RowsInPlace, InPlace
<1>7. \A l \in DOMAIN rows : rows[l].status \in Statuses /\ rows[l].seen \in 0..MaxNow /\ rows[l].place \in Nat
    BY <1>2, OrdersAssumption DEF Row
<1>8. DOMAIN all = D
    BY DEF Joined
<1>9. /\ \A l \in D : all[l] = [status |-> Status(l), seen |-> Seen(l), place |-> Place(l)]
      /\ \A l \in D : all[l].status = Status(l) /\ all[l].seen = Seen(l) /\ all[l].place = Place(l)
    <2>1. \A l \in D : all[l] = [status |-> Status(l), seen |-> Seen(l), place |-> Place(l)]
        BY <1>4 DEF Joined
    <2>2. ASSUME NEW l \in D
          PROVE  all[l].status = Status(l) /\ all[l].seen = Seen(l) /\ all[l].place = Place(l)
        <3>1. PICK p, t, u : p = Place(l) /\ t = Seen(l) /\ u = Status(l)
            OBVIOUS
        <3>2. all[l] = [status |-> u, seen |-> t, place |-> p]
            BY <2>1, <3>1
        <3> QED BY <3>1, <3>2
    <2> QED BY <2>1, <2>2
<1>10. \A l \in DOMAIN items : Cardinality(B(l)) \in Nat
    BY <1>3, OverIs
<1>11. \A l \in D : all[l].status \in Statuses /\ all[l].seen \in 0..MaxNow /\ all[l].place \in Nat
    <2>1. \A l \in D : Status(l) \in Statuses
        BY <1>1, <1>7
    <2>2. \A l \in D : Seen(l) \in 0..MaxNow
        BY <1>5, <1>7
    <2>3. ASSUME NEW l \in D PROVE Place(l) \in Nat
        <3>1. CASE l \in DOMAIN rows
            BY <1>7, <3>1
        <3>2. CASE l \notin DOMAIN rows
            <4>1. Place(l) = n + Cardinality(B(l)) /\ Cardinality(B(l)) \in Nat
                BY <1>10, <3>2
            <4> HIDE DEF n, B, Place
            <4> QED BY <1>3, <4>1
        <3> QED BY <3>1, <3>2
    <2> HIDE DEF Status, Seen, Place, all, D
    <2> QED BY <1>9, <2>1, <2>2, <2>3
<1>12. ASSUME NEW k \in D, NEW l \in D, all[k].place = all[l].place PROVE k = l
    <2>1. \A a \in D : all[a].place = IF a \in DOMAIN rows THEN rows[a].place ELSE n + Cardinality(B(a))
        BY <1>9
    <2>2. CASE k \in DOMAIN rows /\ l \in DOMAIN rows
        BY <1>6, <1>12, <2>1, <2>2
    <2>3. CASE k \notin DOMAIN rows /\ l \notin DOMAIN rows
        <3>1. k \in DOMAIN items /\ l \in DOMAIN items
            BY <2>3
        <3>2. Cardinality(B(k)) \in Nat /\ Cardinality(B(l)) \in Nat
            BY <1>10, <3>1
        <3>3. all[k].place = n + Cardinality(B(k)) /\ all[l].place = n + Cardinality(B(l))
            BY <2>1, <2>3
        <3>4. Cardinality(B(k)) = Cardinality(B(l))
            <4>1. PICK p \in Nat, q \in Nat, i \in Nat : p = Cardinality(B(k)) /\ q = Cardinality(B(l)) /\ i = n
                BY <1>3, <3>2
            <4>2. i + p = i + q
                BY <1>12, <3>3, <4>1
            <4> QED BY <4>1, <4>2
        <3>5. ~(<<k, l>> \in LaterOf) /\ ~(<<l, k>> \in LaterOf)
            BY <1>3, <1>4, <3>1, <3>2, <3>4, OverGrows
        <3> QED BY <1>4, <3>1, <3>5 DEF Sorts
    <2>4. ASSUME NEW a \in DOMAIN rows, NEW b \in D, b \notin DOMAIN rows, all[a].place = all[b].place
          PROVE  FALSE
        <3>1. all[a].place < n /\ all[a].place \in Nat
            BY <1>6, <1>7, <2>1
        <3>2. Cardinality(B(b)) \in Nat /\ all[b].place = n + Cardinality(B(b))
            BY <1>10, <2>1, <2>4
        <3> HIDE DEF n, B, all
        <3> QED BY <1>3, <2>4, <3>1, <3>2
    <2>5. CASE k \in DOMAIN rows /\ l \notin DOMAIN rows
        BY <1>12, <2>4, <2>5
    <2>6. CASE l \in DOMAIN rows /\ k \notin DOMAIN rows
        BY <1>12, <2>4, <2>6
    <2> QED BY <2>2, <2>3, <2>5, <2>6
<1>13. D \subseteq Lines
    BY <1>1, <1>2
<1>14. all = [l \in D |-> [status |-> all[l].status, seen |-> all[l].seen, place |-> all[l].place]]
    <2>1. \A l \in D : all[l] = [status |-> all[l].status, seen |-> all[l].seen, place |-> all[l].place]
        <3> HIDE DEF Status, Seen, Place, all, D
        <3> QED BY <1>9
    <2>2. all = [l \in D |-> all[l]]
        BY DEF Joined
    <2> HIDE DEF all
    <2> QED BY <2>1, <2>2
<1>15. RowsAre(all)
    <2> HIDE DEF all, D
    <2> QED BY <1>8, <1>11, <1>12, <1>13, <1>14 DEF RowsAre
<1>16. \A l \in DOMAIN items : all[l].seen = now
    BY <1>9
<1>17. \A l \in DOMAIN rows : rows[l].seen <= all[l].seen /\ rows[l].seen \in Nat
    BY <1>5, <1>7, <1>9, OrdersAssumption
<1>18. \A l \in D : all[l].seen <= now
    BY <1>5, <1>9
<1> QED BY <1>8, <1>15, <1>16, <1>17, <1>18

-----------------------------------------------------------------------------
(***************************************************************************)
(* The steps                                                               *)
(***************************************************************************)
LEMMA StoreStays ==
    ASSUME IInv, rows' = rows, told' = told, now' \in Nat, now <= now'
    PROVE  StoreInv'
<1>1. RowsInPlace'
    BY DEF IInv, StoreInv, RowsInPlace, InPlace
<1>2. ToldAreStored'
    BY DEF IInv, StoreInv, ToldAreStored, NotEarlier
<1>3. ByNow'
    <2>1. /\ \A l \in DOMAIN rows : rows[l].seen \in Nat
          /\ \A l \in DOMAIN told : told[l] \in Nat
        <3>1. rows \in Partial(Lines, Row) /\ told \in Partial(Lines, 0..MaxNow)
            BY DEF IInv, TypeOK
        <3>2. rows \in [DOMAIN rows -> Row] /\ told \in [DOMAIN told -> 0..MaxNow]
            BY <3>1, OfPartial
        <3> QED BY <3>2, OrdersAssumption DEF Row
    <2>2. now \in Nat
        BY OrdersAssumption DEF IInv, TypeOK
    <2> QED BY <2>1, <2>2 DEF IInv, StoreInv, ByNow
<1> QED BY <1>1, <1>2, <1>3 DEF StoreInv

LEMMA MarketStep ==
    ASSUME IInv, Tick \/ \E l \in Lines : Advance(l)
    PROVE  IInv'
<1>1. UNCHANGED <<req, queue, rows, restarts, told>>
    BY DEF Tick, Advance, storeVars
<1>2. Lines \subseteq Nat /\ \A l \in Lines : Moment[l] \in Nat
    BY LinesAre, OrdersAssumption
<1>3. now \in 0..MaxNow /\ MaxNow \in Nat /\ status \in [Lines -> Statuses] /\ matched \in [Requests -> SUBSET Lines]
    BY OrdersAssumption DEF IInv, TypeOK
<1>4. now' \in 0..MaxNow /\ now <= now'
    BY <1>3 DEF Tick, Advance
<1>5. status' \in [Lines -> Statuses]
    <2>1. ASSUME NEW l \in Lines, Advance(l) PROVE status' \in [Lines -> Statuses]
        <3>1. status[l] + 1 \in Statuses
            BY <1>3, <2>1, OrdersAssumption DEF Advance, Statuses
        <3> QED BY <1>3, <2>1, <3>1 DEF Advance
    <2> QED BY <1>3, <2>1 DEF Tick
<1>6. /\ matched' \in [Requests -> SUBSET Lines]
      /\ \A r \in Requests : /\ matched'[r] \subseteq matched[r]
                             /\ status' = status \/ \A l \in matched'[r] : Matches(req[r], l, status')
    <2>1. ASSUME NEW k \in Lines, Advance(k)
          PROVE  /\ matched' \in [Requests -> SUBSET Lines]
                 /\ \A r \in Requests : /\ matched'[r] \subseteq matched[r]
                                        /\ \A l \in matched'[r] : Matches(req[r], l, status')
        <3>1. matched' = [r \in Requests |-> {l \in matched[r] : Matches(req[r], l, status')}]
            BY <2>1 DEF Advance, StillMatched
        <3>2. \A r \in Requests : {l \in matched[r] : Matches(req[r], l, status')} \subseteq Lines
            BY <1>3
        <3> QED BY <3>1, <3>2
    <2> QED BY <1>3, <2>1 DEF Tick
<1>7. TypeOK'
    BY <1>1, <1>4, <1>5, <1>6 DEF IInv, TypeOK
<1>8. QueueOfMerging' /\ PagesLeft' /\ StoreInv'
    <2>1. StoreInv'
        BY <1>1, <1>3, <1>4, StoreStays
    <2> QED BY <1>1, <2>1 DEF IInv, QueueOfMerging, PagesLeft
<1>9. MatchedAreCovered'
    <2> SUFFICES ASSUME NEW r \in Requests, req[r].at = "fetching", NEW l \in matched'[r]
                 PROVE  /\ l \in Placed' /\ Matches(req[r], l, status')
                        /\ l \in DOMAIN req[r].items \/ req[r].cursor = NoCursor \/ l < req[r].cursor
        BY <1>1 DEF MatchedAreCovered, Covers
    <2>1. l \in matched[r]
        BY <1>6
    <2>2. /\ l \in Placed /\ Matches(req[r], l, status)
          /\ l \in DOMAIN req[r].items \/ req[r].cursor = NoCursor \/ l < req[r].cursor
        BY <2>1 DEF IInv, MatchedAreCovered, Covers
    <2>3. l \in Placed'
        BY <1>2, <1>3, <1>4, <2>2 DEF Placed
    <2>4. Matches(req[r], l, status')
        BY <1>6, <2>2
    <2> QED BY <2>2, <2>3, <2>4
<1> QED BY <1>7, <1>8, <1>9 DEF IInv

\* One request moves on.
LEMMA OneRequest ==
    ASSUME IInv, NEW r \in Requests, NEW x \in Request, NEW M \in SUBSET Lines,
           req' = [req EXCEPT ![r] = x], matched' = [matched EXCEPT ![r] = M],
           UNCHANGED marketVars,
           x.at = "fetching" => x.pages < MaxPages /\ Covers(x, M),
           queue' \in Seq(Requests), rows' \in Partial(Lines, Row),
           Cardinality(DOMAIN rows') <= MaxRows, UNCHANGED restarts, told' \in Partial(Lines, 0..MaxNow)
    PROVE  TypeOK' /\ PagesLeft' /\ MatchedAreCovered'
<1>1. DOMAIN req = Requests /\ \A q \in Requests : req[q] \in Request
    BY DEF IInv, TypeOK
<1>2. DOMAIN req' = Requests /\ req'[r] = x /\ \A q \in Requests : q # r => req'[q] = req[q]
    BY <1>1
<1>3. \A q \in Requests : req'[q] \in Request
    BY <1>1, <1>2
<1>4. matched \in [Requests -> SUBSET Lines]
    BY DEF IInv, TypeOK
<1>5. matched' \in [Requests -> SUBSET Lines] /\ matched'[r] = M /\ \A q \in Requests : q # r => matched'[q] = matched[q]
    BY <1>4
<1>6. now' = now /\ status' = status /\ Placed' = Placed
    BY DEF marketVars, Placed
<1>7. TypeOK'
    BY <1>2, <1>3, <1>5, <1>6 DEF IInv, TypeOK
<1>8. PagesLeft'
    BY <1>2 DEF IInv, PagesLeft
<1>9. MatchedAreCovered'
    <2> SUFFICES ASSUME NEW q \in Requests, req'[q].at = "fetching", NEW l \in matched'[q]
                 PROVE  /\ l \in Placed' /\ Matches(req'[q], l, status')
                        /\ l \in DOMAIN req'[q].items \/ req'[q].cursor = NoCursor \/ l < req'[q].cursor
        BY DEF MatchedAreCovered, Covers
    <2>1. Covers(req'[q], matched'[q])
        BY <1>2, <1>5 DEF IInv, MatchedAreCovered
    <2> QED BY <1>6, <2>1 DEF Covers
<1> QED BY <1>7, <1>8, <1>9

\* The end of a request
LEMMA EndingRequest ==
    ASSUME IInv, NEW r \in Requests, NEW at \in {"ok", "failed"}, Ends(r, at), UNCHANGED marketVars,
           queue' \in Seq(Requests), rows' \in Partial(Lines, Row),
           Cardinality(DOMAIN rows') <= MaxRows, UNCHANGED restarts, told' \in Partial(Lines, 0..MaxNow)
    PROVE  TypeOK' /\ PagesLeft' /\ MatchedAreCovered'
<1>1. PICK x \in Request : x = Ended(at) /\ x.at # "fetching"
    BY EndedIsFine
<1>2. req' = [req EXCEPT ![r] = x] /\ matched' = [matched EXCEPT ![r] = {}]
    BY <1>1 DEF Ends
<1> QED BY <1>1, <1>2, OneRequest

LEMMA StartStep ==
    ASSUME IInv, NEW r \in Requests, NEW kind \in {"orders", "products"}, NEW market \in DOMAIN Filters,
           NEW filter \in SUBSET Statuses, Start(r, kind, market, filter)
    PROVE  TypeOK' /\ PagesLeft' /\ MatchedAreCovered'
<1>1. PICK x : x = [Fresh EXCEPT !.at = "fetching", !.kind = kind, !.market = market,
                                 !.filter = filter, !.from = FirstDay]
    OBVIOUS
<1>2. Fresh \in Request /\ market \in Markets /\ FirstDay \in 0..MaxNow
    BY EndedIsFine, OrdersAssumption DEF IInv, TypeOK, FirstDay
<1>3. x \in Request /\ x.at = "fetching" /\ x.pages = Fresh.pages /\ x.cursor = Fresh.cursor
    BY <1>1, <1>2 DEF Request
<1>4. Fresh.pages = 0 /\ Fresh.cursor = NoCursor
    BY DEF Fresh
<1>5. req' = [req EXCEPT ![r] = x] /\ DOMAIN req = Requests /\ UNCHANGED <<marketVars, storeVars>>
    BY <1>1 DEF Start, IInv, TypeOK
<1>6. PICK M : M = Asked(x)
    OBVIOUS
<1>7. matched' = [matched EXCEPT ![r] = M]
    <2>1. req'[r] = x
        BY <1>5
    <2> QED BY <1>6, <2>1 DEF Start
<1>8. M \subseteq Lines
    BY <1>6, AskedAre DEF IInv
<1>9. x.pages < MaxPages
    BY <1>3, <1>4, OrdersAssumption
<1>10. Covers(x, M)
    BY <1>3, <1>4, <1>6 DEF Covers, Asked
<1>11. /\ queue' \in Seq(Requests) /\ rows' \in Partial(Lines, Row) /\ told' \in Partial(Lines, 0..MaxNow)
       /\ Cardinality(DOMAIN rows') <= MaxRows /\ UNCHANGED <<marketVars, restarts>>
    BY <1>5 DEF storeVars, IInv, TypeOK
<1> QED BY <1>3, <1>5, <1>7, <1>8, <1>9, <1>10, <1>11, OneRequest

\* What the last page does to the queue
LEMMA CompleteStep ==
    ASSUME IInv, NEW r \in Requests, NEW x \in Request, Complete(r, x), UNCHANGED <<marketVars, rows, restarts>>
    PROVE  TypeOK' /\ PagesLeft' /\ MatchedAreCovered'
<1>1. PICK y : y = IF Merges(x) THEN [x EXCEPT !.at = "merging", !.seen = {}] ELSE [Ended("ok") EXCEPT !.more = x.more]
    OBVIOUS
<1>2. y \in Request /\ y.at # "fetching"
    <2>1. CASE Merges(x)
        BY <1>1, <2>1 DEF Request
    <2>2. CASE ~Merges(x)
        <3>1. Ended("ok") \in Request /\ Ended("ok").at = "ok" /\ x.more \in BOOLEAN
            BY EndedIsFine DEF Request
        <3>2. PICK z \in Request : z = Ended("ok") /\ z.at = "ok"
            BY <3>1
        <3>3. y = [z EXCEPT !.more = x.more]
            BY <1>1, <2>2, <3>2
        <3> QED BY <3>1, <3>2, <3>3 DEF Request
    <2> QED BY <2>1, <2>2
<1>3. req' = [req EXCEPT ![r] = y] /\ matched' = [matched EXCEPT ![r] = {}]
    BY <1>1 DEF Complete
<1>4. queue' \in Seq(Requests)
    <2>1. queue \in Seq(Requests) /\ (queue' = Append(queue, r) \/ queue' = queue)
        BY DEF Complete, IInv, TypeOK
    <2> QED BY <2>1
<1>5. /\ rows' \in Partial(Lines, Row) /\ told' \in Partial(Lines, 0..MaxNow) /\ UNCHANGED <<marketVars, restarts>>
      /\ Cardinality(DOMAIN rows') <= MaxRows
    BY DEF Complete, IInv, TypeOK
<1> QED BY <1>2, <1>3, <1>4, <1>5, OneRequest

\* A further page is collected.
LEMMA FurtherPage ==
    ASSUME IInv, NEW r \in Requests, NEW next \in Cursors, req[r].at = "fetching", next # NoCursor,
           next = NextCursor(req[r]) \/ next \in Astray, req[r].pages + 1 < MaxPages
    PROVE  /\ Got(req[r], next).pages < MaxPages
           /\ Covers(Got(req[r], next), matched[r])
<1> DEFINE x == req[r]
<1>0. TypeOK
    BY DEF IInv
<1>1. x.pages \in Nat /\ x.pages < MaxPages
    BY <1>0, RequestIs DEF IInv, PagesLeft
<1>2. PICK g : g = Got(x, next)
    OBVIOUS
<1>3. /\ g.items = Collected(x) /\ g.pages = x.pages + 1 /\ g.cursor = next
      /\ \A f \in {"at", "kind", "market", "filter", "from"} : g[f] = x[f]
    BY <1>0, <1>1, <1>2, GotIs
<1>4. DOMAIN g.items = DOMAIN x.items \union Page(x)
    BY <1>0, <1>3, CollectedIs
<1>5. Covers(x, matched[r])
    BY DEF IInv, MatchedAreCovered
<1>6. \A l \in After(x) \ Page(x) : l < next
    <2>1. After(x) \subseteq Lines
        BY <1>0, AskedAre
    <2>2. next \in Astray => \A l \in Lines : l < next
        BY CursorsAre
    <2> QED BY <1>0, <2>1, <2>2, CursorIsLast
<1>7. g.kind = x.kind /\ g.market = x.market /\ g.filter = x.filter /\ g.from = x.from
    BY <1>3
<1>8. ASSUME NEW l \in matched[r]
      PROVE  l \in Placed /\ Matches(g, l, status) /\ (l \in DOMAIN g.items \/ l < next)
    <2>1. l \in Placed /\ Matches(x, l, status) /\ (l \in DOMAIN x.items \/ x.cursor = NoCursor \/ l < x.cursor)
        BY <1>5, <1>8 DEF Covers
    <2>2. Matches(g, l, status)
        BY <1>7, <2>1 DEF Matches
    <2>3. l \in DOMAIN x.items \/ l \in After(x)
        BY <2>1 DEF After, Asked
    <2> QED BY <1>4, <1>6, <2>1, <2>2, <2>3
<1>9. Covers(g, matched[r])
    BY <1>3, <1>8 DEF Covers
<1> QED BY <1>1, <1>2, <1>3, <1>9

LEMMA PageStep ==
    ASSUME IInv, NEW r \in Requests, NEW next \in Cursors, PageArrives(r, next)
    PROVE  TypeOK' /\ PagesLeft' /\ MatchedAreCovered'
<1> DEFINE x == req[r]
<1>1. TypeOK /\ x.at = "fetching" /\ x.pages < MaxPages /\ UNCHANGED <<marketVars, rows, restarts>>
    BY DEF IInv, PageArrives, PagesLeft
<1>2. queue \in Seq(Requests) /\ rows \in Partial(Lines, Row) /\ told \in Partial(Lines, 0..MaxNow)
      /\ Cardinality(DOMAIN rows) <= MaxRows
    BY DEF IInv, TypeOK
<1>3. CASE Repeats(x, next)
    <2>1. Ends(r, "failed") /\ queue' = queue /\ told' = told
        BY <1>3 DEF PageArrives
    <2> QED BY <1>1, <1>2, <2>1, EndingRequest
<1>4. CASE ~Repeats(x, next) /\ Continues(x, next)
    <2>1. req' = [req EXCEPT ![r] = Got(x, next)] /\ UNCHANGED <<queue, told, matched>>
        BY <1>4 DEF PageArrives
    <2>2. (next = NextCursor(x) \/ next \in Astray) /\ next # NoCursor /\ x.pages + 1 < MaxPages
        BY <1>4 DEF PageArrives, Continues, Given, Repeats
    <2>3. PICK g : g = Got(x, next)
        OBVIOUS
    <2>4. g \in Request
        BY <1>1, <2>3, GotIs
    <2>5. g.pages < MaxPages /\ Covers(g, matched[r])
        BY <1>1, <2>2, <2>3, FurtherPage
    <2>6. PICK M : M = matched[r]
        OBVIOUS
    <2>7. M \subseteq Lines /\ matched' = [matched EXCEPT ![r] = M]
        BY <2>1, <2>6 DEF IInv, TypeOK
    <2>8. req' = [req EXCEPT ![r] = g]
        BY <2>1, <2>3
    <2>9. queue' = queue /\ told' = told /\ rows' = rows /\ restarts' = restarts
        BY <1>1, <2>1
    <2>10. g.pages < MaxPages /\ Covers(g, M)
        BY <2>5, <2>6
    <2> HIDE DEF x
    <2> QED BY <1>1, <1>2, <2>4, <2>7, <2>8, <2>9, <2>10, OneRequest
<1>5. CASE ~Repeats(x, next) /\ ~Continues(x, next)
    <2>1. Complete(r, Got(x, next))
        BY <1>5 DEF PageArrives
    <2>2. PICK g : g = Got(x, next)
        OBVIOUS
    <2>3. g \in Request /\ Complete(r, g)
        BY <1>1, <2>1, <2>2, GotIs
    <2> QED BY <1>1, <2>3, CompleteStep
<1> QED BY <1>3, <1>4, <1>5

LEMMA QueueStep ==
    ASSUME IInv, queue # <<>>
    PROVE  /\ Head(queue) \in Requests /\ Tail(queue) \in Seq(Requests)
           /\ req[Head(queue)].at = "merging"
           /\ \A i \in DOMAIN Tail(queue) :
                /\ Tail(queue)[i] \in Requests /\ Tail(queue)[i] # Head(queue)
                /\ req[Tail(queue)[i]].at = "merging"
                /\ \A j \in DOMAIN Tail(queue) : Tail(queue)[i] = Tail(queue)[j] => i = j
<1>1. queue \in Seq(Requests)
    BY DEF IInv, TypeOK
<1>2. /\ Head(queue) \in Requests /\ Tail(queue) \in Seq(Requests) /\ Len(Tail(queue)) = Len(queue) - 1
      /\ \A i \in 1..Len(Tail(queue)) : Tail(queue)[i] = queue[i + 1]
    BY <1>1, HeadTailProperties
<1>3. Head(queue) = queue[1] /\ Len(queue) \in Nat \ {0} /\ DOMAIN queue = 1..Len(queue)
    BY <1>1, EmptySeq, LenProperties
<1>4. DOMAIN Tail(queue) = 1..Len(Tail(queue))
    BY <1>2, LenProperties
<1>5. \A i \in 1..Len(queue) : req[queue[i]].at = "merging" /\ \A j \in 1..Len(queue) : queue[i] = queue[j] => i = j
    BY <1>3 DEF IInv, QueueOfMerging
<1>6. req[Head(queue)].at = "merging"
    BY <1>3, <1>5
<1>7. ASSUME NEW i \in DOMAIN Tail(queue)
      PROVE  /\ Tail(queue)[i] \in Requests /\ Tail(queue)[i] # Head(queue)
             /\ req[Tail(queue)[i]].at = "merging"
             /\ \A j \in DOMAIN Tail(queue) : Tail(queue)[i] = Tail(queue)[j] => i = j
    <2>1. i + 1 \in 1..Len(queue) /\ i + 1 # 1 /\ 1 \in 1..Len(queue) /\ Tail(queue)[i] = queue[i + 1]
        BY <1>2, <1>3, <1>4
    <2>2. Tail(queue)[i] # Head(queue) /\ req[Tail(queue)[i]].at = "merging"
        BY <1>3, <1>5, <2>1
    <2>3. Tail(queue)[i] \in Requests
        BY <1>2, <1>4, ElementOfSeq
    <2>4. ASSUME NEW j \in DOMAIN Tail(queue), Tail(queue)[i] = Tail(queue)[j] PROVE i = j
        <3>1. j + 1 \in 1..Len(queue) /\ Tail(queue)[j] = queue[j + 1]
            BY <1>2, <1>3, <1>4
        <3>2. i + 1 = j + 1
            BY <1>5, <2>1, <2>4, <3>1
        <3> QED BY <1>2, <1>4, <3>2
    <2> QED BY <2>2, <2>3, <2>4
<1> QED BY <1>2, <1>6, <1>7

\* The head of the queue is done with.
LEMMA Dequeued ==
    ASSUME IInv, queue # <<>>, NEW at \in {"ok", "failed"}, Ends(Head(queue), at), queue' = Tail(queue)
    PROVE  QueueOfMerging'
<1>1. \A q \in Requests : q # Head(queue) => req'[q] = req[q]
    BY QueueStep DEF Ends, IInv, TypeOK
<1> QED BY <1>1, QueueStep DEF QueueOfMerging

\* A request that is not in the queue changes.
LEMMA NotQueued ==
    ASSUME IInv, NEW r \in Requests, req[r].at # "merging", queue' = queue,
           \A q \in Requests : q # r => req'[q] = req[q]
    PROVE  QueueOfMerging'
<1>1. \A i \in DOMAIN queue : queue[i] \in Requests /\ queue[i] # r
    <2>1. queue \in Seq(Requests) /\ DOMAIN queue = 1..Len(queue)
        BY LenProperties DEF IInv, TypeOK
    <2>2. \A i \in DOMAIN queue : queue[i] \in Requests
        BY <2>1, ElementOfSeq
    <2> QED BY <2>2 DEF IInv, QueueOfMerging
<1> QED BY <1>1 DEF IInv, QueueOfMerging

\* A request joins the queue.
LEMMA Joins ==
    ASSUME IInv, NEW r \in Requests, req[r].at = "fetching", queue' = Append(queue, r),
           req'[r].at = "merging", \A q \in Requests : q # r => req'[q] = req[q]
    PROVE  QueueOfMerging'
<1> DEFINE n == Len(queue)
<1>1. queue \in Seq(Requests) /\ n \in Nat /\ DOMAIN queue = 1..n
    BY LenProperties DEF IInv, TypeOK
<1>2. DOMAIN queue' = 1..(n + 1) /\ queue'[n + 1] = r /\ \A i \in 1..n : queue'[i] = queue[i]
    BY <1>1
<1>3. \A i \in 1..n : queue[i] \in Requests
    BY <1>1, ElementOfSeq
<1>4. \A i \in 1..n : queue[i] # r /\ req[queue[i]].at = "merging" /\ \A j \in 1..n : queue[i] = queue[j] => i = j
    BY <1>1 DEF IInv, QueueOfMerging
<1>5. \A i \in 1..(n + 1) : i \in 1..n \/ i = n + 1
    BY <1>1
<1>6. \A i \in 1..(n + 1) : req'[queue'[i]].at = "merging"
    BY <1>2, <1>3, <1>4, <1>5
<1>7. \A i, j \in 1..(n + 1) : queue'[i] = queue'[j] => i = j
    BY <1>2, <1>4, <1>5
<1> QED BY <1>2, <1>6, <1>7 DEF QueueOfMerging

LEMMA RequestStepIs ==
    ASSUME IInv, NEW r \in Requests, RequestStep(r)
    PROVE  IInv'
<1>1. TypeOK' /\ PagesLeft' /\ MatchedAreCovered'
    <2>1. ASSUME NEW market \in DOMAIN Filters, NEW filter \in Filters[market], Start(r, "orders", market, filter)
          PROVE  TypeOK' /\ PagesLeft' /\ MatchedAreCovered'
        BY <2>1, StartStep, OrdersAssumption
    <2>2. ASSUME NEW market \in DOMAIN Filters, Start(r, "products", market, {})
          PROVE  TypeOK' /\ PagesLeft' /\ MatchedAreCovered'
        BY <2>2, StartStep
    <2>3. ASSUME NEW next \in Cursors, PageArrives(r, next)
          PROVE  TypeOK' /\ PagesLeft' /\ MatchedAreCovered'
        BY <2>3, PageStep
    <2>4. ASSUME PageFails(r) PROVE TypeOK' /\ PagesLeft' /\ MatchedAreCovered'
        BY <2>4, EndingRequest DEF PageFails, storeVars, IInv, TypeOK
    <2> QED BY <2>1, <2>2, <2>3, <2>4 DEF RequestStep
<1>2. rows' = rows /\ told' = told /\ now' = now
    BY DEF RequestStep, Start, PageArrives, Complete, PageFails, storeVars, marketVars
<1>3. req[r].at \in {"new", "fetching"} /\ \A q \in Requests : q # r => req'[q] = req[q]
    <2>1. DOMAIN req = Requests
        BY DEF IInv, TypeOK
    <2> QED BY <2>1 DEF RequestStep, Start, PageArrives, Complete, PageFails, Ends
<1>4. queue' = queue \/ (req[r].at = "fetching" /\ queue' = Append(queue, r) /\ req'[r].at = "merging")
    <2>1. ASSUME NEW next \in Cursors, PageArrives(r, next), queue' # queue
          PROVE  req[r].at = "fetching" /\ queue' = Append(queue, r) /\ req'[r].at = "merging"
        <3>1. req[r].at = "fetching" /\ Complete(r, Got(req[r], next))
            BY <2>1 DEF PageArrives
        <3>2. PICK g : g = Got(req[r], next)
            OBVIOUS
        <3>3. g \in Request /\ Complete(r, g)
            BY <3>1, <3>2, GotIs DEF IInv, PagesLeft
        <3>4. Merges(g) /\ queue' = Append(queue, r)
            BY <2>1, <3>3 DEF Complete
        <3>5. req' = [req EXCEPT ![r] = [g EXCEPT !.at = "merging", !.seen = {}]]
            BY <3>3, <3>4 DEF Complete
        <3>6. [g EXCEPT !.at = "merging", !.seen = {}].at = "merging"
            BY <3>3 DEF Request
        <3> QED BY <3>1, <3>4, <3>5, <3>6 DEF IInv, TypeOK
    <2> QED BY <2>1 DEF RequestStep, Start, PageFails, storeVars
<1>5. QueueOfMerging'
    BY <1>3, <1>4, NotQueued, Joins
<1>6. StoreInv'
    <2>1. now \in Nat
        BY OrdersAssumption DEF IInv, TypeOK
    <2> QED BY <1>2, <2>1, StoreStays
<1> QED BY <1>1, <1>5, <1>6 DEF IInv

\* A merge leaves what was shown, and what it brings, in the store, or puts as many as
\* the store may hold before it.
LEMMA MergeKeepsTold ==
    ASSUME IInv, NEW items \in Partial(Lines, Statuses), rows' = Merged(items), now' = now,
           \/ told' = told
           \/ told' = [l \in DOMAIN told \union DOMAIN items |-> IF l \in DOMAIN items THEN now ELSE told[l]]
    PROVE  /\ rows' \in Partial(Lines, Row) /\ Cardinality(DOMAIN rows') <= MaxRows
           /\ told' \in Partial(Lines, 0..MaxNow) /\ StoreInv'
<1> DEFINE all == Joined(items)
           D == DOMAIN all
           R == OrderOf(all)
           F == DOMAIN rows'
<1>1. TypeOK /\ StoreInv /\ rows' = Kept(all) /\ now \in 0..MaxNow /\ MaxRows \in Nat \ {0} /\ MaxNow \in Nat
    BY OrdersAssumption DEF IInv, TypeOK, Merged
<1>2. RowsAre(all) /\ D = DOMAIN rows \union DOMAIN items
    BY <1>1, JoinedIs
<1>3. /\ \A l \in DOMAIN items : all[l].seen = now
      /\ \A l \in DOMAIN rows : rows[l].seen <= all[l].seen /\ rows[l].seen \in Nat
      /\ \A l \in D : all[l].seen <= now /\ all[l].seen \in Nat
    <2>1. /\ \A l \in DOMAIN items : all[l].seen = now
          /\ \A l \in DOMAIN rows : rows[l].seen <= all[l].seen /\ rows[l].seen \in Nat
          /\ \A l \in D : all[l].seen <= now
        BY <1>1, JoinedIs
    <2>2. \A l \in D : all[l].seen \in Nat
        BY <1>1, <1>2 DEF RowsAre
    <2> QED BY <2>1, <2>2
<1>4. /\ rows' \in Partial(Lines, Row) /\ InPlace(rows') /\ Cardinality(F) <= MaxRows
      /\ F = First(all, D, MaxRows) /\ \A l \in F : l \in D /\ rows'[l].seen = all[l].seen
    BY <1>1, <1>2, KeptIs
<1>5. /\ DOMAIN told \subseteq Lines /\ DOMAIN items \subseteq Lines /\ D \subseteq Lines
      /\ \A l \in DOMAIN told : told[l] \in 0..MaxNow /\ told[l] <= now
    BY <1>1, <1>2, OfPartial DEF TypeOK, StoreInv, ByNow, RowsAre
<1>6. /\ DOMAIN told' \subseteq DOMAIN told \union DOMAIN items
      /\ \A l \in DOMAIN told' : /\ told'[l] \in 0..MaxNow /\ told'[l] <= now
                                 /\ l \notin DOMAIN items => l \in DOMAIN told /\ told'[l] = told[l]
    BY <1>1, <1>5
<1>7. told' \in Partial(Lines, 0..MaxNow)
    <2>1. told' = [l \in DOMAIN told' |-> told'[l]]
        <3>1. told = [l \in DOMAIN told |-> told[l]]
            BY <1>1, OfPartial DEF TypeOK
        <3> QED BY <3>1
    <2>2. DOMAIN told' \subseteq Lines
        BY <1>5, <1>6
    <2>3. told' \in [DOMAIN told' -> 0..MaxNow]
        BY <1>6, <2>1
    <2> QED BY <2>2, <2>3, InPartial
<1>8. IsFiniteSet(D) /\ Sorts(R, D) /\ F = Top(R, D, MaxRows) /\ IsFiniteSet(F) /\ Cardinality(F) \in Nat
    <2>1. IsFiniteSet(D) /\ Sorts(R, D) /\ F = Top(R, D, MaxRows)
        BY <1>2, <1>4, BeforeSorts
    <2>2. F \subseteq D
        BY <1>4
    <2> QED BY <2>1, <2>2, FS_Subset, FS_CardinalityType
<1> HIDE DEF R
\* Of the lines before a time that are as many as the store may hold, all that is kept
\* is one.
<1>9. ASSUME NEW l \in Lines, l \notin F, NEW s \in Nat, Cardinality(F) >= MaxRows,
             \A k \in F : Stamp(k, all[k].seen) >= Stamp(l, s), told'[l] = s
      PROVE  Cardinality({k \in F : NotEarlier(k, l)'}) >= MaxRows
    <2>1. \A k \in F : k # l /\ Stamp(k, rows'[k].seen) >= Stamp(l, told'[l])
        BY <1>4, <1>9
    <2>2. {k \in F : NotEarlier(k, l)'} = F
        BY <2>1 DEF NotEarlier, Stamp
    <2> QED BY <1>9, <2>2
<1>10. ASSUME NEW l \in DOMAIN told', l \in F PROVE told'[l] <= rows'[l].seen
    <2>1. CASE l \in DOMAIN items
        BY <1>3, <1>4, <1>6, <1>10, <2>1
    <2>2. CASE l \notin DOMAIN items
        <3>1. l \in DOMAIN rows /\ l \in DOMAIN told /\ told'[l] = told[l]
            BY <1>2, <1>4, <1>6, <1>10, <2>2
        <3>2. told[l] <= rows[l].seen
            BY <1>1, <3>1 DEF StoreInv, ToldAreStored
        <3>3. told[l] \in Nat /\ rows[l].seen \in Nat /\ all[l].seen \in Nat /\ rows[l].seen <= all[l].seen
            BY <1>1, <1>3, <1>4, <1>5, <1>10, <3>1
        <3> QED BY <1>4, <1>10, <3>1, <3>2, <3>3
    <2> QED BY <2>1, <2>2
<1>11. ASSUME NEW l \in DOMAIN told', l \notin F, l \in D
       PROVE  Cardinality({k \in F : NotEarlier(k, l)'}) >= MaxRows
    <2>1. told'[l] \in Nat /\ all[l].seen \in Nat /\ told'[l] <= all[l].seen
        <3>1. told'[l] \in Nat /\ told'[l] <= now /\ all[l].seen \in Nat
            BY <1>1, <1>3, <1>6, <1>11
        <3>2. CASE l \in DOMAIN items
            BY <1>3, <3>1, <3>2
        <3>3. CASE l \notin DOMAIN items
            <4>1. l \in DOMAIN rows /\ l \in DOMAIN told /\ told'[l] = told[l]
                BY <1>2, <1>6, <1>11, <3>3
            <4>2. told[l] <= rows[l].seen
                BY <1>1, <4>1 DEF StoreInv, ToldAreStored
            <4>3. rows[l].seen <= all[l].seen /\ rows[l].seen \in Nat
                BY <1>3, <4>1
            <4> QED BY <3>1, <4>1, <4>2, <4>3
        <3> QED BY <3>1, <3>2, <3>3
    <2>2. Cardinality(F) >= MaxRows /\ \A k \in F : <<k, l>> \in R
        BY <1>1, <1>8, <1>11, TopIsAhead
    <2>3. l \in Lines /\ Stamp(l, told'[l]) \in Nat /\ Stamp(l, all[l].seen) \in Nat
          /\ Stamp(l, told'[l]) <= Stamp(l, all[l].seen)
        BY <1>5, <1>11, <2>1, StampIs
    <2>4. ASSUME NEW k \in F PROVE Stamp(k, all[k].seen) >= Stamp(l, told'[l])
        <3>1. Before(all, k, l)
            <4>1. <<k, l>> \in R /\ k \in D
                BY <1>4, <2>2
            <4> QED BY <1>11, <4>1 DEF R, OrderOf
        <3>2. Stamp(k, all[k].seen) \in Nat
            BY <1>3, <1>4, <1>5, StampIs
        <3>3. Stamp(k, all[k].seen) >= Stamp(l, all[l].seen)
            BY <2>3, <3>1, <3>2 DEF Before
        <3> QED BY <2>3, <3>2, <3>3
    <2> QED BY <1>9, <1>11, <2>1, <2>2, <2>3, <2>4
<1>12. ASSUME NEW l \in DOMAIN told', l \notin D
       PROVE  Cardinality({k \in F : NotEarlier(k, l)'}) >= MaxRows
    <2> DEFINE G == {k \in DOMAIN rows : NotEarlier(k, l)}
    <2>1. l \in DOMAIN told /\ l \notin DOMAIN rows /\ told'[l] = told[l] /\ l \notin F /\ l \in Lines
        BY <1>2, <1>4, <1>5, <1>6, <1>12
    <2>2. told[l] \in Nat /\ Stamp(l, told[l]) \in Nat
        BY <1>1, <1>5, <2>1, StampIs
    <2>3. Cardinality(G) >= MaxRows
        BY <1>1, <2>1 DEF StoreInv, ToldAreStored
    <2>4. G \subseteq D /\ \A k \in G : Stamp(k, all[k].seen) >= Stamp(l, told[l])
        <3>1. G \subseteq D
            BY <1>2
        <3>2. ASSUME NEW k \in G PROVE Stamp(k, all[k].seen) >= Stamp(l, told[l])
            <4>1. Stamp(k, rows[k].seen) >= Stamp(l, told[l]) /\ k \in DOMAIN rows
                BY DEF NotEarlier
            <4>2. k \in Lines /\ rows[k].seen \in Nat /\ all[k].seen \in Nat /\ rows[k].seen <= all[k].seen
                BY <1>2, <1>3, <1>5, <4>1
            <4>3. /\ Stamp(k, rows[k].seen) \in Nat /\ Stamp(k, all[k].seen) \in Nat
                  /\ Stamp(k, rows[k].seen) <= Stamp(k, all[k].seen)
                BY <4>2, StampIs
            <4> QED BY <2>2, <4>1, <4>3
        <3> QED BY <3>1, <3>2
    <2>5. Cardinality(G) \in Nat
        BY <1>8, <2>4, FS_Subset, FS_CardinalityType
    <2> HIDE DEF G
    <2>6. Cardinality(F) >= MaxRows
        <3>1. CASE F = D
            <4>1. Cardinality(G) <= Cardinality(F)
                BY <1>8, <2>4, <3>1, FS_Subset
            <4> QED BY <1>1, <1>8, <2>3, <2>5, <4>1
        <3>2. CASE F # D
            <4>1. PICK m \in D : m \notin F
                BY <1>4, <3>2
            <4> QED BY <1>1, <1>8, <4>1, TopIsAhead
        <3> QED BY <3>1, <3>2
    <2>7. ASSUME NEW k \in F, ~(Stamp(k, all[k].seen) >= Stamp(l, told[l])) PROVE FALSE
        <3>1. k \in D /\ k \in Lines /\ Stamp(k, all[k].seen) \in Nat
            BY <1>3, <1>4, <1>5, StampIs
        <3>2. \A g \in G : <<g, k>> \in R
            <4>1. ASSUME NEW g \in G PROVE Before(all, g, k)
                <5>1. g \in D /\ g \in Lines /\ Stamp(g, all[g].seen) \in Nat
                    BY <1>3, <1>5, <2>4, StampIs
                <5>2. Stamp(g, all[g].seen) > Stamp(k, all[k].seen)
                    BY <2>2, <2>4, <2>7, <3>1, <5>1
                <5> QED BY <5>2 DEF Before
            <4> QED BY <2>4, <3>1, <4>1 DEF R, OrderOf
        <3>3. G \subseteq Over(R, D, k)
            BY <2>4, <3>2 DEF Over
        <3>4. IsFiniteSet(Over(R, D, k)) /\ Cardinality(Over(R, D, k)) \in Nat
            BY <1>8, OverIs
        <3>5. Cardinality(G) <= Cardinality(Over(R, D, k))
            BY <3>3, <3>4, FS_Subset
        <3>6. Cardinality(Over(R, D, k)) < MaxRows
            BY <1>8 DEF Top
        <3> QED BY <1>1, <2>3, <2>5, <3>4, <3>5, <3>6
    <2> QED BY <1>9, <2>1, <2>2, <2>6, <2>7
<1>13. ToldAreStored'
    <2>1. \A l \in DOMAIN told' :
            IF l \in F THEN told'[l] <= rows'[l].seen
            ELSE Cardinality({k \in F : NotEarlier(k, l)'}) >= MaxRows
        BY <1>10, <1>11, <1>12
    <2> QED BY <2>1 DEF ToldAreStored
<1>14. ByNow'
    BY <1>3, <1>4, <1>6 DEF ByNow
<1>15. RowsInPlace'
    BY <1>4 DEF RowsInPlace, InPlace
<1> QED BY <1>4, <1>7, <1>13, <1>14, <1>15 DEF StoreInv

LEMMA MergeStep ==
    ASSUME IInv, MergeDone \/ MergeFails
    PROVE  IInv'
<1> DEFINE r == Head(queue)
<1>1. queue # <<>> /\ queue' = Tail(queue) /\ UNCHANGED <<marketVars, restarts>>
    BY DEF MergeDone, MergeFails
<1>2. r \in Requests /\ queue' \in Seq(Requests)
    BY <1>1, QueueStep
<1>3. TypeOK /\ req[r].items \in Partial(Lines, Statuses)
    BY <1>2, RequestIs DEF IInv
<1>4. now' = now /\ now \in Nat
    BY <1>1, <1>3, OrdersAssumption DEF marketVars, TypeOK
<1>5. CASE MergeDone
    <2>1. /\ Ends(r, "ok") /\ rows' = Merged(req[r].items)
          /\ told' = [l \in DOMAIN told \union DOMAIN req[r].items |->
                        IF l \in DOMAIN req[r].items THEN now ELSE told[l]]
        BY <1>5 DEF MergeDone
    <2>2. /\ rows' \in Partial(Lines, Row) /\ Cardinality(DOMAIN rows') <= MaxRows
          /\ told' \in Partial(Lines, 0..MaxNow) /\ StoreInv'
        BY <1>3, <1>4, <2>1, MergeKeepsTold
    <2>3. QueueOfMerging'
        BY <1>1, <2>1, Dequeued
    <2> QED BY <1>1, <1>2, <2>1, <2>2, <2>3, EndingRequest DEF IInv
<1>6. CASE MergeFails
    <2>1. Ends(r, "failed") /\ rows' = rows /\ told' = told
        BY <1>6 DEF MergeFails
    <2>2. /\ rows' \in Partial(Lines, Row) /\ Cardinality(DOMAIN rows') <= MaxRows
          /\ told' \in Partial(Lines, 0..MaxNow)
        BY <1>3, <2>1 DEF TypeOK
    <2>3. StoreInv'
        BY <1>4, <2>1, StoreStays
    <2>4. QueueOfMerging'
        BY <1>1, <2>1, Dequeued
    <2> QED BY <1>1, <1>2, <2>1, <2>2, <2>3, <2>4, EndingRequest DEF IInv
<1> QED BY <1>5, <1>6

LEMMA RestartStep ==
    ASSUME IInv, Restart
    PROVE  IInv'
<1>1. TypeOK
    BY DEF IInv
<1>2. /\ rows' \in Partial(Lines, Row) /\ Cardinality(DOMAIN rows') <= MaxRows
      /\ told' \in Partial(Lines, 0..MaxNow) /\ StoreInv'
    <2>1. told' = told /\ now' = now /\ now \in Nat
        BY <1>1, OrdersAssumption DEF Restart, marketVars, TypeOK
    <2>2. CASE rows' = rows
        BY <1>1, <2>1, <2>2, StoreStays DEF TypeOK
    <2>3. CASE queue # <<>> /\ rows' = Merged(req[Head(queue)].items)
        <3>1. req[Head(queue)].items \in Partial(Lines, Statuses)
            BY <1>1, <2>3, QueueStep, RequestIs
        <3> QED BY <2>1, <2>3, <3>1, MergeKeepsTold
    <2> QED BY <2>2, <2>3 DEF Restart
<1>3. req' = [r \in Requests |-> IF req[r].at \in {"fetching", "merging"} THEN Ended("failed") ELSE req[r]]
    BY DEF Restart
<1>4. DOMAIN req' = Requests /\ \A r \in Requests : req'[r] \in Request /\ req'[r].at # "fetching"
    <2>1. Ended("failed") \in Request /\ Ended("failed").at = "failed"
        BY EndedIsFine
    <2>2. \A r \in Requests : req[r] \in Request
        BY <1>1 DEF TypeOK
    <2> QED BY <1>3, <2>1, <2>2
<1>5. matched' \in [Requests -> SUBSET Lines] /\ queue' = <<>>
    BY DEF Restart
<1>6. UNCHANGED marketVars /\ restarts' \in 0..MaxRestarts
    BY <1>1, OrdersAssumption DEF Restart, TypeOK
<1>7. TypeOK'
    <2>1. <<>> \in Seq(Requests)
        BY EmptySeq
    <2> QED BY <1>1, <1>2, <1>4, <1>5, <1>6, <2>1 DEF TypeOK, marketVars
<1>8. QueueOfMerging'
    BY <1>5 DEF QueueOfMerging
<1>9. PagesLeft' /\ MatchedAreCovered'
    BY <1>4 DEF PagesLeft, MatchedAreCovered
<1> QED BY <1>2, <1>7, <1>8, <1>9 DEF IInv

-----------------------------------------------------------------------------
(***************************************************************************)
(* Theorems                                                                *)
(***************************************************************************)
LEMMA InitIsFine == Init => IInv
<1> SUFFICES ASSUME Init PROVE IInv
    OBVIOUS
<1>1. Fresh \in Request /\ Fresh.at = "new"
    BY EndedIsFine DEF Fresh
<1>2. /\ rows \in Partial(Lines, Row) /\ Cardinality(DOMAIN rows) <= MaxRows
      /\ told \in Partial(Lines, 0..MaxNow) /\ DOMAIN rows = {} /\ DOMAIN told = {}
    <2>1. DOMAIN rows = {} /\ DOMAIN told = {} /\ rows \in [{} -> Row] /\ told \in [{} -> 0..MaxNow]
        BY DEF Init, Nothing
    <2>2. Cardinality(DOMAIN rows) = 0
        BY <2>1, FS_EmptySet
    <2>3. rows \in Partial(Lines, Row) /\ told \in Partial(Lines, 0..MaxNow)
        BY <2>1, InPartial
    <2> QED BY <2>1, <2>2, <2>3, OrdersAssumption
<1>3. status \in [Lines -> Statuses] /\ now \in 0..MaxNow /\ restarts \in 0..MaxRestarts
    BY LinesAre, OrdersAssumption DEF Init, Statuses
<1>4. TypeOK
    <2>1. queue \in Seq(Requests)
        BY EmptySeq DEF Init
    <2> QED BY <1>1, <1>2, <1>3, <2>1 DEF Init, TypeOK
<1>5. QueueOfMerging /\ StoreInv
    BY <1>2 DEF Init, QueueOfMerging, StoreInv, RowsInPlace, InPlace, ByNow, ToldAreStored
<1>6. PagesLeft /\ MatchedAreCovered
    BY <1>1 DEF Init, PagesLeft, MatchedAreCovered
<1> QED BY <1>4, <1>5, <1>6 DEF IInv

LEMMA StepIsFine == IInv /\ [Next]_vars => IInv'
<1> SUFFICES ASSUME IInv, [Next]_vars PROVE IInv'
    OBVIOUS
<1>1. CASE UNCHANGED vars
    <2>1. TypeOK'
        BY <1>1 DEF vars, IInv, TypeOK
    <2>2. QueueOfMerging' /\ PagesLeft'
        BY <1>1 DEF vars, IInv, QueueOfMerging, PagesLeft
    <2>3. MatchedAreCovered'
        BY <1>1 DEF vars, IInv, MatchedAreCovered, Covers, Matches, Placed
    <2>4. StoreInv'
        <3>1. now \in Nat /\ now' = now /\ rows' = rows /\ told' = told
            BY <1>1, OrdersAssumption DEF vars, IInv, TypeOK
        <3> QED BY <3>1, StoreStays
    <2> QED BY <2>1, <2>2, <2>3, <2>4 DEF IInv
<1>2. CASE Next
    BY <1>2, MarketStep, RequestStepIs, MergeStep, RestartStep DEF Next
<1> QED BY <1>1, <1>2

\* The inductive invariant: the types, one place in the queue for each request that
\* waits for its merge, a page left for each request that collects, every line that
\* matched collected or yet to come under the cursor, rows in the order of their places,
\* every line shown stored or behind as many as the store may hold
\* (marketReferenceService.ts, persistingMarketReferenceService.ts, orderSnapshotStore.ts).
THEOREM Inductive == Spec => []IInv
<1>1. Init => IInv
    BY InitIsFine
<1>2. IInv /\ [Next]_vars => IInv'
    BY StepIsFine
<1> QED BY <1>1, <1>2, PTL DEF Spec

\* Requests, cursors, collected items, the queue and the store are well formed, and the
\* store never holds more than MAX_ROWS_PER_TENANT lines.
THEOREM TypeCorrect == Spec => []TypeOK
<1>1. IInv => TypeOK
    BY DEF IInv
<1> QED BY <1>1, Inductive, PTL

\* A line that was in an answer stays in the list of stored orders, through restarts and
\* failed writes, unless as many as fit the list or the store have a time written no
\* earlier, whatever the clocks of the marketplaces (mergeOrders, prunePerTenant,
\* cachedOrders).
THEOREM ShownIsKept == Spec => []AnsweredIsKept
<1>1. IInv => AnsweredIsKept
    <2> SUFFICES ASSUME IInv, NEW l \in DOMAIN told
                 PROVE  \/ l \in CachedOrders(MarketOf[l])
                        \/ Cardinality({k \in CachedOrders(MarketOf[l]) : NotEarlier(k, l)}) >= MaxCached
                        \/ Cardinality({k \in DOMAIN rows : NotEarlier(k, l)}) >= MaxRows
        BY DEF AnsweredIsKept
    <2> DEFINE S == {k \in DOMAIN rows : MarketOf[k] = MarketOf[l]}
               F == CachedOrders(MarketOf[l])
               R == OrderOf(rows)
    <2>1. CASE l \notin DOMAIN rows
        BY <2>1 DEF IInv, StoreInv, ToldAreStored
    <2>2. CASE l \in DOMAIN rows /\ l \notin F
        <3>1. TypeOK /\ told[l] <= rows[l].seen /\ l \in S /\ MaxCached \in Nat /\ DOMAIN rows \subseteq Lines
            BY <2>2, OrdersAssumption, OfPartial DEF IInv, StoreInv, ToldAreStored, TypeOK
        <3>2. RowsAre(rows)
            BY RowsAreRows DEF IInv
        <3>3. S \subseteq DOMAIN rows /\ F = First(rows, S, MaxCached)
            BY DEF CachedOrders
        <3>4. IsFiniteSet(S) /\ Sorts(R, S) /\ F = Top(R, S, MaxCached)
            BY <3>2, <3>3, BeforeSorts
        <3> HIDE DEF F, R, S
        <3>5. (\A k \in F : <<k, l>> \in R) /\ Cardinality(F) >= MaxCached
            BY <2>2, <3>1, <3>4, TopIsAhead
        <3>6. told[l] \in Nat /\ l \in Lines /\ \A k \in DOMAIN rows : rows[k].seen \in Nat
            BY <2>2, <3>1, <3>2, OfPartial, OrdersAssumption DEF RowsAre, TypeOK
        <3>7. /\ Stamp(l, told[l]) \in Nat /\ Stamp(l, rows[l].seen) \in Nat
              /\ Stamp(l, told[l]) <= Stamp(l, rows[l].seen)
            BY <2>2, <3>1, <3>6, StampIs
        <3>8. ASSUME NEW k \in F PROVE NotEarlier(k, l)
            <4>1. k \in DOMAIN rows /\ k # l
                BY <2>2, <3>3, <3>4 DEF Top
            <4>2. Before(rows, k, l)
                BY <2>2, <3>5, <4>1 DEF R, OrderOf
            <4>3. Stamp(k, rows[k].seen) \in Nat
                BY <3>1, <3>6, <4>1, StampIs
            <4>4. Stamp(k, rows[k].seen) >= Stamp(l, rows[l].seen)
                BY <3>7, <4>2, <4>3 DEF Before
            <4> QED BY <3>7, <4>1, <4>3, <4>4 DEF NotEarlier
        <3>9. {k \in F : NotEarlier(k, l)} = F
            BY <3>8
        <3> QED BY <3>5, <3>9 DEF F
    <2> QED BY <2>1, <2>2
<1> QED BY <1>1, Inductive, PTL

\* A list that does not say there is more has every line that matched from the first page
\* to the last, whatever was ordered or moved on meanwhile (collectPages).
THEOREM NothingMissed == Spec => CompleteUnlessMore
<1> DEFINE Whole ==
        \A r \in Requests :
            req[r].at = "fetching" /\ req'[r].at \in {"merging", "ok"} /\ ~req'[r].more =>
                matched[r] \subseteq DOMAIN Collected(req[r])
<1>1. IInv /\ [Next]_vars => [Whole]_vars
    <2> SUFFICES ASSUME IInv, Next, NEW r \in Requests, req[r].at = "fetching",
                        req'[r].at \in {"merging", "ok"}, ~req'[r].more
                 PROVE  matched[r] \subseteq DOMAIN Collected(req[r])
        OBVIOUS
    <2> DEFINE x == req[r]
    <2>0. TypeOK /\ x.pages < MaxPages /\ DOMAIN req = Requests
        BY DEF IInv, PagesLeft, TypeOK
    <2>1. Ended("failed").at = "failed" /\ Ended("ok").at = "ok"
        BY EndedIsFine
    <2>2. ~(Tick \/ \E l \in Lines : Advance(l))
        BY DEF Tick, Advance
    <2>3. ~Restart
        BY <2>1 DEF Restart
    <2>4. ~MergeDone /\ ~MergeFails
        <3>1. queue # <<>> => Head(queue) \in Requests /\ Head(queue) # r
            BY QueueStep
        <3> QED BY <2>0, <3>1 DEF MergeDone, MergeFails, Ends
    <2>5. PICK q \in Requests : RequestStep(q)
        BY <2>2, <2>3, <2>4 DEF Next
    <2>6. q = r
        BY <2>0, <2>5 DEF RequestStep, Start, PageArrives, Complete, PageFails, Ends
    <2>7. PICK next \in Cursors : PageArrives(r, next)
        BY <2>0, <2>1, <2>5, <2>6 DEF RequestStep, Start, PageFails, Ends
    <2>8. ~Repeats(x, next)
        BY <2>0, <2>1, <2>7 DEF PageArrives, Ends
    <2>9. PICK g : g = Got(x, next)
        OBVIOUS
    <2>10. g \in Request /\ g.at = "fetching" /\ g.more = (next # NoCursor)
        <3>1. \A f \in {"at", "kind", "market", "filter", "from"} : g[f] = x[f]
            BY <2>0, <2>9, GotIs
        <3>2. g.at = "fetching"
            BY <3>1
        <3> QED BY <2>0, <2>9, <3>2, GotIs
    <2>11. Complete(r, g)
        <3>1. ~Continues(x, next)
            <4>1. SUFFICES ASSUME Continues(x, next) PROVE FALSE
                OBVIOUS
            <4>2. req' = [req EXCEPT ![r] = g]
                BY <2>7, <2>8, <2>9, <4>1 DEF PageArrives
            <4> QED BY <2>0, <2>10, <4>2
        <3> QED BY <2>7, <2>8, <2>9, <3>1 DEF PageArrives
    <2>12. req'[r].more = g.more
        <3>1. Merges(g) => [g EXCEPT !.at = "merging", !.seen = {}].more = g.more
            BY <2>10 DEF Request
        <3>2. [Ended("ok") EXCEPT !.more = g.more].more = g.more
            BY DEF Ended, Fresh
        <3> QED BY <2>0, <2>11, <3>1, <3>2 DEF Complete
    <2>13. next = NoCursor
        BY <2>10, <2>12
    <2>14. After(x) = Page(x)
        <3>1. next \notin x.seen /\ next \notin Astray
            BY <2>0, <2>13, RequestIs, CursorsAre
        <3>2. next = NextCursor(x)
            BY <2>7, <3>1 DEF PageArrives, Given
        <3> QED BY <2>0, <2>13, <3>2, CursorIsLast
    <2>15. matched[r] \subseteq DOMAIN x.items \union After(x)
        BY DEF IInv, MatchedAreCovered, Covers, After, Asked
    <2> QED BY <2>0, <2>14, <2>15, CollectedIs
<1>2. [][Whole]_vars => CompleteUnlessMore
    BY PTL DEF CompleteUnlessMore
<1> QED BY <1>1, <1>2, Inductive, PTL DEF Spec

=============================================================================
