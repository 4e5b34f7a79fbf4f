---------------------------- MODULE AccessProofs ----------------------------
(***************************************************************************)
(* Safety of what stands between a caller and the hub: of the accounts and *)
(* their sessions (Accounts), proved for any number of requests, accounts  *)
(* and tokens and every limit of sessions, and of the abuse guard          *)
(* (AuthGuard), for any number of logins, keys and requests, every limit   *)
(* and every window.                                                       *)
(***************************************************************************)
EXTENDS Accounts, AuthGuard, TLAPS, FiniteSetTheorems, WellFoundedInduction

-----------------------------------------------------------------------------
(***************************************************************************)
(* The inductive invariant.  What holds of the data holds of a draft, too, *)
(* with what the draft will have issued: a publication, or a restart, only *)
(* puts the draft in the place of the data.                                *)
(***************************************************************************)
\* Only the head of the queue drafts.
OneWriter == \A c \in Calls : call[c].at = "writing" => queue # <<>> /\ Head(queue) = c

\* What a request in progress x needs to name
Complete(x) ==
    x.at # "idle" =>
        /\ x.op \in {"login", "signup", "approve", "reject"} => x.user \in Users
        /\ x.op = "logout" => x.token \in leaving
        /\ x.at = "writing" => x.draft \in Data
RequestsComplete == \A c \in Calls : Complete(call[c])

TokensOf(ss) == {s.token : s \in ss}
Given == given \subseteq TokensOf(issued) /\ leaving \subseteq given

\* Each login has a number of its own, in the order of the logins.
Numbered(ss) ==
    /\ IsFiniteSet(ss)
    /\ \A s \in ss : s.number <= Cardinality(ss)
    /\ \A s, x \in ss : s.number = x.number => s = x

\* The account of a session that was issued stays active.
Standing(d, ss) == d.sessions \subseteq ss /\ \A s \in ss : d.status[s.user] = "active"

\* The sessions that must be there, of those issued
Kept(d, ss, wanted, time) ==
    \A s \in ss :
        /\ s.token \in wanted
        /\ s.created + Ttl > time
        /\ Cardinality(LaterThan(ss, s)) < MaxSessions
        => s \in d.sessions

\* Those that must not, and as many as there may be
Ended(d, tokens) == \A s \in d.sessions : s.token \notin tokens
Few(d) == \A u \in Users : Cardinality(SessionsOf(d.sessions, u)) <= MaxSessions

\* A decision that was answered is not open any more.
Closed(d, u) == d.status[u] \in {"active", "rejected"}
Settled(d, decisions) == \A u \in Users : decisions[u] = 1 => Closed(d, u)

Fine(d, ss, wanted, tokens, decisions, time) ==
    /\ Numbered(ss)
    /\ Standing(d, ss)
    /\ Kept(d, ss, wanted, time)
    /\ Ended(d, tokens)
    /\ Few(d)
    /\ Settled(d, decisions)

DataFine == Fine(data, issued, given \ leaving, left, decided, clock)

\* What a draft x.draft adds to what was issued
Drafted(x, ss, decisions) ==
    /\ x.op = "login" =>
        /\ x.token \notin TokensOf(ss)
        /\ x.token \in TokensOf(x.draft.sessions)
    /\ x.op = "logout" => Ended(x.draft, {x.token})
    /\ x.op \in {"approve", "reject"} => decisions[x.user] = 0 /\ Closed(x.draft, x.user)

DraftsFine ==
    \A c \in Calls : call[c].at = "writing" =>
        /\ Fine(call[c].draft, issued \union call[c].draft.sessions, given \ leaving, left, decided, clock)
        /\ Drafted(call[c], issued, decided)

IInv ==
    /\ TypeOK
    /\ OneWriter
    /\ RequestsComplete
    /\ Given
    /\ DataFine
    /\ DraftsFine

-----------------------------------------------------------------------------
(***************************************************************************)
(* Sessions                                                                *)
(***************************************************************************)
\* A set of sessions has an oldest one.
LEMMA Oldest ==
    ASSUME NEW ss \in SUBSET Session, ss # {}
    PROVE  \E l \in ss : \A s \in ss : l.number <= s.number
<1> DEFINE Below == {p \in Nat \X Nat : p[1] < p[2]}
           Numbers == {s.number : s \in ss}
<1>1. Numbers \subseteq Nat /\ Numbers # {}
    BY DEF Session
<1>2. IsWellFoundedOn(Below, Nat)
    BY NatLessThanWellFounded DEF OpToRel
<1>3. PICK n \in Numbers : \A k \in Numbers : ~(<<k, n>> \in Below)
    <2> HIDE DEF Below, Numbers
    <2> QED BY <1>1, <1>2, WFMin
<1>4. \A k \in Numbers : n <= k
    <2> SUFFICES ASSUME NEW k \in Numbers PROVE n <= k
        OBVIOUS
    <2>1. k \in Nat /\ n \in Nat
        BY <1>1
    <2>2. ~(k < n)
        <3> HIDE DEF Numbers
        <3> QED BY <1>3, <2>1
    <2> QED BY <2>1, <2>2
<1> QED BY <1>3, <1>4

\* Counting later sessions counts among those that were issued.
LEMMA FewerLater ==
    ASSUME NEW tt, NEW ss \in SUBSET tt, IsFiniteSet(tt), NEW s
    PROVE  /\ LaterThan(ss, s) \subseteq LaterThan(tt, s)
           /\ IsFiniteSet(LaterThan(ss, s)) /\ Cardinality(LaterThan(ss, s)) \in Nat
           /\ Cardinality(LaterThan(ss, s)) <= Cardinality(LaterThan(tt, s))
<1>1. LaterThan(ss, s) \subseteq LaterThan(tt, s) /\ LaterThan(tt, s) \subseteq tt
    BY DEF LaterThan, SessionsOf
<1>2. IsFiniteSet(LaterThan(tt, s))
    BY <1>1, FS_Subset
<1> QED BY <1>1, <1>2, FS_Subset, FS_CardinalityType

\* enforceSessionLimit leaves room for one more.
LEMMA LimitedAreFew ==
    ASSUME NEW ss \in SUBSET Session, Numbered(ss), NEW tt \in SUBSET ss, NEW u \in Users
    PROVE  /\ IsFiniteSet(SessionsOf(Limited(tt, u), u))
           /\ Cardinality(SessionsOf(Limited(tt, u), u)) <= MaxSessions - 1
<1> DEFINE K == SessionsOf(Limited(tt, u), u)
<1>0. IsFiniteSet(ss) /\ MaxSessions \in Nat \ {0}
    BY AccountsAssumption DEF Numbered
<1>1. K \subseteq tt /\ K \subseteq ss /\ IsFiniteSet(tt) /\ tt \subseteq Session
    BY <1>0, FS_Subset DEF SessionsOf, Limited
<1>2. IsFiniteSet(K) /\ Cardinality(K) \in Nat
    BY <1>0, <1>1, FS_Subset, FS_CardinalityType
<1>3. CASE K = {}
    <2>1. Cardinality(K) = 0
        BY <1>3, FS_EmptySet
    <2> QED BY <1>0, <1>2, <2>1
<1>4. CASE K # {}
    <2>1. PICK l \in K : \A s \in K : l.number <= s.number
        BY <1>1, <1>4, Oldest
    <2>2. K \ {l} \subseteq LaterThan(tt, l)
        <3> SUFFICES ASSUME NEW s \in K, s # l PROVE s \in LaterThan(tt, l)
            OBVIOUS
        <3>1. s.number # l.number /\ s.number \in Nat /\ l.number \in Nat
            BY <1>1 DEF Numbered, Session
        <3>2. s.user = u /\ l.user = u /\ s \in tt
            BY DEF SessionsOf, Limited
        <3> QED BY <2>1, <3>1, <3>2 DEF LaterThan, SessionsOf
    <2>3. Cardinality(LaterThan(tt, l)) < MaxSessions - 1
        BY DEF SessionsOf, Limited
    <2>4. IsFiniteSet(LaterThan(tt, l)) /\ Cardinality(LaterThan(tt, l)) \in Nat
        BY <1>1, FewerLater
    <2>5. Cardinality(K \ {l}) <= Cardinality(LaterThan(tt, l))
        BY <2>2, <2>4, FS_Subset
    <2>6. Cardinality(K \ {l}) = Cardinality(K) - 1
        BY <1>2, FS_RemoveElement
    <2>7. Cardinality(K) <= MaxSessions - 1
        <3> HIDE DEF K
        <3> QED BY <1>0, <1>2, <2>3, <2>4, <2>5, <2>6
    <2> QED BY <1>2, <2>7
<1> QED BY <1>2, <1>3, <1>4

\* One more counts one more at most.
LEMMA OneMore ==
    ASSUME NEW S, IsFiniteSet(S), NEW x, NEW T, T = S \union {x}
    PROVE  /\ Cardinality(S) \in Nat /\ Cardinality(T) \in Nat
           /\ Cardinality(T) <= Cardinality(S) + 1
           /\ x \notin S => Cardinality(T) = Cardinality(S) + 1
<1>1. Cardinality(S) \in Nat
    BY FS_CardinalityType
<1>2. Cardinality(T) = IF x \in S THEN Cardinality(S) ELSE Cardinality(S) + 1
    BY FS_AddElement
<1> QED BY <1>1, <1>2

\* A new session takes the next number.
LEMMA NextNumber ==
    ASSUME NEW ss \in SUBSET Session, Numbered(ss),
           NEW n \in Session, n.number = Cardinality(ss) + 1
    PROVE  Numbered(ss \union {n}) /\ n \notin ss
<1>1. Cardinality(ss) \in Nat /\ IsFiniteSet(ss)
    BY FS_CardinalityType DEF Numbered
<1>2. \A s \in ss : s.number <= Cardinality(ss) /\ s.number \in Nat
    BY DEF Numbered, Session
<1>3. n \notin ss /\ \A s \in ss : s.number # n.number
    BY <1>1, <1>2
<1>4. IsFiniteSet(ss \union {n}) /\ Cardinality(ss \union {n}) = Cardinality(ss) + 1
    BY <1>1, <1>3, FS_AddElement
<1>5. \A s \in ss \union {n} : s.number <= Cardinality(ss \union {n})
    BY <1>1, <1>2, <1>4
<1>6. \A s, x \in ss \union {n} : s.number = x.number => s = x
    BY <1>3 DEF Numbered
<1> QED BY <1>3, <1>4, <1>5, <1>6 DEF Numbered

\* A decision, a logout or a sign-up issues nothing.
LEMMA FewRemain ==
    ASSUME NEW ss, IsFiniteSet(ss), NEW tt \in SUBSET ss, NEW u \in Users
    PROVE  /\ IsFiniteSet(SessionsOf(tt, u)) /\ Cardinality(SessionsOf(tt, u)) \in Nat
           /\ Cardinality(SessionsOf(tt, u)) <= Cardinality(SessionsOf(ss, u))
           /\ Cardinality(SessionsOf(ss, u)) \in Nat
<1>1. SessionsOf(tt, u) \subseteq SessionsOf(ss, u) /\ SessionsOf(ss, u) \subseteq ss
    BY DEF SessionsOf
<1>2. IsFiniteSet(SessionsOf(ss, u))
    BY <1>1, FS_Subset
<1> QED BY <1>1, <1>2, FS_Subset, FS_CardinalityType

-----------------------------------------------------------------------------
(***************************************************************************)
(* Drafts                                                                  *)
(***************************************************************************)
\* A mutation that issues nothing
LEMMA NothingIssued ==
    ASSUME TypeOK, DataFine, NEW d \in Data,
           d.sessions \subseteq data.sessions,
           \A s \in issued : d.status[s.user] = "active",
           \A u \in Users : Closed(data, u) => Closed(d, u),
           \A s \in data.sessions : s \in d.sessions \/ s.token \notin given \ leaving
    PROVE  Fine(d, issued \union d.sessions, given \ leaving, left, decided, clock)
<1> DEFINE wanted == given \ leaving
<1>0. Fine(data, issued, wanted, left, decided, clock)
    BY DEF DataFine
<1>1. data.sessions \subseteq issued /\ issued \union d.sessions = issued
    BY <1>0 DEF Fine, Standing
<1>2. Numbered(issued)
    BY <1>0 DEF Fine
<1>3. Standing(d, issued)
    BY <1>1 DEF Standing
<1>4. Kept(d, issued, wanted, clock)
    BY <1>0 DEF Fine, Kept
<1>5. Ended(d, left)
    BY <1>0 DEF Fine, Ended
<1>6. Few(d)
    <2> SUFFICES ASSUME NEW u \in Users PROVE Cardinality(SessionsOf(d.sessions, u)) <= MaxSessions
        BY DEF Few
    <2>1. IsFiniteSet(data.sessions)
        BY <1>1, <1>2, FS_Subset DEF Numbered
    <2>2. Cardinality(SessionsOf(data.sessions, u)) <= MaxSessions
        BY <1>0 DEF Fine, Few
    <2>3. MaxSessions \in Nat
        BY AccountsAssumption
    <2> QED BY <2>1, <2>2, <2>3, FewRemain
<1>7. Settled(d, decided)
    BY <1>0 DEF Fine, Settled
<1> QED BY <1>1, <1>2, <1>3, <1>4, <1>5, <1>6, <1>7 DEF Fine

\* A login makes room for a session with the next number.
LEMMA LoginIssues ==
    ASSUME TypeOK, Given, DataFine, NEW u \in Users, data.status[u] = "active",
           NEW t \in Tokens, t \notin TokensOf(issued),
           NEW n, n = [number |-> Cardinality(issued) + 1, token |-> t, user |-> u, created |-> clock],
           NEW d \in Data, d.status = data.status,
           d.sessions = Limited(Unexpired(data.sessions), u) \union {n}
    PROVE  Fine(d, issued \union d.sessions, given \ leaving, left, decided, clock)
<1> DEFINE wanted == given \ leaving
           room == Limited(Unexpired(data.sessions), u)
           after == issued \union {n}
<1>0. Fine(data, issued, wanted, left, decided, clock)
    BY DEF DataFine
<1>a. MaxSessions \in Nat \ {0} /\ clock \in Nat /\ Ttl \in Nat
    BY AccountsAssumption DEF TypeOK, Time
<1>b. /\ issued \in SUBSET Session /\ Numbered(issued) /\ IsFiniteSet(issued)
      /\ Cardinality(issued) \in Nat
    <2>1. issued \in SUBSET Session /\ Numbered(issued)
        BY <1>0 DEF Fine, TypeOK
    <2> QED BY <2>1, FS_CardinalityType DEF Numbered
<1>c. n \in Session /\ n.number = Cardinality(issued) + 1 /\ n.user = u /\ n.token = t
    BY <1>b DEF Session, TypeOK
<1>1. data.sessions \subseteq issued /\ room \subseteq data.sessions
    BY <1>0 DEF Fine, Standing, Limited, Unexpired
<1>2. issued \union d.sessions = after /\ Numbered(after) /\ n \notin issued
    BY <1>1, <1>b, <1>c, NextNumber
<1>3. Standing(d, after)
    BY <1>0, <1>1, <1>c DEF Fine, Standing
<1>4. Kept(d, after, wanted, clock)
    <2> SUFFICES ASSUME NEW s \in issued, s.token \in wanted, s.created + Ttl > clock,
                        Cardinality(LaterThan(after, s)) < MaxSessions
                 PROVE  s \in d.sessions
        BY DEF Kept
    <2>1. /\ Cardinality(LaterThan(issued, s)) <= Cardinality(LaterThan(after, s))
          /\ Cardinality(LaterThan(issued, s)) \in Nat
          /\ Cardinality(LaterThan(after, s)) \in Nat
          /\ IsFiniteSet(LaterThan(issued, s))
        BY <1>2, FewerLater DEF Numbered
    <2>2. s \in Unexpired(data.sessions)
        <3>1. Cardinality(LaterThan(issued, s)) < MaxSessions
            BY <1>a, <2>1
        <3> QED BY <1>0, <3>1 DEF Fine, Kept, Unexpired
    <2>3. CASE s.user # u
        BY <2>2, <2>3 DEF Limited
    <2>4. CASE s.user = u
        <3>1. s.number \in Nat /\ s.number <= Cardinality(issued)
            BY <1>b DEF Numbered, Session
        <3>2. LaterThan(after, s) = LaterThan(issued, s) \union {n}
            BY <1>b, <1>c, <2>4, <3>1 DEF LaterThan, SessionsOf
        <3>3. n \notin LaterThan(issued, s)
            BY <1>2 DEF LaterThan, SessionsOf
        <3>4. Cardinality(LaterThan(after, s)) = Cardinality(LaterThan(issued, s)) + 1
            BY <2>1, <3>2, <3>3, OneMore
        <3>5. Unexpired(data.sessions) \subseteq issued
            BY <1>1 DEF Unexpired
        <3>6. /\ Cardinality(LaterThan(Unexpired(data.sessions), s)) <= Cardinality(LaterThan(issued, s))
              /\ Cardinality(LaterThan(Unexpired(data.sessions), s)) \in Nat
            BY <1>b, <3>5, FewerLater
        <3>7. Cardinality(LaterThan(Unexpired(data.sessions), s)) < MaxSessions - 1
            BY <1>a, <2>1, <3>4, <3>6
        <3> QED BY <2>2, <3>7 DEF Limited
    <2> QED BY <2>3, <2>4
<1>5. Ended(d, left)
    <2>1. t \notin left
        BY DEF Given, TypeOK
    <2>2. \A s \in room : s.token \notin left
        BY <1>0, <1>1 DEF Fine, Ended
    <2> QED BY <1>c, <2>1, <2>2 DEF Ended
<1>6. Few(d)
    <2> SUFFICES ASSUME NEW v \in Users PROVE Cardinality(SessionsOf(d.sessions, v)) <= MaxSessions
        BY DEF Few
    <2>1. CASE v = u
        <3>1. Unexpired(data.sessions) \in SUBSET issued
            BY <1>1 DEF Unexpired
        <3>2. IsFiniteSet(SessionsOf(room, u)) /\ Cardinality(SessionsOf(room, u)) <= MaxSessions - 1
            BY <1>b, <3>1, LimitedAreFew
        <3>3. SessionsOf(d.sessions, u) = SessionsOf(room, u) \union {n}
            BY <1>c DEF SessionsOf
        <3>4. /\ Cardinality(SessionsOf(room, u)) \in Nat
              /\ Cardinality(SessionsOf(d.sessions, u)) \in Nat
              /\ Cardinality(SessionsOf(d.sessions, u)) <= Cardinality(SessionsOf(room, u)) + 1
            <4> HIDE DEF room
            <4> QED BY <3>2, <3>3, OneMore
        <3>5. Cardinality(SessionsOf(d.sessions, u)) <= MaxSessions
            <4> HIDE DEF room
            <4> QED BY <1>a, <3>2, <3>4
        <3> QED BY <2>1, <3>5
    <2>2. CASE v # u
        <3>1. SessionsOf(d.sessions, v) \subseteq SessionsOf(data.sessions, v)
            BY <1>1, <1>c, <2>2 DEF SessionsOf
        <3>2. IsFiniteSet(data.sessions)
            BY <1>1, <1>b, FS_Subset
        <3>3. SessionsOf(data.sessions, v) \subseteq data.sessions
            BY DEF SessionsOf
        <3>4. IsFiniteSet(SessionsOf(data.sessions, v))
            BY <3>2, <3>3, FS_Subset
        <3>5. /\ Cardinality(SessionsOf(data.sessions, v)) \in Nat
              /\ Cardinality(SessionsOf(d.sessions, v)) \in Nat
              /\ Cardinality(SessionsOf(d.sessions, v)) <= Cardinality(SessionsOf(data.sessions, v))
            BY <3>1, <3>4, FS_Subset, FS_CardinalityType
        <3>6. Cardinality(SessionsOf(data.sessions, v)) <= MaxSessions
            BY <1>0 DEF Fine, Few
        <3> QED BY <1>a, <3>5, <3>6
    <2> QED BY <2>1, <2>2
<1>7. Settled(d, decided)
    BY <1>0 DEF Fine, Settled, Closed
<1> QED BY <1>2, <1>3, <1>4, <1>5, <1>6, <1>7 DEF Fine

\* What a mutation makes of the data, when its turn has come
LEMMA DraftIsFine ==
    ASSUME IInv, NEW c \in Calls, Turn(c), Accepts(call[c], data),
           NEW t \in Fresh(call[c]),
           NEW d, d = Result(call[c], data, t)
    PROVE  /\ d \in Data
           /\ t \in Tokens \union {None}
           /\ Fine(d, issued \union d.sessions, given \ leaving, left, decided, clock)
           /\ call[c].op = "login" =>
                t \in Tokens /\ t \notin TokensOf(issued) /\ t \in TokensOf(d.sessions)
           /\ call[c].op # "login" => t = call[c].token
           /\ call[c].op = "logout" => Ended(d, {t})
           /\ call[c].op \in {"approve", "reject"} => decided[call[c].user] = 0 /\ Closed(d, call[c].user)
<1> DEFINE x == call[c]
           wanted == given \ leaving
<1>0. /\ TypeOK /\ Given /\ DataFine
      /\ data \in Data /\ x \in Call /\ Complete(x) /\ x.at = "queued"
    <2>1. x \in Call \union {Idle} /\ x.at = "queued"
        BY DEF IInv, TypeOK, Turn
    <2>2. x # Idle
        BY <2>1 DEF Idle
    <2> QED BY <2>1, <2>2 DEF IInv, TypeOK, RequestsComplete
<1>1. /\ \A s \in issued : data.status[s.user] = "active"
      /\ data.sessions \subseteq issued /\ issued \subseteq Session
      /\ data.sessions \subseteq Session
      /\ data.status \in [Users -> {"none", "pending", "active", "rejected"}]
      /\ Numbered(issued)
      /\ Settled(data, decided)
      /\ decided \in [Users -> 0..1]
    BY <1>0 DEF DataFine, Fine, Standing, TypeOK, Data
<1>2. x.op \in {"login", "signup", "approve", "reject", "logout"} /\ x.token \in Tokens \union {None}
    BY <1>0 DEF Call
<1>3. CASE x.op = "login"
    <2> DEFINE n == [number |-> Cardinality(issued) + 1, token |-> t, user |-> x.user, created |-> clock]
    <2>1. x.user \in Users /\ data.status[x.user] = "active"
        BY <1>0, <1>3 DEF Complete, Accepts
    <2>2. t \in Tokens /\ t \notin TokensOf(issued)
        BY <1>3 DEF Fresh, TokensOf
    <2>3. d = [data EXCEPT !.sessions = Limited(Unexpired(data.sessions), x.user) \union {n}]
        BY <1>3 DEF Result
    <2>4. n \in Session
        <3>1. Cardinality(issued) \in Nat
            BY <1>1, FS_CardinalityType DEF Numbered
        <3> QED BY <1>0, <2>1, <2>2, <3>1 DEF Session, TypeOK
    <2>5. Limited(Unexpired(data.sessions), x.user) \subseteq Session
        BY <1>1 DEF Limited, Unexpired
    <2>6. /\ d \in Data /\ d.status = data.status
          /\ d.sessions = Limited(Unexpired(data.sessions), x.user) \union {n}
        BY <1>0, <2>3, <2>4, <2>5 DEF Data
    <2>7. Fine(d, issued \union d.sessions, wanted, left, decided, clock)
        BY <1>0, <2>1, <2>2, <2>6, LoginIssues
    <2>8. t \in TokensOf(d.sessions)
        <3>1. n \in d.sessions /\ n.token = t
            BY <2>6
        <3> HIDE DEF n
        <3> QED BY <3>1 DEF TokensOf
    <2> QED BY <1>3, <2>2, <2>6, <2>7, <2>8
<1>4. CASE x.op # "login"
    <2>1. t = x.token
        BY <1>4 DEF Fresh
    <2>2. CASE x.op = "signup"
        <3>1. x.user \in Users /\ data.status[x.user] = "none"
            BY <1>0, <2>2 DEF Complete, Accepts
        <3>2. d = [data EXCEPT !.status[x.user] = "pending"]
            BY <2>2 DEF Result
        <3>3. d \in Data /\ d.sessions = data.sessions
            BY <1>0, <3>2 DEF Data
        <3>4. \A u \in Users : d.status[u] = IF u = x.user THEN "pending" ELSE data.status[u]
            BY <1>0, <1>1, <3>2 DEF Data
        <3>5. \A s \in issued : s.user \in Users
            BY <1>1 DEF Session
        <3>6. \A s \in issued : d.status[s.user] = "active"
            BY <1>1, <3>1, <3>4, <3>5
        <3>7. \A u \in Users : Closed(data, u) => Closed(d, u)
            BY <3>1, <3>4 DEF Closed
        <3>8. Fine(d, issued \union d.sessions, wanted, left, decided, clock)
            BY <1>0, <3>3, <3>6, <3>7, NothingIssued
        <3> QED BY <1>2, <2>1, <2>2, <3>3, <3>8
    <2>3. CASE x.op = "approve"
        <3>1. x.user \in Users /\ data.status[x.user] = "pending"
            BY <1>0, <2>3 DEF Complete, Accepts
        <3>2. d = [data EXCEPT !.status[x.user] = "active"]
            BY <2>3 DEF Result
        <3>3. d \in Data /\ d.sessions = data.sessions
            BY <1>0, <3>2 DEF Data
        <3>4. \A u \in Users : d.status[u] = IF u = x.user THEN "active" ELSE data.status[u]
            BY <1>0, <1>1, <3>2 DEF Data
        <3>5. \A s \in issued : s.user \in Users
            BY <1>1 DEF Session
        <3>6. \A s \in issued : d.status[s.user] = "active"
            BY <1>1, <3>4, <3>5
        <3>7. (\A u \in Users : Closed(data, u) => Closed(d, u)) /\ Closed(d, x.user) /\ ~Closed(data, x.user)
            BY <3>1, <3>4 DEF Closed
        <3>8. Fine(d, issued \union d.sessions, wanted, left, decided, clock)
            BY <1>0, <3>3, <3>6, <3>7, NothingIssued
        <3>9. decided[x.user] = 0
            BY <1>1, <3>1, <3>7 DEF Settled
        <3> QED BY <1>2, <2>1, <2>3, <3>3, <3>7, <3>8, <3>9
    <2>4. CASE x.op = "reject"
        <3>1. x.user \in Users /\ data.status[x.user] = "pending"
            BY <1>0, <2>4 DEF Complete, Accepts
        <3>2. d = [data EXCEPT !.status[x.user] = "rejected",
                              !.sessions = data.sessions \ SessionsOf(data.sessions, x.user)]
            BY <1>0, <2>4 DEF Result, Data
        <3>a. /\ d.status = [data.status EXCEPT ![x.user] = "rejected"]
              /\ d.sessions = data.sessions \ SessionsOf(data.sessions, x.user)
              /\ d = [status |-> d.status, sessions |-> d.sessions]
            BY <1>0, <3>2 DEF Data
        <3>3. d \in Data /\ d.sessions = data.sessions \ SessionsOf(data.sessions, x.user)
            <4>1. d.status \in [Users -> {"none", "pending", "active", "rejected"}]
                BY <1>1, <3>a
            <4> QED BY <1>1, <3>a, <4>1 DEF Data
        <3>4. \A u \in Users : d.status[u] = IF u = x.user THEN "rejected" ELSE data.status[u]
            BY <1>1, <3>a
        <3>5. \A s \in issued : s.user \in Users /\ s.user # x.user
            BY <1>1, <3>1 DEF Session
        <3>6. \A s \in issued : d.status[s.user] = "active"
            BY <1>1, <3>4, <3>5
        <3>7. (\A u \in Users : Closed(data, u) => Closed(d, u)) /\ Closed(d, x.user) /\ ~Closed(data, x.user)
            BY <3>1, <3>4 DEF Closed
        <3>8. d.sessions = data.sessions
            BY <1>1, <3>3, <3>5 DEF SessionsOf
        <3>9. Fine(d, issued \union d.sessions, wanted, left, decided, clock)
            BY <1>0, <3>3, <3>6, <3>7, <3>8, NothingIssued
        <3>10. decided[x.user] = 0
            BY <1>1, <3>1, <3>7 DEF Settled
        <3> QED BY <1>2, <2>1, <2>4, <3>3, <3>7, <3>9, <3>10
    <2>5. CASE x.op = "logout"
        <3>1. x.token \in leaving
            BY <1>0, <2>5 DEF Complete
        <3>2. d = [data EXCEPT !.sessions = WithoutToken(data.sessions, x.token)]
            BY <2>5 DEF Result
        <3>3. WithoutToken(data.sessions, x.token) = {s \in data.sessions : s.token # x.token}
            BY DEF WithoutToken
        <3>4. /\ d \in Data /\ d.status = data.status
              /\ d.sessions = {s \in data.sessions : s.token # x.token}
            BY <1>0, <1>1, <3>2, <3>3 DEF Data
        <3>5. \A s \in data.sessions : s \in d.sessions \/ s.token \notin wanted
            BY <3>1, <3>4
        <3>6. \A u \in Users : Closed(data, u) => Closed(d, u)
            BY <3>4 DEF Closed
        <3>7. Fine(d, issued \union d.sessions, wanted, left, decided, clock)
            BY <1>0, <1>1, <3>4, <3>5, <3>6, NothingIssued
        <3>8. Ended(d, {t})
            BY <2>1, <3>4 DEF Ended
        <3> QED BY <1>2, <2>1, <2>5, <3>4, <3>7, <3>8
    <2> QED BY <1>2, <1>4, <2>2, <2>3, <2>4, <2>5
<1> QED BY <1>3, <1>4

-----------------------------------------------------------------------------
(***************************************************************************)
(* The steps                                                               *)
(***************************************************************************)
\* More leave, and time goes by: less must be kept.
LEMMA LessToKeep ==
    ASSUME NEW d, NEW ss \in SUBSET Session, NEW w, NEW w2 \in SUBSET w, NEW tokens, NEW decisions,
           NEW time \in Nat, NEW time2 \in Nat, time2 >= time,
           Fine(d, ss, w, tokens, decisions, time)
    PROVE  Fine(d, ss, w2, tokens, decisions, time2)
<1>1. \A s \in ss : s.created + Ttl > time2 => s.created + Ttl > time
    BY AccountsAssumption DEF Session, Time
<1>2. Kept(d, ss, w2, time2)
    BY <1>1 DEF Fine, Kept
<1> QED BY <1>2 DEF Fine

\* Nothing is drafted nor published.
LEMMA Undisturbed ==
    ASSUME IInv, UNCHANGED <<data, issued, given, left, decided>>,
           leaving \subseteq leaving', clock' \in Time, clock' >= clock,
           \A c \in Calls : call'[c].at = "writing" => call'[c] = call[c]
    PROVE  DataFine' /\ DraftsFine'
<1> DEFINE wanted == given \ leaving
           wanted2 == given \ leaving'
<1>1. wanted2 \subseteq wanted /\ clock \in Nat /\ clock' \in Nat
    BY AccountsAssumption DEF IInv, TypeOK, Time
<1>2. issued \in SUBSET Session
    BY DEF IInv, TypeOK
<1>3. Fine(data, issued, wanted2, left, decided, clock')
    BY <1>1, <1>2, LessToKeep DEF IInv, DataFine
<1>4. DataFine'
    BY <1>3 DEF DataFine
<1>5. ASSUME NEW c \in Calls, call'[c].at = "writing"
      PROVE  /\ Fine(call'[c].draft, issued \union call'[c].draft.sessions, wanted2, left, decided, clock')
             /\ Drafted(call'[c], issued, decided)
    <2>1. call'[c] = call[c]
        BY <1>5
    <2>2. /\ Fine(call[c].draft, issued \union call[c].draft.sessions, wanted, left, decided, clock)
          /\ Drafted(call[c], issued, decided)
        BY <1>5, <2>1 DEF IInv, DraftsFine
    <2>3. call[c].draft.sessions \in SUBSET Session
        BY <1>5, <2>1 DEF IInv, RequestsComplete, Complete, Data
    <2>4. Fine(call[c].draft, issued \union call[c].draft.sessions, wanted2, left, decided, clock')
        BY <1>1, <1>2, <2>2, <2>3, LessToKeep
    <2> QED BY <2>1, <2>2, <2>4
<1>6. DraftsFine'
    BY <1>5 DEF DraftsFine
<1> QED BY <1>4, <1>6

LEMMA EnqueueStep ==
    ASSUME IInv, NEW c \in Calls, NEW op \in {"login", "signup", "approve", "reject", "logout"},
           NEW u \in Users \union {None}, NEW t \in Tokens \union {None},
           op # "logout" => u \in Users,
           Enqueue(c, op, u, t),
           UNCHANGED <<clock, data, issued, given, left, decided>>,
           leaving' = leaving \/ (t \in given /\ leaving' = leaving \union {t}),
           op = "logout" => t \in leaving'
    PROVE  IInv'
<1> DEFINE x == [at |-> "queued", op |-> op, user |-> u, token |-> t, draft |-> None]
<1>1. call' = [call EXCEPT ![c] = x] /\ queue' = Append(queue, c) /\ x \in Call
    BY DEF Enqueue, Call
<1>2. TypeOK
    BY DEF IInv
<1>3. \A e \in Calls : call'[e] = IF e = c THEN x ELSE call[e]
    BY <1>1, <1>2 DEF TypeOK
<1>4. leaving \subseteq leaving' /\ leaving' \subseteq given
    BY DEF IInv, Given
<1>5. TypeOK'
    <2>1. call' \in [Calls -> Call \union {Idle}] /\ queue' \in Seq(Calls)
        BY <1>1, <1>2 DEF TypeOK
    <2> QED BY <1>2, <1>4, <2>1 DEF TypeOK
<1>6. OneWriter'
    <2> SUFFICES ASSUME NEW e \in Calls, call'[e].at = "writing"
                 PROVE  queue' # <<>> /\ Head(queue') = e
        BY DEF OneWriter
    <2>1. e # c /\ call'[e] = call[e]
        BY <1>3
    <2>2. queue # <<>> /\ Head(queue) = e
        BY <2>1 DEF IInv, OneWriter
    <2> QED BY <1>1, <1>2, <2>2 DEF TypeOK
<1>7. RequestsComplete'
    <2> SUFFICES ASSUME NEW e \in Calls PROVE Complete(call[e])'
        BY DEF RequestsComplete
    <2>1. CASE e = c
        BY <1>3, <2>1 DEF Complete
    <2>2. CASE e # c
        <3>1. Complete(call[e])
            BY DEF IInv, RequestsComplete
        <3> QED BY <1>3, <1>4, <2>2, <3>1 DEF Complete
    <2> QED BY <2>1, <2>2
<1>8. Given'
    BY <1>4 DEF IInv, Given
<1>9. DataFine' /\ DraftsFine'
    <2>1. \A e \in Calls : call'[e].at = "writing" => call'[e] = call[e]
        BY <1>3
    <2>2. clock' \in Time /\ clock' >= clock
        BY <1>2 DEF TypeOK, Time
    <2> QED BY <1>4, <2>1, <2>2, Undisturbed
<1> QED BY <1>5, <1>6, <1>7, <1>8, <1>9 DEF IInv

\* A request ends; the others stay as they were.
LEMMA AnsweredStep ==
    ASSUME IInv, NEW c \in Calls, Answered(c), queue # <<>>, Head(queue) = c
    PROVE  /\ call' \in [Calls -> Call \union {Idle}] /\ queue' \in Seq(Calls)
           /\ \A e \in Calls : call'[e] = Idle \/ (call'[e] = call[e] /\ e # c)
           /\ \A e \in Calls : call'[e].at # "writing"
<1>1. call \in [Calls -> Call \union {Idle}] /\ queue \in Seq(Calls)
    BY DEF IInv, TypeOK
<1>2. \A e \in Calls : call'[e] = IF e = c THEN Idle ELSE call[e]
    BY <1>1 DEF Answered
<1>3. \A e \in Calls : e # c => call[e].at # "writing"
    BY DEF IInv, OneWriter
<1>4. call' \in [Calls -> Call \union {Idle}] /\ queue' \in Seq(Calls)
    BY <1>1 DEF Answered
<1> QED BY <1>2, <1>3, <1>4 DEF Idle

LEMMA FailsStep ==
    ASSUME IInv, NEW c \in Calls, Fails(c), queue # <<>>, Head(queue) = c
    PROVE  IInv'
<1>1. Answered(c) /\ UNCHANGED <<clock, data, historyVars>>
    BY DEF Fails
<1>2. /\ call' \in [Calls -> Call \union {Idle}] /\ queue' \in Seq(Calls)
      /\ \A e \in Calls : call'[e] = Idle \/ call'[e] = call[e]
      /\ \A e \in Calls : call'[e].at # "writing"
    BY <1>1, AnsweredStep
<1>3. TypeOK'
    BY <1>1, <1>2 DEF IInv, TypeOK, historyVars
<1>4. OneWriter'
    BY <1>2 DEF OneWriter
<1>5. RequestsComplete'
    <2> SUFFICES ASSUME NEW e \in Calls PROVE Complete(call[e])'
        BY DEF RequestsComplete
    <2>1. Complete(call[e])
        BY DEF IInv, RequestsComplete
    <2> QED BY <1>1, <1>2, <2>1 DEF Complete, Idle, historyVars
<1>6. Given'
    BY <1>1 DEF IInv, Given, historyVars
<1>7. DataFine' /\ DraftsFine'
    <2>1. clock' \in Time /\ clock' >= clock
        BY <1>1 DEF IInv, TypeOK, Time
    <2> QED BY <1>1, <1>2, <2>1, Undisturbed DEF historyVars
<1> QED BY <1>3, <1>4, <1>5, <1>6, <1>7 DEF IInv

LEMMA DraftStep ==
    ASSUME IInv, NEW c \in Calls, Draft(c)
    PROVE  IInv'
<1> DEFINE x == call[c]
<1>0. /\ TypeOK /\ x \in Call /\ x.at = "queued" /\ queue # <<>> /\ Head(queue) = c
      /\ call \in [Calls -> Call \union {Idle}]
    BY DEF IInv, TypeOK, Draft, Turn, Idle
<1>1. PICK t \in Fresh(x) :
        call' = [call EXCEPT ![c].at = "writing", ![c].token = t, ![c].draft = Result(x, data, t)]
    BY DEF Draft
<1>2. PICK d : d = Result(x, data, t)
    OBVIOUS
<1>3. UNCHANGED <<clock, queue, data, issued, given, leaving, left, decided>>
    BY DEF Draft, storeVars, historyVars
<1>4. /\ d \in Data
      /\ t \in Tokens \union {None}
      /\ Fine(d, issued \union d.sessions, given \ leaving, left, decided, clock)
      /\ x.op = "login" => t \in Tokens /\ t \notin TokensOf(issued) /\ t \in TokensOf(d.sessions)
      /\ x.op # "login" => t = x.token
      /\ x.op = "logout" => Ended(d, {t})
      /\ x.op \in {"approve", "reject"} => decided[x.user] = 0 /\ Closed(d, x.user)
    BY <1>2, DraftIsFine DEF Draft
<1>5. PICK y : y = [x EXCEPT !.at = "writing", !.token = t, !.draft = d]
    OBVIOUS
<1>6. /\ y \in Call
      /\ y.op = x.op /\ y.user = x.user /\ y.token = t /\ y.draft = d
    <2> DEFINE D == Data
               Requests == [at : {"queued", "writing"}, op : {"login", "signup", "approve", "reject", "logout"},
                            user : Users \union {None}, token : Tokens \union {None}, draft : D \union {None}]
    <2>1. x \in Requests /\ d \in D
        BY <1>0, <1>4 DEF Call
    <2>2. y \in Requests /\ y.op = x.op /\ y.user = x.user /\ y.token = t /\ y.draft = d
        <3> HIDE DEF D
        <3> QED BY <1>4, <1>5, <2>1
    <2> QED BY <2>2 DEF Call
<1>7. call' = [call EXCEPT ![c] = y]
    BY <1>0, <1>1, <1>2, <1>5
<1>8. \A e \in Calls : call'[e] = IF e = c THEN y ELSE call[e]
    BY <1>0, <1>7
<1>9. TypeOK'
    <2>1. call' \in [Calls -> Call \union {Idle}]
        BY <1>0, <1>6, <1>7
    <2> QED BY <1>0, <1>3, <2>1 DEF TypeOK
<1>10. OneWriter'
    BY <1>0, <1>3, <1>8 DEF IInv, OneWriter
<1>11. RequestsComplete'
    <2> SUFFICES ASSUME NEW e \in Calls PROVE Complete(call[e])'
        BY DEF RequestsComplete
    <2>1. Complete(call[e])
        BY DEF IInv, RequestsComplete
    <2>2. CASE e = c
        <3>1. y.op = x.op /\ y.user = x.user /\ y.draft \in Data /\ (x.op = "logout" => y.token = x.token)
            BY <1>4, <1>6
        <3> QED BY <1>0, <1>3, <1>8, <2>1, <2>2, <3>1 DEF Complete
    <2>3. CASE e # c
        BY <1>3, <1>8, <2>1, <2>3 DEF Complete
    <2> QED BY <2>2, <2>3
<1>12. Given'
    BY <1>3 DEF IInv, Given
<1>13. DataFine'
    BY <1>3 DEF IInv, DataFine
<1>14. ASSUME NEW e \in Calls, call'[e].at = "writing"
       PROVE  /\ Fine(call'[e].draft, issued \union call'[e].draft.sessions, given \ leaving, left, decided, clock)
              /\ Drafted(call'[e], issued, decided)
    <2>1. e = c
        BY <1>0, <1>8, <1>14 DEF IInv, OneWriter
    <2>2. call'[e].draft = d
        BY <1>6, <1>8, <2>1
    <2>3. y.draft = d /\ y.op = x.op /\ y.user = x.user /\ y.token = t
        BY <1>6
    <2>4. Drafted(y, issued, decided)
        BY <1>4, <2>3 DEF Drafted
    <2> QED BY <1>4, <1>8, <2>1, <2>2, <2>4
<1>15. DraftsFine'
    BY <1>3, <1>14 DEF DraftsFine
<1> QED BY <1>9, <1>10, <1>11, <1>12, <1>13, <1>15 DEF IInv

LEMMA PublishStep ==
    ASSUME IInv, NEW c \in Calls, Publish(c)
    PROVE  IInv'
<1> DEFINE x == call[c]
           after == issued \union x.draft.sessions
<1>0. TypeOK /\ Given /\ x \in Call /\ Complete(x) /\ x.at = "writing" /\ x.draft \in Data
    <2>1. x \in Call \union {Idle} /\ x.at = "writing" /\ Complete(x)
        BY DEF IInv, TypeOK, RequestsComplete, Publish
    <2> QED BY <2>1 DEF IInv, Idle, Complete
<1>1. queue # <<>> /\ Head(queue) = c /\ Answered(c)
    BY <1>0 DEF IInv, OneWriter, Publish
<1>2. /\ call' \in [Calls -> Call \union {Idle}] /\ queue' \in Seq(Calls)
      /\ \A e \in Calls : call'[e] = Idle \/ call'[e] = call[e]
      /\ \A e \in Calls : call'[e].at # "writing"
    BY <1>1, AnsweredStep
<1>3. /\ Fine(x.draft, after, given \ leaving, left, decided, clock)
      /\ Drafted(x, issued, decided)
    BY <1>0 DEF IInv, DraftsFine
<1>4. /\ data' = x.draft /\ issued' = after /\ clock' = clock /\ leaving' = leaving
      /\ given' = IF x.op = "login" THEN given \union {x.token} ELSE given
      /\ left' = IF x.op = "logout" THEN left \union {x.token} ELSE left
      /\ decided' = IF x.op \in {"approve", "reject"} THEN [decided EXCEPT ![x.user] = @ + 1] ELSE decided
    BY DEF Publish
<1>5. /\ x.op = "login" => x.token \in Tokens
      /\ x.op = "logout" => x.token \in leaving
      /\ x.op \in {"approve", "reject"} => x.user \in Users
    <2>1. x.op = "login" => x.token \in TokensOf(x.draft.sessions)
        BY <1>3 DEF Drafted
    <2>2. \A s \in x.draft.sessions : s.token \in Tokens
        BY <1>0 DEF Data, Session
    <2>3. x.op = "login" => x.token \in Tokens
        BY <2>1, <2>2 DEF TokensOf
    <2> QED BY <1>0, <2>3 DEF Complete
<1>6. /\ decided' \in [Users -> 0..1]
      /\ \A u \in Users : decided'[u] = 1 => decided[u] = 1 \/ (x.op \in {"approve", "reject"} /\ u = x.user)
    <2>1. CASE x.op \in {"approve", "reject"}
        <3>1. decided[x.user] = 0 /\ decided \in [Users -> 0..1]
            BY <1>0, <1>3, <2>1 DEF Drafted, TypeOK
        <3>2. decided' = [decided EXCEPT ![x.user] = 1]
            BY <1>4, <2>1, <3>1
        <3> QED BY <1>5, <2>1, <3>1, <3>2
    <2>2. CASE x.op \notin {"approve", "reject"}
        BY <1>0, <1>4, <2>2 DEF TypeOK
    <2> QED BY <2>1, <2>2
<1>7. TypeOK'
    <2>1. data' \in Data /\ issued' \subseteq Session
        BY <1>0, <1>4 DEF TypeOK, Data
    <2>2. given' \subseteq Tokens /\ leaving' \subseteq Tokens /\ left' \subseteq leaving'
        BY <1>0, <1>4, <1>5 DEF TypeOK
    <2> QED BY <1>0, <1>2, <1>4, <1>6, <2>1, <2>2 DEF TypeOK
<1>8. OneWriter'
    BY <1>2 DEF OneWriter
<1>9. RequestsComplete'
    <2> SUFFICES ASSUME NEW e \in Calls PROVE Complete(call[e])'
        BY DEF RequestsComplete
    <2>1. Complete(call[e])
        BY DEF IInv, RequestsComplete
    <2> QED BY <1>2, <1>4, <2>1 DEF Complete, Idle
<1>10. Given'
    <2>1. TokensOf(issued) \subseteq TokensOf(after) /\ TokensOf(x.draft.sessions) \subseteq TokensOf(after)
        BY DEF TokensOf
    <2>2. x.op = "login" => x.token \in TokensOf(x.draft.sessions)
        BY <1>3 DEF Drafted
    <2>3. given' \subseteq TokensOf(after) /\ leaving' \subseteq given'
        BY <1>0, <1>4, <2>1, <2>2 DEF Given
    <2> QED BY <1>4, <2>3 DEF Given
<1>11. Fine(x.draft, after, given' \ leaving, left', decided', clock)
    <2>1. Numbered(after) /\ Standing(x.draft, after) /\ Few(x.draft)
        BY <1>3 DEF Fine
    <2>2. Kept(x.draft, after, given' \ leaving, clock)
        <3> SUFFICES ASSUME NEW s \in after, s.token \in given' \ leaving, s.created + Ttl > clock,
                            Cardinality(LaterThan(after, s)) < MaxSessions
                     PROVE  s \in x.draft.sessions
            BY DEF Kept
        <3>1. CASE s.token \in given
            BY <1>3, <3>1 DEF Fine, Kept
        <3>2. CASE s.token \notin given
            <4>1. x.op = "login" /\ s.token = x.token
                BY <1>4, <3>2
            <4>2. s \notin issued
                BY <1>3, <4>1 DEF Drafted, TokensOf
            <4> QED BY <4>2
        <3> QED BY <3>1, <3>2
    <2>3. Ended(x.draft, left')
        BY <1>3, <1>4 DEF Fine, Ended, Drafted
    <2>4. Settled(x.draft, decided')
        BY <1>3, <1>6 DEF Fine, Settled, Drafted
    <2> QED BY <2>1, <2>2, <2>3, <2>4 DEF Fine
<1>12. DataFine' /\ DraftsFine'
    BY <1>2, <1>4, <1>11 DEF DataFine, DraftsFine
<1> QED BY <1>7, <1>8, <1>9, <1>10, <1>12 DEF IInv

LEMMA RestartStep == ASSUME IInv, Restart PROVE IInv'
<1>0. TypeOK /\ Given
    BY DEF IInv
<1>1. /\ issued' = issued \union data'.sessions /\ queue' = <<>>
      /\ call' = [c \in Calls |-> Idle]
      /\ UNCHANGED <<clock, given, leaving, left, decided>>
    BY DEF Restart
<1>2. data' \in Data /\ Fine(data', issued', given \ leaving, left, decided, clock)
    <2>1. CASE data' = data
        <3>1. issued' = issued
            BY <1>1, <2>1 DEF IInv, DataFine, Fine, Standing
        <3> QED BY <1>0, <2>1, <3>1 DEF IInv, DataFine, TypeOK
    <2>2. CASE data' # data
        <3>1. PICK c \in Calls : call[c].at = "writing" /\ data' = call[c].draft
            BY <2>2 DEF Restart, Recoverable
        <3> QED BY <1>1, <3>1 DEF IInv, DraftsFine, RequestsComplete, Complete
    <2> QED BY <2>1, <2>2
<1>3. \A c \in Calls : call'[c] = Idle /\ call'[c].at = "idle"
    BY <1>1 DEF Idle
<1>4. TypeOK'
    <2>1. issued' \subseteq Session
        BY <1>0, <1>1, <1>2 DEF TypeOK, Data
    <2>2. call' \in [Calls -> Call \union {Idle}] /\ queue' \in Seq(Calls)
        BY <1>1
    <2> QED BY <1>0, <1>1, <1>2, <2>1, <2>2 DEF TypeOK
<1>5. OneWriter' /\ RequestsComplete'
    BY <1>3 DEF OneWriter, RequestsComplete, Complete
<1>6. Given'
    <2>1. TokensOf(issued) \subseteq TokensOf(issued')
        BY <1>1 DEF TokensOf
    <2> QED BY <1>0, <1>1, <2>1 DEF Given
<1>7. DataFine' /\ DraftsFine'
    BY <1>1, <1>2, <1>3 DEF DataFine, DraftsFine
<1> QED BY <1>4, <1>5, <1>6, <1>7 DEF IInv

LEMMA RestStep ==
    ASSUME IInv, UNCHANGED <<call, storeVars, historyVars>>, clock' \in Time, clock' >= clock
    PROVE  IInv'
<1>1. UNCHANGED <<call, queue, data, issued, given, leaving, left, decided>>
    BY DEF storeVars, historyVars
<1>2. TypeOK' /\ OneWriter' /\ RequestsComplete' /\ Given'
    BY <1>1 DEF IInv, TypeOK, OneWriter, RequestsComplete, Complete, Given
<1>3. DataFine' /\ DraftsFine'
    BY <1>1, Undisturbed
<1> QED BY <1>2, <1>3 DEF IInv

LEMMA InitIsFine == Init => IInv
<1> SUFFICES ASSUME Init PROVE IInv
    OBVIOUS
<1>1. TypeOK
    BY AccountsAssumption DEF Init, TypeOK, Time, Data
<1>2. OneWriter /\ RequestsComplete /\ DraftsFine
    BY DEF Init, OneWriter, RequestsComplete, Complete, DraftsFine, Idle
<1>3. Given
    BY DEF Init, Given
<1>4. DataFine
    <2>1. IsFiniteSet({}) /\ Cardinality({}) = 0
        BY FS_EmptySet
    <2>2. Numbered(issued)
        BY <2>1 DEF Init, Numbered
    <2>3. Standing(data, issued) /\ Kept(data, issued, given \ leaving, clock) /\ Ended(data, left)
        BY DEF Init, Standing, Kept, Ended
    <2>4. Few(data)
        <3>1. \A u \in Users : SessionsOf(data.sessions, u) = {}
            BY DEF Init, SessionsOf
        <3> QED BY <2>1, <3>1, AccountsAssumption DEF Few
    <2>5. Settled(data, decided)
        BY DEF Init, Settled
    <2> QED BY <2>2, <2>3, <2>4, <2>5 DEF DataFine, Fine
<1> QED BY <1>1, <1>2, <1>3, <1>4 DEF IInv

LEMMA StepIsFine == IInv /\ [Next]_vars => IInv'
<1> SUFFICES ASSUME IInv, [Next]_vars PROVE IInv'
    OBVIOUS
<1>0. TypeOK
    BY DEF IInv
<1>1. ASSUME NEW c \in Calls, NEW u \in Users, Login(c, u) PROVE IInv'
    BY <1>1, EnqueueStep DEF Login, historyVars
<1>2. ASSUME NEW c \in Calls, NEW u \in Users, Signup(c, u) PROVE IInv'
    BY <1>2, EnqueueStep DEF Signup, historyVars
<1>3. ASSUME NEW c \in Calls, NEW u \in Users, NEW op \in {"approve", "reject"}, Decide(c, op, u) PROVE IInv'
    BY <1>3, EnqueueStep DEF Decide, historyVars
<1>4. ASSUME NEW c \in Calls, NEW t \in Tokens, Logout(c, t) PROVE IInv'
    BY <1>4, EnqueueStep DEF Logout
<1>5. ASSUME NEW c \in Calls, Reject(c) PROVE IInv'
    BY <1>5, FailsStep DEF Reject, Turn
<1>6. ASSUME NEW c \in Calls, WriteFails(c) PROVE IInv'
    BY <1>6, FailsStep DEF WriteFails, IInv, OneWriter
<1>7. ASSUME Tick PROVE IInv'
    <2>1. clock' \in Time /\ clock' >= clock
        BY <1>0, <1>7, AccountsAssumption DEF Tick, TypeOK, Time
    <2> QED BY <1>7, <2>1, RestStep DEF Tick
<1>8. ASSUME UNCHANGED vars PROVE IInv'
    <2>1. clock' \in Time /\ clock' >= clock
        BY <1>0, <1>8 DEF vars, TypeOK, Time
    <2> QED BY <1>8, <2>1, RestStep DEF vars, storeVars, historyVars
<1> QED BY <1>1, <1>2, <1>3, <1>4, <1>5, <1>6, <1>7, <1>8, DraftStep, PublishStep, RestartStep
    DEF Next, Arrives, Step

-----------------------------------------------------------------------------
(***************************************************************************)
(* The theorems                                                            *)
(***************************************************************************)
\* The sessions that must be there are, in the memory and in what is written.
THEOREM Inductive == Spec => []IInv
BY InitIsFine, StepIsFine, PTL DEF Spec

\* Accounts, sessions and requests keep their types, and a decision on a sign-up is
\* answered as done once.
THEOREM TypeCorrect == Spec => []TypeOK
<1>1. IInv => TypeOK
    BY DEF IInv
<1> QED BY <1>1, Inductive, PTL

\* An answered token works until something of its own ends it, a logout is final,
\* and an account has no more sessions than allowed.
THEOREM SessionsAreHeld == Spec => []SessionsHold
<1>1. IInv => SessionsHold
    <2> SUFFICES ASSUME IInv PROVE SessionsHold
        OBVIOUS
    <2>1. Fine(data, issued, given \ leaving, left, decided, clock)
        BY DEF IInv, DataFine
    <2>2. ASSUME NEW s \in issued, s.token \in given \ leaving, s.created + Ttl > clock,
                 Cardinality(LaterThan(issued, s)) < MaxSessions
          PROVE  Authenticates(s.token)
        BY <2>1, <2>2 DEF Fine, Kept, Standing, Authenticates
    <2>3. \A t \in left : ~Authenticates(t)
        BY <2>1 DEF Fine, Ended, Authenticates
    <2>4. \A u \in Users : Cardinality(SessionsOf(data.sessions, u)) <= MaxSessions
        BY <2>1 DEF Fine, Few
    <2> QED BY <2>2, <2>3, <2>4 DEF SessionsHold
<1> QED BY <1>1, Inductive, PTL

-----------------------------------------------------------------------------
(***************************************************************************)
(* The abuse guard.                                                        *)
(*                                                                         *)
(* The windows are in several places at once: in memory, in the writes     *)
(* that wait, in the one that is being written and in the file, and a      *)
(* restart brings the file back.  Each is an image of what was counted:    *)
(* no window in it is overfull, and it has all that counts up to some      *)
(* number of attempts.  The invariant says it of all of them.              *)
(***************************************************************************)
\* The logins in progress that would count for a key, and the attempts in its window
Counting(x) == IF x = NoLogin THEN {} ELSE KeysIn(LoginKeys(x.ident, x.source))
InProgress(k) == {c \in Logins : k \in Counting(login[c])}

\* There is room in each window for the logins that have passed the check.
Room ==
    \A k \in Keys :
        Cardinality(Recent(k, bucket[k].attempts)) + Cardinality(InProgress(k)) <= Limit[k] + Overshoot(k)

\* An image f of the windows has no more in a window than may be, nor more buckets,
\* and it has the attempts up to a number that count.
Nth(i) == [number |-> i, at |-> counted[i].at]
Within(k, attempts) ==
    /\ IsFiniteSet(attempts)
    /\ Cardinality(Recent(k, attempts)) <= Limit[k] + Overshoot(k)
Covers(k, attempts, upto) == \A i \in Against(k) : i <= upto => Nth(i) \in attempts
Sparse(f) == \A table \in Tables :
    IsFiniteSet(Tracked(f, table)) /\ Cardinality(Tracked(f, table)) <= Most(table)
Image(f, upto) == \A k \in Keys : Within(k, f[k].attempts) /\ Covers(k, f[k].attempts, upto)

\* What was counted after settled may be in the last write of the chain only.
UpTo(i) == IF i = Len(writes) THEN Len(counted) ELSE settled

MemoryHolds == Image(bucket, Len(counted)) /\ Sparse(bucket)
WaitingHold == \A i \in DOMAIN writes : Image(Seen(writes[i]), UpTo(i)) /\ Sparse(writes[i])
WritingHolds == writing # <<>> => writes # <<>> /\ Image(writing, UpTo(1)) /\ Sparse(writing)
FileHolds == Image(disk, settled) /\ Sparse(disk)

GuardIInv ==
    /\ GuardTypeOK
    /\ Room
    /\ MemoryHolds
    /\ WaitingHold
    /\ WritingHolds
    /\ FileHolds

-----------------------------------------------------------------------------
(***************************************************************************)
(* Keys, buckets and images                                                *)
(***************************************************************************)
LEMMA GuardTypes ==
    /\ \A k \in Keys : Limit[k] \in Nat \ {0} /\ Window[k] \in Nat \ {0} /\ Overshoot(k) \in Int
    /\ Cardinality(Logins) \in Nat /\ IsFiniteSet(Logins)
    /\ \A table \in Tables : Most(table) \in Nat \ {0} /\ table \subseteq Keys
    /\ NoBucket \in Bucket /\ Shared \notin Bucket
<1>1. Cardinality(Logins) \in Nat /\ IsFiniteSet(Logins)
    BY GuardAssumption, FS_CardinalityType
<1>2. \A k \in Keys : Limit[k] \in Nat \ {0} /\ Window[k] \in Nat \ {0} /\ Overshoot(k) \in Int
    BY <1>1, GuardAssumption DEF Overshoot
<1>3. \A table \in Tables : Most(table) \in Nat \ {0} /\ table \subseteq Keys
    BY GuardAssumption DEF Tables, Most, Keys, IdentKeys
<1>4. NoBucket \in Bucket
    BY GuardAssumption DEF NoBucket, Bucket, Instant
<1>5. Shared \notin Bucket
    <2>1. DOMAIN Shared = {"shared"} /\ \A x \in Bucket : DOMAIN x = {"attempts", "seen"}
        BY DEF Shared, Bucket
    <2>2. "shared" \notin {"attempts", "seen"}
        OBVIOUS
    <2> QED BY <2>1, <2>2
<1> QED BY <1>1, <1>2, <1>3, <1>4, <1>5

\* What a login and what a sign-up count for
LEMMA KeysOfRequests ==
    ASSUME NEW s \in Sources
    PROVE  /\ KeysIn(SignupKeys(s)) = {<<"signup", Everyone>>, <<"signup", s>>}
           /\ KeysIn(SignupKeys(s)) \subseteq Keys
           /\ \A u \in Idents :
                /\ KeysIn(LoginKeys(u, s)) = {<<"login", Everyone>>, <<"login", u>>, <<"login", s>>}
                /\ KeysIn(LoginKeys(u, s)) \subseteq Keys
<1>1. KeysIn(SignupKeys(s)) = {<<"signup", Everyone>>, <<"signup", s>>}
    BY DEF KeysIn, SignupKeys
<1>2. \A u \in Idents : KeysIn(LoginKeys(u, s)) = {<<"login", Everyone>>, <<"login", u>>, <<"login", s>>}
    BY DEF KeysIn, LoginKeys
<1> QED BY <1>1, <1>2 DEF Keys

\* Of a map's buckets a request records one at most.
LEMMA OneLoginInEachTable ==
    ASSUME NEW u \in Idents, NEW s \in Sources, NEW table \in Tables
    PROVE  \/ KeysIn(LoginKeys(u, s)) \intersect table = {}
           \/ \E k \in {<<"login", u>>, <<"login", s>>} :
                    KeysIn(LoginKeys(u, s)) \intersect table = {k} /\ Table(k) = table
<1>0. Everyone \notin Idents /\ Everyone \notin Sources /\ s \notin Idents /\ u \notin Sources
    BY GuardAssumption
<1>1. CASE table = IdentKeys
    <2>1. KeysIn(LoginKeys(u, s)) \intersect table = {<<"login", u>>} /\ Table(<<"login", u>>) = table
        BY <1>0, <1>1, KeysOfRequests DEF IdentKeys, Table
    <2> QED BY <2>1
<1>2. CASE table = {"login"} \X Sources
    <2>1. KeysIn(LoginKeys(u, s)) \intersect table = {<<"login", s>>} /\ Table(<<"login", s>>) = table
        BY <1>0, <1>2, KeysOfRequests DEF IdentKeys, Table
    <2> QED BY <2>1
<1>3. CASE table = {"signup"} \X Sources
    BY <1>3, KeysOfRequests
<1> QED BY <1>1, <1>2, <1>3 DEF Tables

LEMMA OneSignupInEachTable ==
    ASSUME NEW s \in Sources, NEW table \in Tables
    PROVE  \/ KeysIn(SignupKeys(s)) \intersect table = {}
           \/ KeysIn(SignupKeys(s)) \intersect table = {<<"signup", s>>} /\ Table(<<"signup", s>>) = table
<1>0. Everyone \notin Sources /\ s \notin Idents
    BY GuardAssumption
<1>1. CASE table \in {IdentKeys, {"login"} \X Sources}
    BY <1>1, KeysOfRequests DEF IdentKeys
<1>2. CASE table = {"signup"} \X Sources
    BY <1>0, <1>2, KeysOfRequests DEF IdentKeys, Table
<1> QED BY <1>1, <1>2 DEF Tables

\* Fewer attempts have fewer in a window.
LEMMA FewerAttempts ==
    ASSUME NEW S, IsFiniteSet(S), NEW T \in SUBSET S
    PROVE  /\ IsFiniteSet(T)
           /\ Cardinality(T) \in Nat /\ Cardinality(S) \in Nat
           /\ Cardinality(T) <= Cardinality(S)
BY FS_Subset, FS_CardinalityType

LEMMA OneAttemptMore ==
    ASSUME NEW S, IsFiniteSet(S), NEW x, NEW T \in SUBSET (S \union {x})
    PROVE  /\ IsFiniteSet(T)
           /\ Cardinality(T) \in Nat /\ Cardinality(S) \in Nat
           /\ Cardinality(T) <= Cardinality(S) + 1
<1>1. IsFiniteSet(S \union {x}) /\ Cardinality(S \union {x}) \in Nat /\ Cardinality(S) \in Nat
    BY FS_AddElement, FS_CardinalityType
<1>2. Cardinality(S \union {x}) <= Cardinality(S) + 1
    BY <1>1, FS_AddElement
<1> QED BY <1>1, <1>2, FewerAttempts

\* Fewer buckets are no more than there may be.
LEMMA SparserStill ==
    ASSUME NEW f, Sparse(f), NEW g, \A table \in Tables : Tracked(g, table) \subseteq Tracked(f, table)
    PROVE  Sparse(g)
<1> SUFFICES ASSUME NEW table \in Tables
             PROVE  IsFiniteSet(Tracked(g, table)) /\ Cardinality(Tracked(g, table)) <= Most(table)
    BY DEF Sparse
<1>1. Tracked(g, table) \in SUBSET Tracked(f, table)
    OBVIOUS
<1>2. IsFiniteSet(Tracked(f, table)) /\ Cardinality(Tracked(f, table)) <= Most(table)
    BY DEF Sparse
<1>3. Most(table) \in Nat
    BY GuardTypes
<1> QED BY <1>1, <1>2, <1>3, FewerAttempts

\* After an eviction the buckets of a map are no more than before a new one came.
LEMMA EvictionMakesRoom ==
    ASSUME NEW a, Sparse(a), NEW r, NEW table \in Tables, NEW k \in table, Table(k) = table,
           Tracked(r, table) \subseteq Tracked(a, table) \union {k},
           NEW g \in Evictable(r, k)
    PROVE  /\ IsFiniteSet(Tracked(r, table) \ g)
           /\ Cardinality(Tracked(r, table) \ g) <= Most(table)
<1> DEFINE A == Tracked(a, table)
           R == Tracked(r, table)
<1>1. IsFiniteSet(A) /\ Cardinality(A) <= Most(table) /\ Most(table) \in Nat
    BY GuardTypes DEF Sparse
<1>2. IsFiniteSet(R) /\ Cardinality(R) \in Nat /\ Cardinality(R) <= Cardinality(A) + 1 /\ Cardinality(A) \in Nat
    <2> HIDE DEF A, R
    <2>1. R \in SUBSET (A \union {k})
        BY DEF A, R
    <2> QED BY <1>1, <2>1, OneAttemptMore
<1>3. CASE Cardinality(R) <= Most(table)
    <2>1. R \ g \in SUBSET R
        OBVIOUS
    <2> HIDE DEF A, R
    <2>2. IsFiniteSet(R \ g) /\ Cardinality(R \ g) \in Nat /\ Cardinality(R \ g) <= Cardinality(R)
        BY <1>2, <2>1, FewerAttempts
    <2>3. Cardinality(R \ g) <= Most(table)
        BY <1>1, <1>2, <1>3, <2>2
    <2> QED BY <2>2, <2>3 DEF R
<1>4. CASE ~(Cardinality(R) <= Most(table))
    <2>1. PICK l \in R : g = {l}
        BY <1>4 DEF Evictable
    <2> HIDE DEF A, R
    <2>2. IsFiniteSet(R \ g) /\ Cardinality(R \ g) = Cardinality(R) - 1
        BY <1>2, <2>1, FS_RemoveElement
    <2>3. Cardinality(R \ g) <= Most(table)
        BY <1>1, <1>2, <2>2
    <2> QED BY <2>2, <2>3 DEF R
<1> QED BY <1>3, <1>4

-----------------------------------------------------------------------------
(***************************************************************************)
(* Persistence: whatever a request makes of the windows, the images of     *)
(* them that wait, are being written or are in the file still have what    *)
(* counts.                                                                 *)
(***************************************************************************)
\* Within looks at nothing but the clock.
LEMMA WithinLater ==
    ASSUME NEW k, NEW attempts, now' = now, Within(k, attempts)
    PROVE  Within(k, attempts)'
BY DEF Within, Recent, Overshoot

\* The history only grows, and nothing counts that did not count before.
Counted == [keys : SUBSET Keys, at : Instant]
HistoryGrows ==
    /\ now' = now /\ settled' = settled
    /\ counted \in Seq(Counted) /\ counted' \in Seq(Counted)
    /\ settled \in 0..Len(counted) /\ Len(counted) <= Len(counted')
    /\ \A i \in DOMAIN counted : counted'[i] = counted[i]
    /\ \A k \in Keys : \A i \in Against(k)' : i <= Len(counted) => i \in Against(k)

LEMMA CoversLater ==
    ASSUME HistoryGrows, NEW k \in Keys, NEW attempts, NEW upto \in 0..Len(counted),
           Covers(k, attempts, upto)
    PROVE  Covers(k, attempts, upto)'
<1> SUFFICES ASSUME NEW i \in Against(k)', i <= upto
             PROVE  Nth(i)' \in attempts
    BY DEF Covers
<1>0. Len(counted) \in Nat /\ Len(counted') \in Nat /\ DOMAIN counted' = 1..Len(counted')
    BY DEF HistoryGrows
<1>1. i \in DOMAIN counted' /\ i \in Nat
    BY <1>0 DEF Against
<1>2. i <= Len(counted)
    BY <1>0, <1>1
<1>3. i \in Against(k)
    BY <1>2 DEF HistoryGrows
<1>4. i \in DOMAIN counted
    BY <1>3 DEF Against
<1>5. Nth(i)' = Nth(i)
    BY <1>4 DEF Nth, HistoryGrows
<1> QED BY <1>3, <1>5 DEF Covers

LEMMA CoversLess ==
    ASSUME NEW k, NEW attempts, NEW upto \in Nat, Covers(k, attempts, upto),
           NEW less \in 0..upto, DOMAIN counted \subseteq Nat
    PROVE  Covers(k, attempts, less)
<1> SUFFICES ASSUME NEW i \in Against(k), i <= less PROVE Nth(i) \in attempts
    BY DEF Covers
<1>1. i \in Nat
    BY DEF Against
<1>2. i <= upto
    BY <1>1
<1> QED BY <1>2 DEF Covers

LEMMA ImageLater ==
    ASSUME HistoryGrows, NEW f, NEW upto \in 0..Len(counted), Image(f, upto)
    PROVE  Image(f, upto)'
<1> SUFFICES ASSUME NEW k \in Keys
             PROVE  Within(k, f[k].attempts)' /\ Covers(k, f[k].attempts, upto)'
    BY DEF Image
<1>1. PICK attempts : attempts = f[k].attempts
    OBVIOUS
<1>2. Within(k, attempts) /\ Covers(k, attempts, upto) /\ now' = now
    BY <1>1 DEF Image, HistoryGrows
<1>3. Within(k, attempts)' /\ Covers(k, attempts, upto)'
    BY <1>2, WithinLater, CoversLater
<1> QED BY <1>1, <1>3

\* The bucket of a snapshot is the live one until it is deleted.
LEMMA DetachedHolds ==
    ASSUME GuardTypeOK, MemoryHolds, HistoryGrows,
           NEW b \in [Keys -> Bucket], bucket' = b, Image(b, Len(counted))',
           NEW s \in Snapshot, NEW gone, NEW d, d = Detached(s, gone),
           NEW upto \in 0..Len(counted), Image(Seen(s), upto), Sparse(s)
    PROVE  d \in Snapshot /\ Image(Seen(d), upto)' /\ Sparse(d)
<1>0. bucket \in [Keys -> Bucket] /\ Len(counted) \in Nat /\ upto \in Nat /\ upto <= Len(counted)
      /\ Shared \notin Bucket /\ NoBucket \in Bucket
    BY GuardTypes DEF GuardTypeOK, HistoryGrows
<1>1. d = [k \in Keys |-> IF s[k] = Shared /\ k \in gone THEN bucket[k] ELSE s[k]]
    BY DEF Detached
<1>2. d \in Snapshot
    BY <1>0, <1>1 DEF Snapshot
<1>3. ASSUME NEW table \in Tables
      PROVE  Tracked(d, table) \subseteq Tracked(s, table)
    <2> SUFFICES ASSUME NEW k \in table, d[k] # NoBucket PROVE s[k] # NoBucket
        BY DEF Tracked
    <2>1. k \in Keys
        BY GuardTypes
    <2> QED BY <1>0, <1>1, <2>1
<1>4. Sparse(d)
    BY <1>3, SparserStill
<1>5. ASSUME NEW k \in Keys
      PROVE  Within(k, Seen(d)[k].attempts)' /\ Covers(k, Seen(d)[k].attempts, upto)'
    <2>1. CASE d[k] = Shared
        <3>1. Seen(d)'[k] = b[k]
            BY <2>1 DEF Seen
        <3>2. Within(k, b[k].attempts)' /\ Covers(k, b[k].attempts, Len(counted))'
            BY DEF Image
        <3>3. Len(counted)' \in Nat /\ upto \in 0..Len(counted)' /\ DOMAIN counted' \subseteq Nat
            BY <1>0 DEF HistoryGrows
        <3>4. PICK attempts : attempts = b[k].attempts
            OBVIOUS
        <3>5. PICK all : all = Len(counted)'
            OBVIOUS
        <3>6. Covers(k, attempts, all)' /\ all \in Nat /\ upto \in 0..all
            BY <3>2, <3>3, <3>4, <3>5
        <3>7. Covers(k, attempts, upto)'
            <4> SUFFICES ASSUME NEW i \in Against(k)', i <= upto PROVE Nth(i)' \in attempts
                BY DEF Covers
            <4>1. i \in Nat /\ i <= all
                BY <1>0, <3>3, <3>6 DEF Against
            <4> QED BY <3>6, <4>1 DEF Covers
        <3> QED BY <3>1, <3>2, <3>4, <3>7
    <2>2. CASE d[k] # Shared /\ s[k] = Shared
        <3>1. Seen(d)'[k] = bucket[k]
            BY <1>1, <2>2 DEF Seen
        <3>2. PICK attempts : attempts = bucket[k].attempts
            OBVIOUS
        <3>3. Within(k, attempts) /\ Covers(k, attempts, Len(counted))
            BY <3>2 DEF MemoryHolds, Image
        <3>4. Covers(k, attempts, upto)
            BY <1>0, <3>3, CoversLess DEF HistoryGrows
        <3>5. Within(k, attempts)' /\ Covers(k, attempts, upto)'
            BY <3>3, <3>4, WithinLater, CoversLater DEF HistoryGrows
        <3> QED BY <3>1, <3>2, <3>5
    <2>3. CASE d[k] # Shared /\ s[k] # Shared
        <3>1. Seen(d)'[k] = s[k] /\ Seen(s)[k] = s[k]
            BY <1>1, <2>3 DEF Seen
        <3>2. PICK attempts : attempts = s[k].attempts
            OBVIOUS
        <3>3. Within(k, attempts) /\ Covers(k, attempts, upto)
            BY <3>1, <3>2 DEF Image
        <3>4. Within(k, attempts)' /\ Covers(k, attempts, upto)'
            BY <3>3, WithinLater, CoversLater DEF HistoryGrows
        <3> QED BY <3>1, <3>2, <3>4
    <2> QED BY <2>1, <2>2, <2>3
<1>6. Image(Seen(d), upto)'
    BY <1>5 DEF Image
<1> QED BY <1>2, <1>4, <1>6

\* Everything the chain and the file hold still has what counts, and the last
\* write has what was just counted.
LEMMA Persisted ==
    ASSUME GuardTypeOK, MemoryHolds, WaitingHold, WritingHolds, FileHolds, HistoryGrows,
           NEW b \in [Keys -> Bucket], NEW gone, NEW persist \in BOOLEAN,
           Update(b, gone, persist), persist \/ counted' = counted,
           Image(b, Len(counted))', Sparse(b)
    PROVE  /\ MemoryHolds' /\ WaitingHold' /\ WritingHolds' /\ FileHolds'
           /\ writes' \in Seq(Snapshot)
<1> DEFINE waiting == [i \in DOMAIN writes |-> Detached(writes[i], gone)]
<1>0. /\ Len(counted) \in Nat /\ settled \in 0..Len(counted) /\ settled' = settled
      /\ writes \in Seq(Snapshot) /\ bucket' = b /\ Shared \notin Bucket /\ NoBucket \in Bucket
      /\ writing' = writing /\ disk' = disk
    BY GuardTypes DEF GuardTypeOK, HistoryGrows, Update
<1>1. MemoryHolds'
    <2>1. Image(b, Len(counted))' /\ Sparse(b)
        OBVIOUS
    <2>2. Sparse(b)'
        BY <2>1 DEF Sparse, Tracked
    <2>3. Image(bucket, Len(counted))' /\ Sparse(bucket)'
        BY <1>0, <2>1, <2>2 DEF Image, Sparse, Tracked
    <2> QED BY <2>3 DEF MemoryHolds
<1>2. FileHolds'
    <2>1. PICK file : file = disk
        OBVIOUS
    <2>2. Image(file, settled) /\ Sparse(file)
        BY <2>1 DEF FileHolds
    <2>3. PICK upto : upto = settled
        OBVIOUS
    <2>4. Image(file, upto)'
        BY <1>0, <2>2, <2>3, ImageLater
    <2>5. Image(disk, settled)' /\ Sparse(disk)'
        BY <1>0, <2>1, <2>2, <2>3, <2>4 DEF Image, Sparse, Tracked
    <2> QED BY <2>5 DEF FileHolds
<1>3. waiting \in Seq(Snapshot) /\ Len(waiting) = Len(writes) /\ DOMAIN waiting = DOMAIN writes
    <2>1. \A i \in DOMAIN writes : Detached(writes[i], gone) \in Snapshot
        BY <1>0 DEF Snapshot, Detached, GuardTypeOK
    <2> QED BY <1>0, <2>1
<1>4. PICK new : new = TakeSnapshot(b)
    OBVIOUS
<1>5. /\ persist => writes' = Append(waiting, new)
      /\ ~persist => writes' = waiting
    BY <1>4 DEF Update
<1>6. new \in Snapshot /\ Image(Seen(new), Len(counted))' /\ Sparse(new)
    <2>1. new = [k \in Keys |-> IF k[2] # Everyone /\ b[k] # NoBucket THEN Shared ELSE b[k]]
        BY <1>4 DEF TakeSnapshot
    <2>2. new \in Snapshot
        BY <2>1 DEF Snapshot
    <2>3. \A k \in Keys : Seen(new)'[k] = b[k]
        BY <1>0, <2>1 DEF Seen
    <2>4. Image(Seen(new), Len(counted))'
        BY <2>3 DEF Image
    <2>5. \A table \in Tables : Tracked(new, table) \subseteq Tracked(b, table)
        BY <2>1, GuardTypes DEF Tracked
    <2> QED BY <2>2, <2>4, <2>5, SparserStill
<1>7. ASSUME NEW i \in DOMAIN writes, NEW d, d = waiting[i]
      PROVE  /\ Sparse(d)
             /\ persist => Image(Seen(d), settled)'
             /\ ~persist => Image(Seen(d), UpTo(i))'
    <2>1. PICK s : s = writes[i]
        OBVIOUS
    <2>2. PICK upto : upto = UpTo(i)
        OBVIOUS
    <2>3. s \in Snapshot /\ Image(Seen(s), upto) /\ Sparse(s)
        BY <1>0, <2>1, <2>2 DEF WaitingHold
    <2>4. upto \in 0..Len(counted) /\ settled \in 0..upto
        BY <1>0, <2>2 DEF UpTo
    <2>5. d = Detached(s, gone)
        BY <1>7, <2>1
    <2>6. PICK low : low = settled
        OBVIOUS
    <2>7. Image(Seen(s), low)
        BY <1>0, <2>3, <2>4, <2>6, CoversLess DEF Image, HistoryGrows
    <2>8. Image(Seen(d), upto)' /\ Image(Seen(d), low)' /\ Sparse(d)
        BY <1>0, <2>3, <2>4, <2>5, <2>6, <2>7, DetachedHolds
    <2>9. ~persist => UpTo(i)' = upto
        BY <1>0, <1>3, <1>5, <2>2 DEF UpTo
    <2> QED BY <1>0, <2>6, <2>8, <2>9
<1>8. writes' \in Seq(Snapshot)
    <2> HIDE DEF waiting
    <2> QED BY <1>3, <1>5, <1>6
<1>9. WaitingHold'
    <2> SUFFICES ASSUME NEW i \in DOMAIN writes'
                 PROVE  Image(Seen(writes[i]), UpTo(i))' /\ Sparse(writes'[i])
        BY DEF WaitingHold, Sparse, Tracked
    <2>1. PICK d : d = writes'[i]
        OBVIOUS
    <2>2. CASE i \in DOMAIN writes
        <3>1. d = waiting[i]
            <4> HIDE DEF waiting
            <4> QED BY <1>0, <1>3, <1>5, <2>1, <2>2
        <3>2. persist => UpTo(i)' = settled'
            <4> HIDE DEF waiting
            <4>1. persist => Len(writes') = Len(writes) + 1
                BY <1>3, <1>5
            <4> QED BY <1>0, <2>2, <4>1 DEF UpTo
        <3>3. Image(Seen(d), UpTo(i))' /\ Sparse(d)
            BY <1>7, <2>2, <3>1, <3>2
        <3> QED BY <2>1, <3>3
    <2>3. CASE i \notin DOMAIN writes
        <3>1. persist /\ i = Len(writes') /\ d = new
            <4> HIDE DEF waiting
            <4> QED BY <1>0, <1>3, <1>5, <2>1, <2>3
        <3>2. UpTo(i)' = Len(counted)'
            BY <3>1 DEF UpTo
        <3> QED BY <1>6, <2>1, <3>1, <3>2
    <2> QED BY <2>2, <2>3
<1>10. WritingHolds'
    <2> SUFFICES ASSUME writing # <<>>
                 PROVE  writes' # <<>> /\ Image(writing, UpTo(1))' /\ Sparse(writing)'
        BY <1>0 DEF WritingHolds
    <2>1. PICK w : w = writing
        OBVIOUS
    <2>2. PICK upto : upto = UpTo(1)
        OBVIOUS
    <2>3. writes # <<>> /\ Image(w, upto) /\ Sparse(w)
        BY <2>1, <2>2 DEF WritingHolds
    <2>4. upto \in 0..Len(counted) /\ settled \in 0..upto
        BY <1>0, <2>2 DEF UpTo
    <2>5. PICK low : low = settled
        OBVIOUS
    <2>6. Image(w, low)
        BY <1>0, <2>3, <2>4, <2>5, CoversLess DEF Image, HistoryGrows
    <2>7. Image(w, upto)' /\ Image(w, low)'
        BY <1>0, <2>3, <2>4, <2>5, <2>6, ImageLater
    <2>8. /\ writes' # <<>>
          /\ persist => UpTo(1)' = low
          /\ ~persist => UpTo(1)' = upto
        <3> HIDE DEF waiting
        <3>1. persist => Len(writes') = Len(writes) + 1
            BY <1>3, <1>5
        <3>2. ~persist => Len(writes') = Len(writes)
            BY <1>3, <1>5
        <3>3. Len(writes) \in Nat \ {0}
            BY <1>0, <2>3
        <3>4. writes' # <<>>
            BY <1>8, <3>1, <3>2, <3>3
        <3>5. persist => UpTo(1)' = low
            <4>1. persist => 1 # Len(writes')
                BY <3>1, <3>3
            <4> QED BY <1>0, <2>5, <4>1 DEF UpTo
        <3>6. ~persist => UpTo(1)' = upto
            BY <1>0, <2>2, <3>2 DEF UpTo
        <3> QED BY <3>4, <3>5, <3>6
    <2>9. Image(w, UpTo(1))' /\ Sparse(w)'
        BY <2>3, <2>7, <2>8 DEF Sparse, Tracked
    <2> QED BY <1>0, <2>1, <2>8, <2>9 DEF Image, Sparse, Tracked
<1> QED BY <1>1, <1>2, <1>8, <1>9, <1>10

-----------------------------------------------------------------------------
(***************************************************************************)
(* What requests make of the windows                                       *)
(***************************************************************************)
\* A check takes out what has expired, and nothing else.
LEMMA Asserted ==
    ASSUME GuardTypeOK, MemoryHolds, NEW ks, NEW a, a = AfterAssert(ks)
    PROVE  /\ a \in [Keys -> Bucket] /\ Sparse(a)
           /\ \A k \in Keys :
                /\ Recent(k, a[k].attempts) = Recent(k, bucket[k].attempts)
                /\ IsFiniteSet(a[k].attempts)
                /\ Covers(k, a[k].attempts, Len(counted))
<1>0. bucket \in [Keys -> Bucket] /\ now \in Instant /\ NoBucket \in Bucket /\ 0 \in Instant
    BY GuardTypes DEF GuardTypeOK, Bucket, NoBucket
<1>1. \A k \in Keys : a[k] = IF k \in Examined(ks) THEN Looked(k) ELSE bucket[k]
    BY DEF AfterAssert
<1>2. ASSUME NEW k \in Keys
      PROVE  /\ Looked(k) \in Bucket
             /\ Looked(k).attempts = Recent(k, bucket[k].attempts)
             /\ bucket[k] = NoBucket => Looked(k) = NoBucket
    <2>1. bucket[k].attempts \subseteq Attempt
        BY <1>0 DEF Bucket
    <2>2. Recent(k, bucket[k].attempts) \subseteq bucket[k].attempts
        BY DEF Recent
    <2>3. bucket[k] = NoBucket => Recent(k, bucket[k].attempts) = {}
        BY <2>2 DEF NoBucket
    <2> QED BY <1>0, <2>1, <2>2, <2>3 DEF Looked, Bucket, NoBucket
<1>3. a \in [Keys -> Bucket]
    BY <1>0, <1>2 DEF AfterAssert
<1>4. ASSUME NEW table \in Tables
      PROVE  Tracked(a, table) \subseteq Tracked(bucket, table)
    BY <1>1, <1>2, GuardTypes DEF Tracked
<1>5. Sparse(a)
    BY <1>4, SparserStill DEF MemoryHolds
<1>6. ASSUME NEW k \in Keys
      PROVE  /\ Recent(k, a[k].attempts) = Recent(k, bucket[k].attempts)
             /\ IsFiniteSet(a[k].attempts)
             /\ Covers(k, a[k].attempts, Len(counted))
    <2>1. IsFiniteSet(bucket[k].attempts) /\ Covers(k, bucket[k].attempts, Len(counted))
        BY DEF MemoryHolds, Image, Within
    <2>2. CASE k \notin Examined(ks)
        BY <1>1, <2>1, <2>2
    <2>3. CASE k \in Examined(ks)
        <3>1. a[k].attempts = Recent(k, bucket[k].attempts)
            BY <1>1, <1>2, <2>3
        <3>2. Recent(k, Recent(k, bucket[k].attempts)) = Recent(k, bucket[k].attempts)
              /\ Recent(k, bucket[k].attempts) \in SUBSET bucket[k].attempts
            BY DEF Recent
        <3>3. IsFiniteSet(a[k].attempts)
            BY <2>1, <3>1, <3>2, FewerAttempts
        <3>4. \A i \in Against(k) : Nth(i).at + Window[k] > now
            BY DEF Against, Nth
        <3>5. Covers(k, a[k].attempts, Len(counted))
            BY <2>1, <3>1, <3>4 DEF Covers, Recent
        <3> QED BY <3>1, <3>2, <3>3, <3>5
    <2> QED BY <2>2, <2>3
<1> QED BY <1>3, <1>5, <1>6

\* Recording adds the attempt that is counted to the windows of its keys.
LEMMA RecordedBuckets ==
    ASSUME GuardTypeOK, counted \in Seq(Counted), NEW ks, NEW a \in [Keys -> Bucket], NEW r, r = AfterRecord(a, ks)
    PROVE  /\ r \in [Keys -> Bucket]
           /\ \A k \in Keys :
                /\ k \notin KeysIn(ks) => r[k] = a[k]
                /\ k \in KeysIn(ks) => r[k].attempts = Recent(k, a[k].attempts) \union {NewAttempt}
           /\ \A table \in Tables :
                Tracked(r, table) \subseteq Tracked(a, table) \union (KeysIn(ks) \intersect table)
<1>0. Len(counted) \in Nat /\ now \in Instant /\ 0 \in Instant
    BY GuardTypes DEF GuardTypeOK, Bucket, NoBucket
<1>1. NewAttempt \in Attempt
    BY <1>0 DEF Attempt, NewAttempt
<1>2. \A k \in Keys : r[k] = IF k \in KeysIn(ks) THEN Record1(a, k) ELSE a[k]
    BY DEF AfterRecord
<1>3. ASSUME NEW k \in Keys
      PROVE  /\ Record1(a, k) \in Bucket
             /\ Record1(a, k).attempts = Recent(k, a[k].attempts) \union {NewAttempt}
    <2>1. Recent(k, a[k].attempts) \subseteq Attempt
        BY DEF Recent, Bucket
    <2>2. Record1(a, k) = [attempts |-> Recent(k, a[k].attempts) \union {NewAttempt},
                           seen |-> IF k[2] = Everyone THEN 0 ELSE now]
        BY DEF Record1
    <2> QED BY <1>0, <1>1, <2>1, <2>2 DEF Bucket
<1>4. r \in [Keys -> Bucket]
    BY <1>3 DEF AfterRecord
<1>5. \A table \in Tables :
        Tracked(r, table) \subseteq Tracked(a, table) \union (KeysIn(ks) \intersect table)
    BY <1>2, GuardTypes DEF Tracked
<1> QED BY <1>2, <1>3, <1>4, <1>5

LEMMA RecordedCounts ==
    ASSUME HistoryGrows, NEW ks, Count(ks), NEW k \in Keys,
           NEW attempts, IsFiniteSet(attempts), Covers(k, attempts, Len(counted)),
           NEW x, x = NewAttempt,
           NEW then, then = IF k \in KeysIn(ks) THEN Recent(k, attempts) \union {x} ELSE attempts
    PROVE  IsFiniteSet(then) /\ Covers(k, then, Len(counted))'
<1>0. /\ Len(counted) \in Nat /\ counted \in Seq(Counted) /\ now' = now
      /\ counted' = Append(counted, [keys |-> KeysIn(ks), at |-> now])
    BY DEF HistoryGrows, Count
<1>1. PICK all : all = Len(counted)
    OBVIOUS
<1>2. Covers(k, attempts, all)' /\ all \in Nat
    BY <1>0, <1>1, CoversLater
<1>3. \A i \in Against(k)' : i \in 1..(all + 1)
    BY <1>0, <1>1 DEF Against
<1>4. CASE k \notin KeysIn(ks)
    <2>1. all + 1 \notin Against(k)'
        BY <1>0, <1>1, <1>4 DEF Against
    <2>2. Covers(k, attempts, Len(counted))'
        <3> SUFFICES ASSUME NEW i \in Against(k)' PROVE Nth(i)' \in attempts
            BY DEF Covers
        <3>1. i <= all
            BY <1>2, <1>3, <2>1
        <3> QED BY <1>2, <3>1 DEF Covers
    <2> QED BY <1>4, <2>2
<1>5. CASE k \in KeysIn(ks)
    <2>1. PICK recent : recent = Recent(k, attempts)
        OBVIOUS
    <2>2. recent \in SUBSET attempts /\ then = recent \union {x}
        BY <1>5, <2>1 DEF Recent
    <2>3. IsFiniteSet(then)
        BY <2>2, OneAttemptMore, FewerAttempts
    <2>4. Covers(k, recent \union {x}, Len(counted))'
        <3> SUFFICES ASSUME NEW i \in Against(k)' PROVE Nth(i)' \in recent \union {x}
            BY DEF Covers
        <3>1. CASE i <= all
            <4>1. Nth(i)' \in attempts
                BY <1>2, <3>1 DEF Covers
            <4>2. Nth(i)'.at + Window[k] > now
                BY <1>0 DEF Against, Nth
            <4> QED BY <2>1, <4>1, <4>2 DEF Recent
        <3>2. CASE ~(i <= all)
            <4>1. i = all + 1
                BY <1>2, <1>3, <3>2
            <4>2. counted'[i].at = now
                BY <1>0, <1>1, <4>1
            <4>3. Nth(i)' = x
                BY <1>1, <4>1, <4>2 DEF Nth, NewAttempt
            <4> QED BY <4>3
        <3> QED BY <3>1, <3>2
    <2> QED BY <2>2, <2>3, <2>4
<1> QED BY <1>4, <1>5

LEMMA Recorded ==
    ASSUME GuardTypeOK, HistoryGrows, NEW ks, Count(ks),
           NEW a \in [Keys -> Bucket], NEW r, r = AfterRecord(a, ks),
           NEW k \in Keys, IsFiniteSet(a[k].attempts), Covers(k, a[k].attempts, Len(counted))
    PROVE  IsFiniteSet(r[k].attempts) /\ Covers(k, r[k].attempts, Len(counted))'
<1>1. PICK attempts, then, x : attempts = a[k].attempts /\ then = r[k].attempts /\ x = NewAttempt
    OBVIOUS
<1>2. then = IF k \in KeysIn(ks) THEN Recent(k, attempts) \union {x} ELSE attempts
    <2>1. counted \in Seq(Counted)
        BY DEF HistoryGrows
    <2>2. /\ k \notin KeysIn(ks) => r[k] = a[k]
          /\ k \in KeysIn(ks) => r[k].attempts = Recent(k, a[k].attempts) \union {NewAttempt}
        BY <2>1, RecordedBuckets
    <2> QED BY <1>1, <2>2
<1>3. IsFiniteSet(then) /\ Covers(k, then, Len(counted))'
    BY <1>1, <1>2, RecordedCounts
<1> QED BY <1>1, <1>3

\* What is evicted or forgiven does not count any more.
LEMMA Dropped ==
    ASSUME NEW r \in [Keys -> Bucket], NEW gone, NEW f, f = Without(r, gone),
           HistoryGrows, Forget(gone),
           \A k \in Keys \ gone : Covers(k, r[k].attempts, Len(counted))'
    PROVE  /\ f \in [Keys -> Bucket]
           /\ \A table \in Tables : Tracked(f, table) = Tracked(r, table) \ gone
           /\ \A k \in Keys :
                /\ f[k].attempts \subseteq r[k].attempts
                /\ Covers(k, f[k].attempts, Len(counted))'
                /\ k \notin gone => f[k] = r[k]
<1>1. \A k \in Keys : f[k] = IF k \in gone THEN NoBucket ELSE r[k]
    BY DEF Without
<1>2. f \in [Keys -> Bucket]
    BY GuardTypes DEF Without
<1>3. \A table \in Tables : Tracked(f, table) = Tracked(r, table) \ gone
    BY <1>1, GuardTypes DEF Tracked
<1>4. ASSUME NEW k \in Keys
      PROVE  f[k].attempts \subseteq r[k].attempts /\ Covers(k, f[k].attempts, Len(counted))'
    <2>1. CASE k \notin gone
        BY <1>1, <2>1
    <2>2. CASE k \in gone
        <3>1. f[k].attempts = {}
            BY <1>1, <2>2 DEF NoBucket
        <3>2. cleared'[k] = Len(counted') /\ Len(counted') \in Nat /\ DOMAIN counted' = 1..Len(counted')
            BY <2>2 DEF Forget, HistoryGrows
        <3>3. Against(k)' = {}
            BY <3>2 DEF Against
        <3> QED BY <3>1, <3>3 DEF Covers
    <2> QED BY <2>1, <2>2
<1> QED BY <1>1, <1>2, <1>3, <1>4

-----------------------------------------------------------------------------
(***************************************************************************)
(* Each step preserves the invariant                                       *)
(***************************************************************************)
\* Nobody in the way counts for a key but the logins that have started.
LEMMA InProgressFinite ==
    ASSUME GuardTypeOK, NEW k \in Keys
    PROVE  /\ IsFiniteSet(InProgress(k)) /\ InProgress(k) \subseteq Logins
           /\ Cardinality(InProgress(k)) \in Nat /\ Cardinality(InProgress(k)) <= Cardinality(Logins)
           /\ k[1] # "login" => InProgress(k) = {}
<1>1. InProgress(k) \in SUBSET Logins
    BY DEF InProgress
<1>2. IsFiniteSet(Logins)
    BY GuardTypes
<1>3. ASSUME k[1] # "login", NEW c \in InProgress(k) PROVE FALSE
    <2>1. login[c] \in LoginRequest /\ k \in KeysIn(LoginKeys(login[c].ident, login[c].source))
        BY DEF InProgress, Counting, GuardTypeOK
    <2>2. k \in {<<"login", Everyone>>, <<"login", login[c].ident>>, <<"login", login[c].source>>}
        BY <2>1, KeysOfRequests DEF LoginRequest
    <2> QED BY <1>3, <2>2
<1>4. k[1] # "login" => InProgress(k) = {}
    BY <1>3
<1> QED BY <1>1, <1>2, <1>4, FewerAttempts

\* A login in progress counts for its keys.
LEMMA CountsFor ==
    ASSUME GuardTypeOK, NEW c \in Logins, login[c] # NoLogin
    PROVE  /\ login[c].ident \in Idents /\ login[c].source \in Sources
           /\ Counting(login[c]) = KeysIn(LoginKeys(login[c].ident, login[c].source))
           /\ Counting(NoLogin) = {}
BY DEF GuardTypeOK, LoginRequest, Counting

\* It does not any more when it ends.
LEMMA EndsCounting ==
    ASSUME GuardTypeOK, NEW c \in Logins, Ends(c), NEW k \in Keys
    PROVE  InProgress(k)' = InProgress(k) \ {c}
<1>1. login' = [login EXCEPT ![c] = NoLogin] /\ login \in [Logins -> LoginRequest \union {NoLogin}]
    BY DEF Ends, GuardTypeOK
<1>2. \A d \in Logins : login'[d] = IF d = c THEN NoLogin ELSE login[d]
    BY <1>1
<1> QED BY <1>2 DEF InProgress, Counting

\* The history of a request: what it counts, and what it drops, is at the end.
LEMMA Grows ==
    ASSUME GuardTypeOK, now' = now, settled' = settled, lost' = lost,
           NEW ks, KeysIn(ks) \subseteq Keys, counted' = counted \/ Count(ks),
           NEW gone, Forget(gone) \/ (cleared' = cleared /\ counted' = counted)
    PROVE  /\ HistoryGrows
           /\ lost' \subseteq DOMAIN counted' /\ cleared' \in [Keys -> 0..Len(counted')]
<1> DEFINE x == [keys |-> KeysIn(ks), at |-> now]
<1>0. /\ counted \in Seq(Counted) /\ Len(counted) \in Nat /\ settled \in 0..Len(counted)
      /\ lost \subseteq 1..Len(counted) /\ cleared \in [Keys -> 0..Len(counted)] /\ now \in Instant
      /\ DOMAIN counted = 1..Len(counted)
    BY DEF GuardTypeOK, Counted
<1>1. x \in Counted
    BY <1>0 DEF Counted
<1>2. counted' = counted \/ counted' = Append(counted, x)
    BY DEF Count
<1>3. /\ counted' \in Seq(Counted) /\ Len(counted') \in Nat /\ Len(counted) <= Len(counted')
      /\ DOMAIN counted' = 1..Len(counted')
      /\ \A i \in DOMAIN counted : counted'[i] = counted[i]
    <2> HIDE DEF x
    <2> QED BY <1>0, <1>1, <1>2
<1>4. \A k \in Keys : cleared'[k] \in 0..Len(counted') /\ cleared[k] <= cleared'[k]
    BY <1>0, <1>3 DEF Forget
<1>5. cleared' \in [Keys -> 0..Len(counted')]
    BY <1>0, <1>3 DEF Forget
<1>6. ASSUME NEW k \in Keys, NEW i \in Against(k)', i <= Len(counted)
      PROVE  i \in Against(k)
    <2>1. i \in 1..Len(counted') /\ k \in counted'[i].keys /\ counted'[i].at + Window[k] > now
          /\ i \notin lost /\ i > cleared'[k]
        BY <1>3 DEF Against
    <2>2. i \in DOMAIN counted /\ counted'[i] = counted[i]
        BY <1>0, <1>3, <1>6, <2>1
    <2>3. i > cleared[k]
        BY <1>0, <1>3, <1>4, <2>1
    <2> QED BY <2>1, <2>2, <2>3 DEF Against
<1> QED BY <1>0, <1>3, <1>5, <1>6 DEF HistoryGrows

\* A step that updates the windows to b, with room for the logins in progress
LEMMA UpdateStep ==
    ASSUME GuardIInv, HistoryGrows,
           NEW b \in [Keys -> Bucket], NEW gone, NEW persist \in BOOLEAN,
           Update(b, gone, persist), persist \/ counted' = counted,
           Sparse(b),
           \A k \in Keys :
                /\ IsFiniteSet(b[k].attempts)
                /\ Covers(k, b[k].attempts, Len(counted))'
                /\ Cardinality(Recent(k, b[k].attempts)) + Cardinality(InProgress(k)') <= Limit[k] + Overshoot(k),
           login' \in [Logins -> LoginRequest \union {NoLogin}],
           requests' \in 0..MaxRequests,
           lost' \subseteq DOMAIN counted', cleared' \in [Keys -> 0..Len(counted')]
    PROVE  GuardIInv'
<1>0. bucket' = b /\ writing' = writing /\ disk' = disk /\ now' = now /\ settled' = settled
    BY DEF Update, HistoryGrows
<1>1. ASSUME NEW k \in Keys
      PROVE  /\ Cardinality(InProgress(k)') \in Nat
             /\ Within(k, b[k].attempts)'
    <2>1. InProgress(k)' \in SUBSET Logins
        BY DEF InProgress
    <2>2. Cardinality(InProgress(k)') \in Nat
        BY <2>1, GuardTypes, FewerAttempts
    <2>3. PICK attempts : attempts = b[k].attempts
        OBVIOUS
    <2>4. Recent(k, attempts) \in SUBSET attempts /\ IsFiniteSet(attempts)
        BY <2>3 DEF Recent
    <2>5. Cardinality(Recent(k, attempts)) \in Nat
        BY <2>4, FewerAttempts
    <2>6. Cardinality(Recent(k, attempts)) <= Limit[k] + Overshoot(k)
        BY <2>2, <2>3, <2>5, GuardTypes
    <2>7. Within(k, attempts)'
        BY <1>0, <2>4, <2>6, WithinLater DEF Within
    <2> QED BY <2>2, <2>3, <2>7
<1>2. Image(b, Len(counted))'
    BY <1>1 DEF Image
<1>3. /\ MemoryHolds' /\ WaitingHold' /\ WritingHolds' /\ FileHolds'
      /\ writes' \in Seq(Snapshot)
    BY <1>2, Persisted DEF GuardIInv
<1>4. Room'
    <2> SUFFICES ASSUME NEW k \in Keys
                 PROVE  (Cardinality(Recent(k, bucket[k].attempts)) + Cardinality(InProgress(k))
                            <= Limit[k] + Overshoot(k))'
        BY DEF Room
    <2>1. Recent(k, bucket[k].attempts)' = Recent(k, b[k].attempts)
        BY <1>0 DEF Recent
    <2>2. Overshoot(k)' = Overshoot(k)
        BY DEF Overshoot
    <2> QED BY <2>1, <2>2
<1>5. GuardTypeOK'
    <2>1. \A table \in Tables : Cardinality(Tracked(bucket, table)') <= Most(table)
        BY <1>3 DEF MemoryHolds, Sparse
    <2>2. counted' \in Seq(Counted) /\ settled' \in 0..Len(counted')
        BY <1>0 DEF HistoryGrows
    <2> QED BY <1>0, <1>3, <2>1, <2>2 DEF GuardTypeOK, GuardIInv, Counted
<1> QED BY <1>3, <1>4, <1>5 DEF GuardIInv

\* A check lets a login through while there is room for one more at least.
LEMMA StartLoginStep ==
    ASSUME GuardIInv, NEW c \in Logins, NEW u \in Idents, NEW s \in Sources, StartLogin(c, u, s)
    PROVE  GuardIInv'
<1>0. /\ GuardTypeOK /\ MemoryHolds /\ Room
      /\ now' = now /\ counted' = counted /\ settled' = settled /\ lost' = lost /\ cleared' = cleared
    BY DEF GuardIInv, StartLogin, guardHistory
<1>1. PICK ks : ks = LoginKeys(u, s)
    OBVIOUS
<1>2. KeysIn(ks) \subseteq Keys /\ KeysIn(ks) = {<<"login", Everyone>>, <<"login", u>>, <<"login", s>>}
    BY <1>1, KeysOfRequests
<1>3. HistoryGrows /\ lost' \subseteq DOMAIN counted' /\ cleared' \in [Keys -> 0..Len(counted')]
    BY <1>0, <1>2, Grows
<1>4. PICK a : a = AfterAssert(ks)
    OBVIOUS
<1>5. /\ a \in [Keys -> Bucket] /\ Sparse(a)
      /\ \A k \in Keys :
            /\ Recent(k, a[k].attempts) = Recent(k, bucket[k].attempts)
            /\ IsFiniteSet(a[k].attempts)
            /\ Covers(k, a[k].attempts, Len(counted))
    BY <1>0, <1>4, Asserted
<1>6. PICK gone, persist : gone = Emptied(ks) /\ persist = (Emptied(ks) # {})
    OBVIOUS
<1>7. persist \in BOOLEAN /\ Update(a, gone, persist)
    BY <1>1, <1>4, <1>6 DEF StartLogin, AssertAllowed
<1>8. ASSUME NEW k \in Keys
      PROVE  Covers(k, a[k].attempts, Len(counted))'
    <2>1. PICK attempts : attempts = a[k].attempts
        OBVIOUS
    <2>2. PICK all : all = Len(counted)
        OBVIOUS
    <2>3. Covers(k, attempts, all)'
        BY <1>3, <1>5, <2>1, <2>2, CoversLater DEF HistoryGrows
    <2> QED BY <1>0, <2>1, <2>2, <2>3
<1>9. requests' \in 0..MaxRequests
    BY <1>0, GuardAssumption DEF StartLogin, Arrive, GuardTypeOK
<1>10. login' \in [Logins -> LoginRequest \union {NoLogin}]
    BY <1>0 DEF StartLogin, Begin, GuardTypeOK, LoginRequest
<1>11. ASSUME NEW k \in Keys
       PROVE  Cardinality(Recent(k, a[k].attempts)) + Cardinality(InProgress(k)') <= Limit[k] + Overshoot(k)
    <2>1. Cardinality(Recent(k, bucket[k].attempts)) + Cardinality(InProgress(k)) <= Limit[k] + Overshoot(k)
        BY <1>0 DEF Room
    <2>2. CASE InProgress(k)' \subseteq InProgress(k)
        <3>1. Cardinality(InProgress(k)') <= Cardinality(InProgress(k))
              /\ Cardinality(InProgress(k)') \in Nat /\ Cardinality(InProgress(k)) \in Nat
            BY <1>0, <2>2, InProgressFinite, FewerAttempts
        <3>2. IsFiniteSet(bucket[k].attempts) /\ Recent(k, bucket[k].attempts) \in SUBSET bucket[k].attempts
            BY <1>0 DEF MemoryHolds, Image, Within, Recent
        <3>3. Cardinality(Recent(k, bucket[k].attempts)) \in Nat
            BY <3>2, FewerAttempts
        <3> QED BY <1>5, <2>1, <3>1, <3>3, GuardTypes
    <2>3. CASE ~(InProgress(k)' \subseteq InProgress(k))
        <3>1. Admitted(ks) /\ Begin(c, u, s)
            <4>1. \/ Admitted(ks) /\ Begin(c, u, s)
                  \/ login' = login
                BY <1>1 DEF StartLogin
            <4>2. login' # login
                BY <2>3 DEF InProgress
            <4> QED BY <4>1, <4>2
        <3>2. \A d \in Logins : d # c => login'[d] = login[d]
            BY <1>0, <3>1 DEF Begin, GuardTypeOK
        <3>3. login'[c] = [ident |-> u, source |-> s]
            BY <1>0, <3>1 DEF Begin, GuardTypeOK
        <3>4. k \in Counting(login'[c])
            BY <2>3, <3>2 DEF InProgress
        <3>5. k \in KeysIn(ks)
            BY <1>1, <1>2, <3>3, <3>4 DEF Counting
        <3>6. ~(Cardinality(Recent(k, bucket[k].attempts)) >= Limit[k])
            BY <3>1, <3>5 DEF Admitted, Full
        <3>7. Overshoot(k) = Cardinality(Logins) - 1
            BY <1>2, <3>5 DEF Overshoot
        <3>8. InProgress(k)' \in SUBSET Logins
            BY DEF InProgress
        <3>9. Cardinality(InProgress(k)') <= Cardinality(Logins) /\ Cardinality(InProgress(k)') \in Nat
            BY <3>8, GuardTypes, FewerAttempts
        <3>10. IsFiniteSet(bucket[k].attempts) /\ Recent(k, bucket[k].attempts) \in SUBSET bucket[k].attempts
            BY <1>0 DEF MemoryHolds, Image, Within, Recent
        <3>11. Cardinality(Recent(k, bucket[k].attempts)) \in Nat
            BY <3>10, FewerAttempts
        <3> QED BY <1>5, <3>6, <3>7, <3>9, <3>11, GuardTypes
    <2> QED BY <2>2, <2>3
<1> QED BY <1>0, <1>3, <1>5, <1>7, <1>8, <1>9, <1>10, <1>11, UpdateStep

\* A success only drops what counts for its identifier.
LEMMA SucceedStep ==
    ASSUME GuardIInv, NEW c \in Logins, Succeed(c)
    PROVE  GuardIInv'
<1>0. /\ GuardTypeOK /\ MemoryHolds /\ Room
      /\ now' = now /\ counted' = counted /\ settled' = settled /\ lost' = lost /\ requests' = requests
      /\ Ends(c)
    BY DEF GuardIInv, Succeed
<1>1. PICK k0 : k0 = <<"login", login[c].ident>>
    OBVIOUS
<1>2. PICK gone, persist : gone = {k0} /\ persist = (bucket[k0] # NoBucket)
    OBVIOUS
<1>3. persist \in BOOLEAN /\ Update(Without(bucket, gone), gone, persist) /\ Forget(gone)
    BY <1>1, <1>2 DEF Succeed
<1>4. HistoryGrows /\ lost' \subseteq DOMAIN counted' /\ cleared' \in [Keys -> 0..Len(counted')]
    <2>1. PICK s : s \in Sources
        BY <1>0, CountsFor DEF Ends
    <2> QED BY <1>0, <1>3, <2>1, KeysOfRequests, Grows
<1>5. PICK r, f : r = bucket /\ f = Without(r, gone)
    OBVIOUS
<1>6. r \in [Keys -> Bucket] /\ Sparse(r) /\ Update(f, gone, persist)
    BY <1>0, <1>3, <1>5 DEF GuardTypeOK, MemoryHolds
<1>7. ASSUME NEW k \in Keys
      PROVE  Covers(k, r[k].attempts, Len(counted))' /\ IsFiniteSet(r[k].attempts)
    <2>1. PICK attempts : attempts = r[k].attempts
        OBVIOUS
    <2>2. PICK all : all = Len(counted)
        OBVIOUS
    <2>3. Covers(k, attempts, all) /\ IsFiniteSet(attempts)
        BY <1>0, <1>5, <2>1, <2>2 DEF MemoryHolds, Image, Within
    <2>4. Covers(k, attempts, all)'
        BY <1>4, <2>2, <2>3, CoversLater DEF HistoryGrows
    <2> QED BY <1>0, <2>1, <2>2, <2>3, <2>4
<1>8. /\ f \in [Keys -> Bucket]
      /\ \A table \in Tables : Tracked(f, table) = Tracked(r, table) \ gone
      /\ \A k \in Keys :
            /\ f[k].attempts \subseteq r[k].attempts
            /\ Covers(k, f[k].attempts, Len(counted))'
    BY <1>3, <1>4, <1>5, <1>6, <1>7, Dropped
<1>9. Sparse(f)
    BY <1>6, <1>8, SparserStill
<1>10. ASSUME NEW k \in Keys
       PROVE  /\ IsFiniteSet(f[k].attempts)
              /\ Cardinality(Recent(k, f[k].attempts)) + Cardinality(InProgress(k)') <= Limit[k] + Overshoot(k)
    <2>1. Cardinality(Recent(k, r[k].attempts)) + Cardinality(InProgress(k)) <= Limit[k] + Overshoot(k)
        BY <1>0, <1>5 DEF Room
    <2>2. IsFiniteSet(f[k].attempts)
        BY <1>7, <1>8, FewerAttempts
    <2>3. Recent(k, f[k].attempts) \in SUBSET Recent(k, r[k].attempts) /\ Recent(k, r[k].attempts) \in SUBSET r[k].attempts
        BY <1>8 DEF Recent
    <2>4. IsFiniteSet(Recent(k, r[k].attempts))
        BY <1>7, <2>3, FewerAttempts
    <2>5. Cardinality(Recent(k, f[k].attempts)) <= Cardinality(Recent(k, r[k].attempts))
          /\ Cardinality(Recent(k, f[k].attempts)) \in Nat /\ Cardinality(Recent(k, r[k].attempts)) \in Nat
        BY <2>3, <2>4, FewerAttempts
    <2>6. InProgress(k)' \in SUBSET InProgress(k)
        BY <1>0, EndsCounting
    <2>7. Cardinality(InProgress(k)') <= Cardinality(InProgress(k))
          /\ Cardinality(InProgress(k)') \in Nat /\ Cardinality(InProgress(k)) \in Nat
        BY <1>0, <2>6, InProgressFinite, FewerAttempts
    <2> QED BY <2>1, <2>2, <2>5, <2>7, GuardTypes
<1>11. login' \in [Logins -> LoginRequest \union {NoLogin}] /\ requests' \in 0..MaxRequests
    BY <1>0 DEF Ends, GuardTypeOK
<1>12. f \in [Keys -> Bucket] /\ \A k \in Keys :
            /\ IsFiniteSet(f[k].attempts)
            /\ Covers(k, f[k].attempts, Len(counted))'
            /\ Cardinality(Recent(k, f[k].attempts)) + Cardinality(InProgress(k)') <= Limit[k] + Overshoot(k)
    BY <1>8, <1>10
<1> QED BY <1>0, <1>3, <1>4, <1>6, <1>9, <1>11, <1>12, UpdateStep

\* A failure counts once for each of its keys, in the place of its login in progress.
LEMMA FailStep ==
    ASSUME GuardIInv, NEW c \in Logins, Fail(c)
    PROVE  GuardIInv'
<1>0. /\ GuardTypeOK /\ MemoryHolds /\ Room
      /\ now' = now /\ settled' = settled /\ lost' = lost /\ requests' = requests
      /\ Ends(c) /\ login[c] # NoLogin
    BY DEF GuardIInv, Fail, Ends
<1>1. PICK u, s : u = login[c].ident /\ s = login[c].source
    OBVIOUS
<1>2. u \in Idents /\ s \in Sources
    BY <1>0, <1>1, CountsFor
<1>3. PICK ks, r : ks = LoginKeys(u, s) /\ r = AfterRecord(bucket, ks)
    OBVIOUS
<1>4. KeysIn(ks) \subseteq Keys
    BY <1>2, <1>3, KeysOfRequests
<1>5. PICK g \in Evictable(r, <<"login", u>>), h \in Evictable(r, <<"login", s>>) :
            /\ Update(Without(r, g \union h), g \union h, TRUE)
            /\ Count(ks)
            /\ Forget(g \union h)
    BY <1>1, <1>3 DEF Fail
<1>6. PICK gone : gone = g \union h
    OBVIOUS
<1>7. HistoryGrows /\ lost' \subseteq DOMAIN counted' /\ cleared' \in [Keys -> 0..Len(counted')]
    BY <1>0, <1>4, <1>5, <1>6, Grows
<1>8. PICK a, f : a = bucket /\ f = Without(r, gone)
    OBVIOUS
<1>9. /\ a \in [Keys -> Bucket] /\ Sparse(a)
      /\ \A k \in Keys : IsFiniteSet(a[k].attempts) /\ Covers(k, a[k].attempts, Len(counted))
    BY <1>0, <1>8 DEF GuardTypeOK, MemoryHolds, Image, Within
<1>10. /\ r \in [Keys -> Bucket]
       /\ \A table \in Tables :
            Tracked(r, table) \subseteq Tracked(a, table) \union (KeysIn(ks) \intersect table)
       /\ \A k \in Keys :
            /\ IsFiniteSet(r[k].attempts)
            /\ Covers(k, r[k].attempts, Len(counted))'
            /\ k \notin KeysIn(ks) => r[k] = a[k]
            /\ k \in KeysIn(ks) =>
                    Recent(k, r[k].attempts) \subseteq Recent(k, a[k].attempts) \union {NewAttempt}
    <2>1. GuardTypeOK /\ Count(ks) /\ r = AfterRecord(a, ks)
        BY <1>0, <1>3, <1>5, <1>8
    <2>2. /\ r \in [Keys -> Bucket]
          /\ \A k \in Keys :
                /\ k \notin KeysIn(ks) => r[k] = a[k]
                /\ k \in KeysIn(ks) => r[k].attempts = Recent(k, a[k].attempts) \union {NewAttempt}
          /\ \A table \in Tables :
                Tracked(r, table) \subseteq Tracked(a, table) \union (KeysIn(ks) \intersect table)
        BY <1>7, <1>9, <2>1, RecordedBuckets DEF HistoryGrows
    <2>3. ASSUME NEW k \in Keys
          PROVE  IsFiniteSet(r[k].attempts) /\ Covers(k, r[k].attempts, Len(counted))'
        BY <1>7, <1>9, <2>1, Recorded
    <2> QED BY <2>2, <2>3 DEF Recent
<1>11. /\ f \in [Keys -> Bucket]
       /\ \A table \in Tables : Tracked(f, table) = Tracked(r, table) \ gone
       /\ \A k \in Keys :
            /\ f[k].attempts \subseteq r[k].attempts
            /\ Covers(k, f[k].attempts, Len(counted))'
    <2>1. Forget(gone) /\ f = Without(r, gone)
        BY <1>5, <1>6, <1>8
    <2>2. r \in [Keys -> Bucket] /\ \A k \in Keys \ gone : Covers(k, r[k].attempts, Len(counted))'
        BY <1>10
    <2> QED BY <1>7, <2>1, <2>2, Dropped
<1>12. Sparse(f)
    <2> SUFFICES ASSUME NEW table \in Tables
                 PROVE  IsFiniteSet(Tracked(f, table)) /\ Cardinality(Tracked(f, table)) <= Most(table)
        BY DEF Sparse
    <2>1. IsFiniteSet(Tracked(a, table)) /\ Cardinality(Tracked(a, table)) <= Most(table) /\ Most(table) \in Nat
        BY <1>9, GuardTypes DEF Sparse
    <2>2. CASE KeysIn(ks) \intersect table = {}
        <3>1. Tracked(f, table) \in SUBSET Tracked(a, table)
            BY <1>10, <1>11, <2>2
        <3> QED BY <2>1, <3>1, FewerAttempts
    <2>3. CASE \E k \in {<<"login", u>>, <<"login", s>>} :
                    KeysIn(ks) \intersect table = {k} /\ Table(k) = table
        <3>1. PICK k \in {<<"login", u>>, <<"login", s>>} :
                    KeysIn(ks) \intersect table = {k} /\ Table(k) = table
            BY <2>3
        <3>2. PICK e \in Evictable(r, k) : e \subseteq gone
            BY <1>5, <1>6, <3>1
        <3>3. Tracked(r, table) \subseteq Tracked(a, table) \union {k} /\ k \in table
            BY <1>10, <3>1
        <3>4. IsFiniteSet(Tracked(r, table) \ e) /\ Cardinality(Tracked(r, table) \ e) <= Most(table)
            BY <1>9, <3>1, <3>2, <3>3, EvictionMakesRoom
        <3>5. Tracked(f, table) \in SUBSET (Tracked(r, table) \ e)
            BY <1>11, <3>2
        <3> QED BY <2>1, <3>4, <3>5, FewerAttempts
    <2>4. \/ KeysIn(LoginKeys(u, s)) \intersect table = {}
          \/ \E k \in {<<"login", u>>, <<"login", s>>} :
                    KeysIn(LoginKeys(u, s)) \intersect table = {k} /\ Table(k) = table
        BY <1>2, OneLoginInEachTable
    <2> QED BY <1>3, <2>2, <2>3, <2>4
<1>13. ASSUME NEW k \in Keys
       PROVE  /\ IsFiniteSet(f[k].attempts)
              /\ Cardinality(Recent(k, f[k].attempts)) + Cardinality(InProgress(k)') <= Limit[k] + Overshoot(k)
    <2> DEFINE old == Recent(k, a[k].attempts)
               new == Recent(k, f[k].attempts)
    <2>1. Cardinality(old) + Cardinality(InProgress(k)) <= Limit[k] + Overshoot(k)
        BY <1>0, <1>8 DEF Room
    <2>2. IsFiniteSet(f[k].attempts)
        BY <1>10, <1>11, FewerAttempts
    <2>3. new \subseteq Recent(k, r[k].attempts) /\ old \in SUBSET a[k].attempts
        BY <1>11 DEF Recent
    <2>4. IsFiniteSet(old) /\ Cardinality(old) \in Nat
        BY <1>9, <2>3, FewerAttempts
    <2>5. InProgress(k)' = InProgress(k) \ {c} /\ IsFiniteSet(InProgress(k)) /\ Cardinality(InProgress(k)) \in Nat
        BY <1>0, EndsCounting, InProgressFinite
    <2>6. CASE k \notin KeysIn(ks)
        <3>1. new \in SUBSET old
            BY <1>10, <2>3, <2>6
        <3>2. InProgress(k)' \in SUBSET InProgress(k)
            BY <2>5
        <3>3. Cardinality(InProgress(k)') <= Cardinality(InProgress(k)) /\ Cardinality(InProgress(k)') \in Nat
            BY <2>5, <3>2, FewerAttempts
        <3>4. Cardinality(new) <= Cardinality(old) /\ Cardinality(new) \in Nat
            <4> HIDE DEF old, new
            <4> QED BY <2>4, <3>1, FewerAttempts
        <3>5. Cardinality(new) + Cardinality(InProgress(k)') <= Limit[k] + Overshoot(k)
            <4> HIDE DEF old, new
            <4> QED BY <2>1, <2>4, <2>5, <3>3, <3>4, GuardTypes
        <3> QED BY <2>2, <3>5
    <2>7. CASE k \in KeysIn(ks)
        <3>1. new \subseteq old \union {NewAttempt}
            BY <1>10, <2>3, <2>7
        <3>2. c \in InProgress(k)
            BY <1>0, <1>1, <1>3, <2>7, CountsFor DEF InProgress
        <3>3. Cardinality(InProgress(k)') = Cardinality(InProgress(k)) - 1
            BY <2>5, <3>2, FS_RemoveElement
        <3>4. Cardinality(new) <= Cardinality(old) + 1 /\ Cardinality(new) \in Nat
            <4> HIDE DEF old, new
            <4> QED BY <2>4, <3>1, OneAttemptMore
        <3>5. Cardinality(new) + Cardinality(InProgress(k)') <= Limit[k] + Overshoot(k)
            <4> HIDE DEF old, new
            <4> QED BY <2>1, <2>4, <2>5, <3>3, <3>4, GuardTypes
        <3> QED BY <2>2, <3>5
    <2> QED BY <2>6, <2>7
<1>14. login' \in [Logins -> LoginRequest \union {NoLogin}] /\ requests' \in 0..MaxRequests
    BY <1>0 DEF Ends, GuardTypeOK
<1>15. f \in [Keys -> Bucket] /\ \A k \in Keys :
            /\ IsFiniteSet(f[k].attempts)
            /\ Covers(k, f[k].attempts, Len(counted))'
            /\ Cardinality(Recent(k, f[k].attempts)) + Cardinality(InProgress(k)') <= Limit[k] + Overshoot(k)
    BY <1>11, <1>13
<1>16. PICK persist : persist = TRUE
    OBVIOUS
<1>17. Update(f, gone, persist) /\ persist \in BOOLEAN /\ persist
    BY <1>5, <1>6, <1>8, <1>16
<1> QED BY <1>7, <1>12, <1>14, <1>15, <1>17, UpdateStep

\* A sign-up counts with its check.
LEMMA SignupStep ==
    ASSUME GuardIInv, NEW s \in Sources, CountSignup(s)
    PROVE  GuardIInv'
<1>0. /\ GuardTypeOK /\ MemoryHolds /\ Room
      /\ now' = now /\ settled' = settled /\ lost' = lost /\ login' = login /\ Arrive
    BY DEF GuardIInv, CountSignup
<1>1. PICK ks, a : ks = SignupKeys(s) /\ a = AfterAssert(ks)
    OBVIOUS
<1>2. KeysIn(ks) \subseteq Keys /\ KeysIn(ks) = {<<"signup", Everyone>>, <<"signup", s>>}
    BY <1>1, KeysOfRequests
<1>3. /\ a \in [Keys -> Bucket] /\ Sparse(a)
      /\ \A k \in Keys :
            /\ Recent(k, a[k].attempts) = Recent(k, bucket[k].attempts)
            /\ IsFiniteSet(a[k].attempts)
            /\ Covers(k, a[k].attempts, Len(counted))
    BY <1>0, <1>1, Asserted
<1>4. login' \in [Logins -> LoginRequest \union {NoLogin}] /\ requests' \in 0..MaxRequests
      /\ \A k \in Keys : InProgress(k)' = InProgress(k)
    BY <1>0, GuardAssumption DEF Arrive, GuardTypeOK, InProgress
<1>5. ASSUME NEW k \in Keys
      PROVE  /\ Cardinality(Recent(k, a[k].attempts)) \in Nat /\ IsFiniteSet(Recent(k, a[k].attempts))
             /\ Cardinality(InProgress(k)) \in Nat
             /\ Cardinality(Recent(k, a[k].attempts)) + Cardinality(InProgress(k)) <= Limit[k] + Overshoot(k)
    <2>1. Recent(k, a[k].attempts) \in SUBSET a[k].attempts
        BY DEF Recent
    <2> QED BY <1>0, <1>3, <2>1, FewerAttempts, InProgressFinite DEF Room
<1>6. CASE ~Admitted(ks)
    <2>1. AssertAllowed(ks) /\ counted' = counted /\ cleared' = cleared
        BY <1>1, <1>6 DEF CountSignup
    <2>2. HistoryGrows /\ lost' \subseteq DOMAIN counted' /\ cleared' \in [Keys -> 0..Len(counted')]
        BY <1>0, <1>2, <2>1, Grows
    <2>3. PICK gone, persist : gone = Emptied(ks) /\ persist = (Emptied(ks) # {})
        OBVIOUS
    <2>4. persist \in BOOLEAN /\ Update(a, gone, persist)
        BY <1>1, <2>1, <2>3 DEF AssertAllowed
    <2>5. ASSUME NEW k \in Keys
          PROVE  Covers(k, a[k].attempts, Len(counted))'
        <3>1. PICK attempts, all : attempts = a[k].attempts /\ all = Len(counted)
            OBVIOUS
        <3>2. Covers(k, attempts, all)'
            BY <1>3, <2>2, <3>1, CoversLater DEF HistoryGrows
        <3> QED BY <2>1, <3>1, <3>2
    <2>6. a \in [Keys -> Bucket] /\ \A k \in Keys :
                /\ IsFiniteSet(a[k].attempts)
                /\ Covers(k, a[k].attempts, Len(counted))'
                /\ Cardinality(Recent(k, a[k].attempts)) + Cardinality(InProgress(k)') <= Limit[k] + Overshoot(k)
        BY <1>3, <1>4, <1>5, <2>5
    <2> QED BY <1>3, <1>4, <2>1, <2>2, <2>4, <2>6, UpdateStep
<1>7. CASE Admitted(ks)
    <2>1. PICK r : r = AfterRecord(a, ks)
        OBVIOUS
    <2>2. PICK g \in Evictable(r, <<"signup", s>>) :
            /\ Update(Without(r, g), Emptied(ks) \union g, TRUE)
            /\ Count(ks)
            /\ Forget(g)
        BY <1>1, <1>7, <2>1 DEF CountSignup
    <2>3. PICK f, gone, persist : f = Without(r, g) /\ gone = Emptied(ks) \union g /\ persist = TRUE
        OBVIOUS
    <2>4. Update(f, gone, persist) /\ persist \in BOOLEAN /\ persist
        BY <2>2, <2>3
    <2>5. HistoryGrows /\ lost' \subseteq DOMAIN counted' /\ cleared' \in [Keys -> 0..Len(counted')]
        BY <1>0, <1>2, <2>2, Grows
    <2>6. /\ r \in [Keys -> Bucket]
          /\ \A k \in Keys :
                /\ k \notin KeysIn(ks) => r[k] = a[k]
                /\ k \in KeysIn(ks) => r[k].attempts = Recent(k, a[k].attempts) \union {NewAttempt}
          /\ \A table \in Tables :
                Tracked(r, table) \subseteq Tracked(a, table) \union (KeysIn(ks) \intersect table)
        BY <1>0, <1>3, <2>1, <2>5, RecordedBuckets DEF HistoryGrows
    <2>7. ASSUME NEW k \in Keys
          PROVE  IsFiniteSet(r[k].attempts) /\ Covers(k, r[k].attempts, Len(counted))'
        BY <1>0, <1>3, <2>1, <2>2, <2>5, Recorded
    <2>8. /\ f \in [Keys -> Bucket]
          /\ \A table \in Tables : Tracked(f, table) = Tracked(r, table) \ g
          /\ \A k \in Keys :
                /\ f[k].attempts \subseteq r[k].attempts
                /\ Covers(k, f[k].attempts, Len(counted))'
        <3>1. Forget(g) /\ f = Without(r, g) /\ r \in [Keys -> Bucket]
              /\ \A k \in Keys \ g : Covers(k, r[k].attempts, Len(counted))'
            BY <2>2, <2>3, <2>6, <2>7
        <3> QED BY <2>5, <3>1, Dropped
    <2>9. Sparse(f)
        <3> SUFFICES ASSUME NEW table \in Tables
                     PROVE  IsFiniteSet(Tracked(f, table)) /\ Cardinality(Tracked(f, table)) <= Most(table)
            BY DEF Sparse
        <3>1. IsFiniteSet(Tracked(a, table)) /\ Cardinality(Tracked(a, table)) <= Most(table) /\ Most(table) \in Nat
            BY <1>3, GuardTypes DEF Sparse
        <3>2. CASE KeysIn(ks) \intersect table = {}
            <4>1. Tracked(f, table) \in SUBSET Tracked(a, table)
                BY <2>6, <2>8, <3>2
            <4> QED BY <3>1, <4>1, FewerAttempts
        <3>3. CASE KeysIn(ks) \intersect table = {<<"signup", s>>} /\ Table(<<"signup", s>>) = table
            <4>1. PICK k : k = <<"signup", s>>
                OBVIOUS
            <4>2. Tracked(r, table) \subseteq Tracked(a, table) \union {k} /\ k \in table
                  /\ Table(k) = table /\ g \in Evictable(r, k)
                BY <2>2, <2>6, <3>3, <4>1
            <4>3. IsFiniteSet(Tracked(r, table) \ g) /\ Cardinality(Tracked(r, table) \ g) <= Most(table)
                BY <1>3, <4>2, EvictionMakesRoom
            <4> QED BY <2>8, <4>3
        <3>4. \/ KeysIn(SignupKeys(s)) \intersect table = {}
              \/ KeysIn(SignupKeys(s)) \intersect table = {<<"signup", s>>} /\ Table(<<"signup", s>>) = table
            BY OneSignupInEachTable
        <3> QED BY <1>1, <3>2, <3>3, <3>4
    <2>10. ASSUME NEW k \in Keys
           PROVE  /\ IsFiniteSet(f[k].attempts)
                  /\ Cardinality(Recent(k, f[k].attempts)) + Cardinality(InProgress(k)') <= Limit[k] + Overshoot(k)
        <3> DEFINE old == Recent(k, a[k].attempts)
                   new == Recent(k, f[k].attempts)
        <3>1. IsFiniteSet(f[k].attempts)
            BY <2>7, <2>8, FewerAttempts
        <3>2. new \subseteq Recent(k, r[k].attempts)
            BY <2>8 DEF Recent
        <3>3. CASE k \notin KeysIn(ks)
            <4>1. new \in SUBSET old
                BY <2>6, <3>2, <3>3
            <4>2. Cardinality(new) <= Cardinality(old) /\ Cardinality(new) \in Nat
                <5>1. IsFiniteSet(old)
                    BY <1>5
                <5> HIDE DEF old, new
                <5> QED BY <4>1, <5>1, FewerAttempts
            <4>3. Cardinality(new) + Cardinality(InProgress(k)') <= Limit[k] + Overshoot(k)
                <5>1. Cardinality(old) \in Nat /\ Cardinality(InProgress(k)) \in Nat
                      /\ Cardinality(old) + Cardinality(InProgress(k)) <= Limit[k] + Overshoot(k)
                    BY <1>5
                <5> HIDE DEF old, new
                <5> QED BY <1>4, <4>2, <5>1, GuardTypes
            <4> QED BY <3>1, <4>3
        <3>4. CASE k \in KeysIn(ks)
            <4>1. new \in SUBSET (old \union {NewAttempt})
                BY <2>6, <3>2, <3>4 DEF Recent
            <4>2. Cardinality(new) <= Cardinality(old) + 1 /\ Cardinality(new) \in Nat
                <5>1. IsFiniteSet(old)
                    BY <1>5
                <5> HIDE DEF old, new
                <5> QED BY <4>1, <5>1, OneAttemptMore
            <4>3. k[1] # "login"
                BY <1>2, <3>4
            <4>4. Overshoot(k) = 0 /\ InProgress(k)' = {} /\ Cardinality(InProgress(k)') = 0
                BY <1>0, <1>4, <4>3, InProgressFinite, FS_EmptySet DEF Overshoot
            <4>5. ~(Cardinality(old) >= Limit[k]) /\ Cardinality(old) \in Nat
                BY <1>3, <1>5, <1>7, <3>4 DEF Admitted, Full
            <4>6. Cardinality(new) + Cardinality(InProgress(k)') <= Limit[k] + Overshoot(k)
                <5> HIDE DEF old, new
                <5> QED BY <4>2, <4>4, <4>5, GuardTypes
            <4> QED BY <3>1, <4>6
        <3> QED BY <3>3, <3>4
    <2>11. f \in [Keys -> Bucket] /\ \A k \in Keys :
                /\ IsFiniteSet(f[k].attempts)
                /\ Covers(k, f[k].attempts, Len(counted))'
                /\ Cardinality(Recent(k, f[k].attempts)) + Cardinality(InProgress(k)') <= Limit[k] + Overshoot(k)
        BY <2>8, <2>10
    <2> QED BY <1>4, <2>4, <2>5, <2>9, <2>11, UpdateStep
<1> QED BY <1>6, <1>7

\* What does not touch the windows, the clock or the history keeps every image.
LEMMA SameImage ==
    ASSUME NEW f, NEW upto, Image(f, upto), now' = now, counted' = counted, lost' = lost, cleared' = cleared
    PROVE  Image(f, upto)'
BY DEF Image, Within, Covers, Recent, Overshoot, Against, Nth

\* An image looks at the chain for nothing but how much it has to have.
LEMMA SameRoom ==
    ASSUME Room, now' = now, bucket' = bucket, login' = login
    PROVE  Room'
BY DEF Room, Recent, InProgress, Counting, Overshoot

LEMMA SerialiseStep ==
    ASSUME GuardIInv, Serialise
    PROVE  GuardIInv'
<1>0. /\ GuardTypeOK /\ now' = now /\ bucket' = bucket /\ writes' = writes /\ disk' = disk /\ login' = login
      /\ requests' = requests /\ counted' = counted /\ settled' = settled /\ lost' = lost /\ cleared' = cleared
      /\ writes # <<>> /\ writes \in Seq(Snapshot) /\ bucket \in [Keys -> Bucket]
    BY DEF GuardIInv, Serialise, guardHistory, GuardTypeOK
<1>1. PICK s, w : s = Head(writes) /\ w = Seen(s)
    OBVIOUS
<1>2. writing' = w /\ s = writes[1] /\ 1 \in DOMAIN writes /\ s \in Snapshot
    BY <1>0, <1>1 DEF Serialise
<1>3. w \in [Keys -> Bucket] /\ \A table \in Tables : Tracked(w, table) \subseteq Tracked(s, table)
    <2>1. w = [k \in Keys |-> IF s[k] = Shared THEN bucket[k] ELSE s[k]]
        BY <1>1 DEF Seen
    <2>2. \A k \in Keys : s[k] = NoBucket => w[k] = NoBucket
        BY <2>1, GuardTypes
    <2> QED BY <1>0, <1>2, <2>1, <2>2, GuardTypes DEF Snapshot, Tracked
<1>4. Image(w, UpTo(1)) /\ Sparse(w)
    <2>1. Image(Seen(s), UpTo(1)) /\ Sparse(s)
        BY <1>2 DEF GuardIInv, WaitingHold
    <2> QED BY <1>1, <1>3, <2>1, SparserStill
<1>5. WritingHolds'
    <2>1. PICK upto : upto = UpTo(1)
        OBVIOUS
    <2>2. Image(w, upto)' /\ UpTo(1)' = upto
        BY <1>0, <1>4, <2>1, SameImage DEF UpTo
    <2> QED BY <1>0, <1>2, <1>4, <2>2 DEF WritingHolds, Image, Sparse, Tracked
<1>6. GuardTypeOK'
    BY <1>0, <1>2, <1>3 DEF GuardTypeOK, Tracked
<1>7. MemoryHolds' /\ FileHolds'
    BY <1>0 DEF GuardIInv, MemoryHolds, FileHolds, Image, Within, Covers, Recent, Overshoot,
        Against, Nth, Sparse, Tracked
<1>8. WaitingHold'
    <2> SUFFICES ASSUME NEW i \in DOMAIN writes
                 PROVE  Image(Seen(writes[i]), UpTo(i))' /\ Sparse(writes[i])'
        BY <1>0 DEF WaitingHold
    <2>1. PICK f, upto : f = Seen(writes[i]) /\ upto = UpTo(i)
        OBVIOUS
    <2>2. Image(f, upto) /\ Sparse(writes[i])
        BY <2>1 DEF GuardIInv, WaitingHold
    <2>3. Image(f, upto)' /\ UpTo(i)' = upto /\ Seen(writes[i])' = f
        BY <1>0, <2>1, <2>2, SameImage DEF UpTo, Seen
    <2> QED BY <1>0, <2>2, <2>3 DEF Image, Sparse, Tracked
<1> QED BY <1>0, <1>5, <1>6, <1>7, <1>8, SameRoom DEF GuardIInv

\* The chain goes on: what is left of it is what it was.
LEMMA ChainGoesOn ==
    ASSUME GuardIInv, writes # <<>>, writes' = Tail(writes),
           now' = now, bucket' = bucket, login' = login, counted' = counted, lost' = lost, cleared' = cleared,
           settled' = settled \/ writes' = <<>>
    PROVE  Room' /\ MemoryHolds' /\ WaitingHold' /\ writes' \in Seq(Snapshot)
<1>0. writes \in Seq(Snapshot) /\ writes' \in Seq(Snapshot) /\ Len(writes') = Len(writes) - 1
      /\ Len(writes) \in Nat /\ Len(writes') \in Nat
      /\ \A i \in DOMAIN writes' : i + 1 \in DOMAIN writes /\ writes'[i] = writes[i + 1]
    BY DEF GuardIInv, GuardTypeOK
<1>1. Room'
    BY SameRoom DEF GuardIInv
<1>2. MemoryHolds'
    BY DEF GuardIInv, MemoryHolds, Image, Within, Covers, Recent, Overshoot, Against, Nth, Sparse, Tracked
<1>3. WaitingHold'
    <2> SUFFICES ASSUME NEW i \in DOMAIN writes'
                 PROVE  Image(Seen(writes[i]), UpTo(i))' /\ Sparse(writes'[i])
        BY DEF WaitingHold, Sparse, Tracked
    <2>1. PICK s, upto : s = writes'[i] /\ upto = UpTo(i + 1)
        OBVIOUS
    <2>2. Image(Seen(s), upto) /\ Sparse(s)
        BY <1>0, <2>1 DEF GuardIInv, WaitingHold
    <2>3. UpTo(i)' = upto
        <3>1. i \in Nat /\ (i = Len(writes') <=> i + 1 = Len(writes)) /\ writes' # <<>>
            BY <1>0
        <3> QED BY <2>1, <3>1 DEF UpTo
    <2>4. Image(Seen(s), upto)'
        BY <2>2 DEF Image, Within, Covers, Recent, Overshoot, Against, Nth, Seen
    <2> QED BY <2>1, <2>2, <2>3, <2>4
<1> QED BY <1>0, <1>1, <1>2, <1>3

LEMMA RenameStep ==
    ASSUME GuardIInv, Rename
    PROVE  GuardIInv'
<1>0. /\ GuardTypeOK /\ writing # <<>> /\ disk' = writing /\ writing' = <<>> /\ writes' = Tail(writes)
      /\ settled' = IF writes' = <<>> THEN Len(counted) ELSE settled
      /\ now' = now /\ bucket' = bucket /\ login' = login /\ requests' = requests
      /\ counted' = counted /\ lost' = lost /\ cleared' = cleared
    BY DEF GuardIInv, Rename
<1>1. writes # <<>> /\ Image(writing, UpTo(1)) /\ Sparse(writing) /\ writing \in [Keys -> Bucket]
    BY <1>0 DEF GuardIInv, WritingHolds, GuardTypeOK
<1>2. Room' /\ MemoryHolds' /\ WaitingHold' /\ writes' \in Seq(Snapshot)
    BY <1>0, <1>1, ChainGoesOn
<1>3. settled' = UpTo(1)
    <2>1. writes \in Seq(Snapshot) /\ Len(writes) \in Nat
        BY <1>0 DEF GuardTypeOK
    <2>2. Len(writes') = Len(writes) - 1 /\ writes' \in Seq(Snapshot)
        BY <1>0, <1>1, <2>1
    <2>3. writes' = <<>> <=> Len(writes') = 0
        <3>1. PICK rest \in Seq(Snapshot) : rest = writes'
            BY <2>2
        <3>2. rest = <<>> <=> Len(rest) = 0
            OBVIOUS
        <3> QED BY <3>1, <3>2
    <2>4. writes' = <<>> <=> 1 = Len(writes)
        BY <2>1, <2>2, <2>3
    <2> QED BY <1>0, <2>4 DEF UpTo
<1>4. FileHolds'
    <2>1. PICK w, upto : w = writing /\ upto = UpTo(1)
        OBVIOUS
    <2>2. Image(w, upto)' /\ Sparse(w)
        BY <1>0, <1>1, <2>1, SameImage
    <2> QED BY <1>0, <1>3, <2>1, <2>2 DEF FileHolds, Image, Sparse, Tracked
<1>5. WritingHolds'
    BY <1>0 DEF WritingHolds
<1>6. GuardTypeOK'
    <2>1. settled' \in 0..Len(counted')
        BY <1>0 DEF GuardTypeOK
    <2> QED BY <1>0, <1>1, <1>2, <2>1 DEF GuardTypeOK, Tracked
<1> QED BY <1>2, <1>4, <1>5, <1>6 DEF GuardIInv

LEMMA PersistFailsStep ==
    ASSUME GuardIInv, PersistFails
    PROVE  GuardIInv'
<1>0. /\ GuardTypeOK /\ disk' = disk /\ writing' = <<>> /\ writes' = Tail(writes) /\ writes # <<>>
      /\ now' = now /\ bucket' = bucket /\ login' = login /\ requests' = requests
      /\ counted' = counted /\ settled' = settled /\ lost' = lost /\ cleared' = cleared
    BY DEF GuardIInv, PersistFails, guardHistory
<1>1. Room' /\ MemoryHolds' /\ WaitingHold' /\ writes' \in Seq(Snapshot)
    BY <1>0, ChainGoesOn
<1>2. FileHolds'
    BY <1>0 DEF GuardIInv, FileHolds, Image, Within, Covers, Recent, Overshoot, Against, Nth, Sparse, Tracked
<1>3. WritingHolds'
    BY <1>0 DEF WritingHolds
<1>4. GuardTypeOK'
    BY <1>0, <1>1 DEF GuardTypeOK, Tracked
<1> QED BY <1>1, <1>2, <1>3, <1>4 DEF GuardIInv

\* Time only takes attempts out of the windows.
LEMMA WithinAfterTick ==
    ASSUME NEW k \in Keys, NEW attempts \in SUBSET Attempt, now \in Instant, now' = now + 1, IsFiniteSet(attempts)
    PROVE  /\ Cardinality(Recent(k, attempts)) \in Nat /\ Cardinality(Recent(k, attempts)') \in Nat
           /\ Cardinality(Recent(k, attempts)') <= Cardinality(Recent(k, attempts))
<1>1. Recent(k, attempts)' \in SUBSET Recent(k, attempts)
    <2> SUFFICES ASSUME NEW a \in attempts, a.at + Window[k] > now + 1
                 PROVE  a.at + Window[k] > now
        BY DEF Recent
    <2>1. a.at \in Nat /\ Window[k] \in Nat /\ now \in Nat
        BY GuardTypes, GuardAssumption DEF Attempt, Instant
    <2> QED BY <2>1
<1>2. Recent(k, attempts) \in SUBSET attempts
    BY DEF Recent
<1>3. IsFiniteSet(Recent(k, attempts))
    BY <1>2, FewerAttempts
<1> QED BY <1>1, <1>3, FewerAttempts

LEMMA TickStep ==
    ASSUME GuardIInv, GuardTick
    PROVE  GuardIInv'
<1>0. /\ GuardTypeOK /\ bucket' = bucket /\ writes' = writes /\ writing' = writing /\ disk' = disk
      /\ login' = login /\ requests' = requests
      /\ counted' = counted /\ settled' = settled /\ lost' = lost /\ cleared' = cleared
      /\ now \in Instant /\ now' = now + 1 /\ now' \in Instant
      /\ bucket \in [Keys -> Bucket] /\ disk \in [Keys -> Bucket] /\ Shared \notin Bucket
      /\ counted \in Seq(Counted)
    BY GuardTypes, GuardAssumption
        DEF GuardIInv, GuardTick, windowVars, guardHistory, GuardTypeOK, Instant, Counted
<1>1. ASSUME NEW k \in Keys
      PROVE  Against(k)' \subseteq Against(k)
    <2> SUFFICES ASSUME NEW i \in DOMAIN counted, counted[i].at + Window[k] > now + 1
                 PROVE  counted[i].at + Window[k] > now
        BY <1>0 DEF Against
    <2>1. counted[i] \in Counted
        BY <1>0
    <2>2. counted[i].at \in Nat /\ Window[k] \in Nat /\ now \in Nat
        BY <1>0, <2>1, GuardTypes, GuardAssumption DEF Counted, Instant
    <2> QED BY <2>2
<1>2. ASSUME NEW f \in [Keys -> Bucket], NEW upto, Image(f, upto)
      PROVE  Image(f, upto)'
    <2> SUFFICES ASSUME NEW k \in Keys
                 PROVE  Within(k, f[k].attempts)' /\ Covers(k, f[k].attempts, upto)'
        BY DEF Image
    <2>1. PICK attempts : attempts = f[k].attempts
        OBVIOUS
    <2>2. attempts \in SUBSET Attempt /\ Within(k, attempts) /\ Covers(k, attempts, upto)
        BY <1>2, <2>1 DEF Image, Bucket
    <2>3. IsFiniteSet(attempts) /\ Cardinality(Recent(k, attempts)) <= Limit[k] + Overshoot(k)
        BY <2>2 DEF Within
    <2>4. Cardinality(Recent(k, attempts)') <= Limit[k] + Overshoot(k)
        BY <1>0, <2>2, <2>3, WithinAfterTick, GuardTypes
    <2>5. Within(k, attempts)'
        BY <2>3, <2>4 DEF Within, Overshoot
    <2>6. Covers(k, attempts, upto)'
        BY <1>0, <1>1, <2>2 DEF Covers, Nth
    <2> QED BY <2>1, <2>5, <2>6
<1>3. Room'
    <2> SUFFICES ASSUME NEW k \in Keys
                 PROVE  (Cardinality(Recent(k, bucket[k].attempts)) + Cardinality(InProgress(k))
                            <= Limit[k] + Overshoot(k))'
        BY DEF Room
    <2>1. PICK attempts : attempts = bucket[k].attempts
        OBVIOUS
    <2>2. attempts \in SUBSET Attempt /\ IsFiniteSet(attempts)
          /\ Cardinality(Recent(k, attempts)) + Cardinality(InProgress(k)) <= Limit[k] + Overshoot(k)
        BY <1>0, <2>1 DEF GuardIInv, MemoryHolds, Image, Within, Room, Bucket
    <2>3. InProgress(k)' = InProgress(k) /\ Overshoot(k)' = Overshoot(k) /\ Cardinality(InProgress(k)) \in Nat
        BY <1>0, InProgressFinite DEF InProgress, Overshoot
    <2>4. Cardinality(Recent(k, attempts)') + Cardinality(InProgress(k)) <= Limit[k] + Overshoot(k)
        BY <1>0, <2>2, <2>3, WithinAfterTick, GuardTypes
    <2>5. Recent(k, bucket[k].attempts)' = Recent(k, attempts)'
        BY <1>0, <2>1 DEF Recent
    <2> QED BY <2>3, <2>4, <2>5
<1>4. MemoryHolds'
    <2>1. PICK f, upto : f = bucket /\ upto = Len(counted)
        OBVIOUS
    <2>2. Image(f, upto)' /\ Sparse(f)
        BY <1>0, <1>2, <2>1 DEF GuardIInv, MemoryHolds
    <2> QED BY <1>0, <2>1, <2>2 DEF MemoryHolds, Image, Sparse, Tracked
<1>5. FileHolds'
    <2>1. PICK f, upto : f = disk /\ upto = settled
        OBVIOUS
    <2>2. Image(f, upto)' /\ Sparse(f)
        BY <1>0, <1>2, <2>1 DEF GuardIInv, FileHolds
    <2> QED BY <1>0, <2>1, <2>2 DEF FileHolds, Image, Sparse, Tracked
<1>6. WritingHolds'
    <2> SUFFICES ASSUME writing # <<>>
                 PROVE  writes # <<>> /\ Image(writing, UpTo(1))' /\ Sparse(writing)'
        BY <1>0 DEF WritingHolds
    <2>1. PICK f, upto : f = writing /\ upto = UpTo(1)
        OBVIOUS
    <2>2. f \in [Keys -> Bucket] /\ writes # <<>> /\ Image(f, upto) /\ Sparse(f)
        BY <1>0, <2>1 DEF GuardIInv, WritingHolds, GuardTypeOK
    <2>3. Image(f, upto)' /\ UpTo(1)' = upto
        BY <1>0, <1>2, <2>1, <2>2 DEF UpTo
    <2> QED BY <1>0, <2>1, <2>2, <2>3 DEF Image, Sparse, Tracked
<1>7. WaitingHold'
    <2> SUFFICES ASSUME NEW i \in DOMAIN writes
                 PROVE  Image(Seen(writes[i]), UpTo(i))' /\ Sparse(writes[i])'
        BY <1>0 DEF WaitingHold
    <2>1. PICK f, upto : f = Seen(writes[i]) /\ upto = UpTo(i)
        OBVIOUS
    <2>2. f \in [Keys -> Bucket]
        <3>1. writes[i] \in Snapshot
            BY <1>0 DEF GuardTypeOK
        <3> QED BY <1>0, <2>1, <3>1 DEF Seen, Snapshot
    <2>3. Image(f, upto) /\ Sparse(writes[i])
        BY <2>1 DEF GuardIInv, WaitingHold
    <2>4. Image(f, upto)' /\ UpTo(i)' = upto /\ Seen(writes[i])' = f
        BY <1>0, <1>2, <2>1, <2>2, <2>3 DEF UpTo, Seen
    <2> QED BY <1>0, <2>3, <2>4 DEF Image, Sparse, Tracked
<1>8. GuardTypeOK'
    BY <1>0 DEF GuardTypeOK, Tracked
<1> QED BY <1>3, <1>4, <1>5, <1>6, <1>7, <1>8 DEF GuardIInv

\* A restart has what is in the file and in its window, and what it lost does not
\* count any more; nobody is in the way.
LEMMA GuardRestartStep ==
    ASSUME GuardIInv, GuardRestart
    PROVE  GuardIInv'
<1>0. /\ GuardTypeOK /\ FileHolds /\ bucket' = [k \in Keys |-> Restored(k)] /\ writes' = <<>> /\ writing' = <<>>
      /\ login' = [c \in Logins |-> NoLogin] /\ lost' = lost \union (settled + 1)..Len(counted)
      /\ now' = now /\ disk' = disk /\ requests' = requests
      /\ counted' = counted /\ settled' = settled /\ cleared' = cleared
      /\ disk \in [Keys -> Bucket] /\ DOMAIN counted = 1..Len(counted)
      /\ settled \in Nat /\ Len(counted) \in Nat
    BY DEF GuardIInv, GuardRestart, GuardTypeOK
<1>1. ASSUME NEW k \in Keys
      PROVE  Against(k)' \subseteq Against(k) /\ \A i \in Against(k)' : i <= settled
    <2>1. Against(k)' \subseteq Against(k)
        BY <1>0 DEF Against
    <2>2. ASSUME NEW i \in Against(k)', ~(i <= settled) PROVE FALSE
        <3>1. i \in 1..Len(counted) /\ i \notin (settled + 1)..Len(counted)
            BY <1>0 DEF Against
        <3> QED BY <1>0, <2>2, <3>1
    <2> QED BY <2>1, <2>2
<1>2. ASSUME NEW k \in Keys
      PROVE  /\ Restored(k) \in Bucket /\ Restored(k).attempts = Recent(k, disk[k].attempts)
             /\ disk[k] = NoBucket => Restored(k) = NoBucket
             /\ Recent(k, disk[k].attempts) \in SUBSET disk[k].attempts
    <2>1. Recent(k, disk[k].attempts) \in SUBSET disk[k].attempts
        BY DEF Recent
    <2>2. disk[k] \in Bucket
        BY <1>0
    <2>3. PICK rest : rest = Recent(k, disk[k].attempts)
        OBVIOUS
    <2>4. rest \in SUBSET Attempt
        BY <2>1, <2>2, <2>3 DEF Bucket
    <2>5. [disk[k] EXCEPT !.attempts = rest] \in Bucket /\ [disk[k] EXCEPT !.attempts = rest].attempts = rest
        BY <2>2, <2>4 DEF Bucket
    <2>6. Restored(k) = IF rest = {} THEN NoBucket ELSE [disk[k] EXCEPT !.attempts = rest]
        BY <2>3 DEF Restored
    <2>7. Restored(k) \in Bucket /\ Restored(k).attempts = rest
        BY <2>5, <2>6, GuardTypes DEF NoBucket
    <2>8. disk[k] = NoBucket => rest = {}
        BY <2>1, <2>3 DEF NoBucket
    <2> QED BY <2>1, <2>3, <2>6, <2>7, <2>8
<1>3. PICK b : b = bucket'
    OBVIOUS
<1>4. b \in [Keys -> Bucket] /\ \A k \in Keys : b[k] = Restored(k)
    BY <1>0, <1>2, <1>3
<1>5. Sparse(b)
    <2>1. \A table \in Tables : Tracked(b, table) \subseteq Tracked(disk, table)
        BY <1>2, <1>4, GuardTypes DEF Tracked
    <2> QED BY <1>0, <2>1, SparserStill DEF FileHolds
<1>6. ASSUME NEW k \in Keys
      PROVE  /\ Within(k, b[k].attempts)' /\ Covers(k, b[k].attempts, Len(counted))'
             /\ Cardinality(Recent(k, b[k].attempts)) \in Nat
             /\ Cardinality(Recent(k, b[k].attempts)) <= Limit[k] + Overshoot(k)
    <2>1. PICK file, rest : file = disk[k].attempts /\ rest = b[k].attempts
        OBVIOUS
    <2>2. rest = Recent(k, file) /\ rest \in SUBSET file
        BY <1>2, <1>4, <2>1
    <2>3. Within(k, file) /\ Covers(k, file, settled)
        BY <1>0, <2>1 DEF FileHolds, Image
    <2>4. Recent(k, rest) = rest
        BY <2>2 DEF Recent
    <2>5. IsFiniteSet(rest) /\ Cardinality(rest) \in Nat
        BY <2>2, <2>3, FewerAttempts DEF Within
    <2>6. Cardinality(Recent(k, rest)) <= Limit[k] + Overshoot(k)
        BY <2>2, <2>3, <2>4 DEF Within
    <2>7. Within(k, rest)'
        BY <1>0, <2>5, <2>6, WithinLater DEF Within
    <2>8. Covers(k, rest, Len(counted))'
        <3> SUFFICES ASSUME NEW i \in Against(k)' PROVE Nth(i)' \in rest
            BY DEF Covers
        <3>1. i \in Against(k) /\ i <= settled
            BY <1>1
        <3>2. Nth(i) \in file
            BY <2>3, <3>1 DEF Covers
        <3>3. Nth(i).at + Window[k] > now
            BY <3>1 DEF Against, Nth
        <3>4. Nth(i)' = Nth(i)
            BY <1>0 DEF Nth
        <3> QED BY <2>2, <3>2, <3>3, <3>4 DEF Recent
    <2> QED BY <2>1, <2>4, <2>5, <2>6, <2>7, <2>8
<1>7. MemoryHolds'
    <2>1. Image(b, Len(counted))'
        BY <1>6 DEF Image
    <2> QED BY <1>3, <1>5, <2>1 DEF MemoryHolds, Image, Sparse, Tracked
<1>8. Room'
    <2> SUFFICES ASSUME NEW k \in Keys
                 PROVE  (Cardinality(Recent(k, bucket[k].attempts)) + Cardinality(InProgress(k))
                            <= Limit[k] + Overshoot(k))'
        BY DEF Room
    <2>1. InProgress(k)' = {} /\ Cardinality(InProgress(k)') = 0
        BY <1>0, FS_EmptySet DEF InProgress, Counting
    <2>2. Recent(k, bucket[k].attempts)' = Recent(k, b[k].attempts) /\ Overshoot(k)' = Overshoot(k)
        BY <1>0, <1>3 DEF Recent, Overshoot
    <2> QED BY <1>6, <2>1, <2>2
<1>9. FileHolds'
    <2>1. PICK f, upto : f = disk /\ upto = settled
        OBVIOUS
    <2>2. Image(f, upto) /\ Sparse(f)
        BY <1>0, <2>1 DEF FileHolds
    <2>3. \A k \in Keys : Within(k, f[k].attempts)' /\ Covers(k, f[k].attempts, upto)'
        BY <1>0, <1>1, <2>2 DEF Image, Within, Covers, Recent, Overshoot, Nth
    <2> QED BY <1>0, <2>1, <2>2, <2>3 DEF FileHolds, Image, Sparse, Tracked
<1>10. WaitingHold' /\ WritingHolds'
    BY <1>0 DEF WaitingHold, WritingHolds
<1>11. GuardTypeOK'
    <2>1. \A table \in Tables : Cardinality(Tracked(bucket, table)') <= Most(table)
        BY <1>3, <1>5 DEF Sparse, Tracked
    <2>2. lost' \subseteq DOMAIN counted'
        BY <1>0 DEF GuardTypeOK
    <2> QED BY <1>0, <1>3, <1>4, <2>1, <2>2 DEF GuardTypeOK
<1> QED BY <1>7, <1>8, <1>9, <1>10, <1>11 DEF GuardIInv

-----------------------------------------------------------------------------
(***************************************************************************)
(* Theorems                                                                *)
(***************************************************************************)
LEMMA GuardInitially == GuardInit => GuardIInv
<1> SUFFICES ASSUME GuardInit PROVE GuardIInv
    OBVIOUS
<1>0. /\ now = 0 /\ bucket = [k \in Keys |-> NoBucket] /\ disk = bucket /\ writes = <<>> /\ writing = <<>>
      /\ login = [c \in Logins |-> NoLogin] /\ requests = 0
      /\ counted = <<>> /\ settled = 0 /\ lost = {} /\ cleared = [k \in Keys |-> 0]
    BY DEF GuardInit
<1>1. ASSUME NEW k \in Keys
      PROVE  /\ bucket[k].attempts = {} /\ Recent(k, {}) = {} /\ Against(k) = {} /\ InProgress(k) = {}
             /\ Limit[k] + Overshoot(k) >= 0
    <2>1. bucket[k].attempts = {} /\ Recent(k, {}) = {} /\ Against(k) = {} /\ InProgress(k) = {}
        BY <1>0 DEF NoBucket, Recent, Against, InProgress, Counting
    <2>2. Limit[k] + Overshoot(k) >= 0
        BY GuardTypes DEF Overshoot
    <2> QED BY <2>1, <2>2
<1>2. IsFiniteSet({}) /\ Cardinality({}) = 0
    BY FS_EmptySet
<1>3. \A n \in Nat : Image(bucket, n)
    BY <1>1, <1>2, GuardTypes DEF Image, Within, Covers
<1>4. \A table \in Tables : Tracked(bucket, table) = {}
    BY <1>0, GuardTypes DEF Tracked
<1>5. Sparse(bucket)
    <2> SUFFICES ASSUME NEW table \in Tables
                 PROVE  IsFiniteSet(Tracked(bucket, table)) /\ Cardinality(Tracked(bucket, table)) <= Most(table)
        BY DEF Sparse
    <2>1. Most(table) \in Nat
        BY GuardAssumption DEF Most
    <2>2. Tracked(bucket, table) = {}
        BY <1>4
    <2> QED BY <1>2, <2>1, <2>2
<1>6. MemoryHolds /\ FileHolds /\ WaitingHold /\ WritingHolds
    BY <1>0, <1>3, <1>5 DEF MemoryHolds, FileHolds, WaitingHold, WritingHolds
<1>7. Room
    BY <1>1, <1>2 DEF Room
<1>8. GuardTypeOK
    <2>1. 0 \in Instant /\ 0 \in 0..MaxRequests
        BY GuardAssumption DEF Instant
    <2>2. \A table \in Tables : Cardinality(Tracked(bucket, table)) <= Most(table)
        BY <1>5 DEF Sparse
    <2> QED BY <1>0, <2>1, <2>2, GuardTypes DEF GuardTypeOK
<1> QED BY <1>6, <1>7, <1>8 DEF GuardIInv

LEMMA GuardStutter == GuardIInv /\ UNCHANGED authVars => GuardIInv'
<1> SUFFICES ASSUME GuardIInv, UNCHANGED authVars PROVE GuardIInv'
    OBVIOUS
<1>0. /\ now' = now /\ bucket' = bucket /\ writes' = writes /\ writing' = writing /\ disk' = disk
      /\ login' = login /\ requests' = requests
      /\ counted' = counted /\ settled' = settled /\ lost' = lost /\ cleared' = cleared
    BY DEF authVars
<1>1. GuardTypeOK'
    BY <1>0 DEF GuardIInv, GuardTypeOK, Tracked
<1>2. Room'
    BY <1>0, SameRoom DEF GuardIInv
<1>3. MemoryHolds' /\ FileHolds'
    BY <1>0 DEF GuardIInv, MemoryHolds, FileHolds, Image, Within, Covers, Recent, Overshoot,
        Against, Nth, Sparse, Tracked
<1>4. WaitingHold'
    <2> SUFFICES ASSUME NEW i \in DOMAIN writes
                 PROVE  Image(Seen(writes[i]), UpTo(i))' /\ Sparse(writes[i])'
        BY <1>0 DEF WaitingHold
    <2>1. PICK f, upto : f = Seen(writes[i]) /\ upto = UpTo(i)
        OBVIOUS
    <2>2. Image(f, upto) /\ Sparse(writes[i])
        BY <2>1 DEF GuardIInv, WaitingHold
    <2>3. Image(f, upto)' /\ UpTo(i)' = upto /\ Seen(writes[i])' = f
        BY <1>0, <2>1, <2>2, SameImage DEF UpTo, Seen
    <2> QED BY <1>0, <2>2, <2>3 DEF Image, Sparse, Tracked
<1>5. WritingHolds'
    BY <1>0 DEF GuardIInv, WritingHolds, Image, Within, Covers, Recent, Overshoot,
        Against, Nth, Sparse, Tracked, UpTo
<1> QED BY <1>1, <1>2, <1>3, <1>4, <1>5 DEF GuardIInv

\* The inductive invariant holds in every reachable state.
THEOREM GuardInvariant == GuardSpec => []GuardIInv
<1>1. GuardInit => GuardIInv
    BY GuardInitially
<1>2. GuardIInv /\ [GuardNext]_authVars => GuardIInv'
    <2> SUFFICES ASSUME GuardIInv, [GuardNext]_authVars PROVE GuardIInv'
        OBVIOUS
    <2>1. CASE \E c \in Logins : Request(c)
        BY <2>1, StartLoginStep DEF Request
    <2>2. CASE \E c \in Logins : Succeed(c)
        BY <2>2, SucceedStep
    <2>3. CASE \E c \in Logins : Fail(c)
        BY <2>3, FailStep
    <2>4. CASE \E s \in Sources : CountSignup(s)
        BY <2>4, SignupStep
    <2>5. CASE Serialise
        BY <2>5, SerialiseStep
    <2>6. CASE Rename
        BY <2>6, RenameStep
    <2>7. CASE PersistFails
        BY <2>7, PersistFailsStep
    <2>8. CASE GuardTick
        BY <2>8, TickStep
    <2>9. CASE GuardRestart
        BY <2>9, GuardRestartStep
    <2>10. CASE UNCHANGED authVars
        BY <2>10, GuardStutter
    <2> QED BY <2>1, <2>2, <2>3, <2>4, <2>5, <2>6, <2>7, <2>8, <2>9, <2>10 DEF GuardNext
<1> QED BY <1>1, <1>2, PTL DEF GuardSpec

\* Type correctness; and no map ever has more buckets than it may
\* (maxTrackedIdentifiers and maxTrackedSources, evictOldest).
THEOREM GuardTypeCorrect == GuardSpec => []GuardTypeOK
<1>1. GuardIInv => GuardTypeOK
    BY DEF GuardIInv
<1> QED BY <1>1, GuardInvariant, PTL

\* The attempts that count are as many as those in the bucket at most.
LEMMA AgainstAreFew ==
    ASSUME GuardIInv, NEW k \in Keys
    PROVE  Cardinality(Against(k)) <= Limit[k] + Overshoot(k)
<1> DEFINE recent == Recent(k, bucket[k].attempts)
           f == [i \in Against(k) |-> Nth(i)]
<1>1. IsFiniteSet(bucket[k].attempts) /\ Covers(k, bucket[k].attempts, Len(counted))
      /\ Cardinality(recent) <= Limit[k] + Overshoot(k)
    BY DEF GuardIInv, MemoryHolds, Image, Within
<1>2. recent \in SUBSET bucket[k].attempts
    BY DEF Recent
<1>3. IsFiniteSet(recent) /\ Cardinality(recent) \in Nat
    BY <1>1, <1>2, FewerAttempts
<1>4. ASSUME NEW i \in Against(k)
      PROVE  Nth(i) \in recent
    <2>1. i <= Len(counted)
        BY DEF Against, GuardIInv, GuardTypeOK
    <2>2. Nth(i) \in bucket[k].attempts
        BY <1>1, <2>1 DEF Covers
    <2>3. Nth(i).at + Window[k] > now
        BY DEF Against, Nth
    <2> QED BY <2>2, <2>3 DEF Recent
<1>5. f \in Injection(Against(k), recent)
    <2>1. f \in [Against(k) -> recent]
        BY <1>4
    <2>2. \A i, j \in Against(k) : Nth(i) = Nth(j) => i = j
        <3>1. \A i : Nth(i).number = i
            BY DEF Nth
        <3> QED BY <3>1
    <2>3. \A i, j \in Against(k) : f[i] = f[j] => i = j
        BY <2>2
    <2> QED BY <2>1, <2>3 DEF Injection, IsInjective
<1>6. Cardinality(Against(k)) <= Cardinality(recent) /\ Cardinality(Against(k)) \in Nat
    <2> HIDE DEF f, recent
    <2>1. IsFiniteSet(Against(k)) /\ Cardinality(Against(k)) <= Cardinality(recent)
        BY <1>3, <1>5, FS_Injection
    <2> QED BY <2>1, FS_CardinalityType
<1>7. Cardinality(Against(k)) <= Limit[k] + Overshoot(k)
    <2> HIDE DEF recent
    <2> QED BY <1>1, <1>3, <1>6, GuardTypes
<1> QED BY <1>7

\* No window ever holds more of what counts than its limit and the overshoot of
\* the logins that were checked together, for any number of logins, identifiers and
\* sources, any limits and windows, whatever is evicted, forgiven, written late or
\* not at all, or lost at a restart.
THEOREM AttemptsAreBounded == GuardSpec => []AttemptsBounded
<1>1. GuardIInv => AttemptsBounded
    BY AgainstAreFew DEF AttemptsBounded
<1> QED BY <1>1, GuardInvariant, PTL
=============================================================================
