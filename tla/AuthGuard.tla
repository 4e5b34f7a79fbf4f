----------------------------- MODULE AuthGuard -----------------------------
(***************************************************************************)
(* The abuse guard in front of logins and sign-ups                         *)
(* (src/src/web/authAbuseGuard.ts) and the requests of                     *)
(* src/src/web/webAuth.ts that pass it.                                    *)
(*                                                                         *)
(* A login is counted for its identifier, its source and everyone, a       *)
(* sign-up for its source and everyone: each of these is a key with a      *)
(* limit and a window.  What the account store answers is arbitrary here:  *)
(* Accounts models it.  The security audit log that is written before a    *)
(* request is answered never fails a request, and is left out.             *)
(***************************************************************************)
EXTENDS Naturals, Sequences, FiniteSets

CONSTANTS
    Logins,       \* logins in progress at the same time
    Idents,       \* identifiers of logins
    Sources,      \* where requests come from
    Everyone,     \* the key of the global limits
    Limit,        \* a limit for each key
    Window,       \* a window for each key
    MaxTrackedIdents, MaxTrackedSources,
    LastTime,     \* bound: the clock stops here
    MaxRequests,  \* bound: requests
    GuardFaults   \* TRUE: restarts and failing writes

Keys == ({"login"} \X (Idents \union Sources \union {Everyone}))
        \union ({"signup"} \X (Sources \union {Everyone}))

ASSUME GuardAssumption ==
    /\ IsFiniteSet(Logins)
    /\ Everyone \notin Idents \union Sources /\ Idents \intersect Sources = {}
    /\ Limit \in [Keys -> Nat \ {0}]
    /\ Window \in [Keys -> Nat \ {0}]
    /\ MaxTrackedIdents \in Nat \ {0} /\ MaxTrackedSources \in Nat \ {0}
    /\ LastTime \in Nat /\ MaxRequests \in Nat
    /\ GuardFaults \in BOOLEAN

VARIABLES
    now,        \* Date.now()
    bucket,     \* [Keys -> Bucket], the windows in memory
    writes,     \* writeChain: the head is being written
    writing,    \* what the head has serialised
    disk,       \* what the file holds
    login,      \* [Logins -> LoginRequest], logins in progress
    requests,   \* requests that have arrived
    counted,    \* history: what was recorded, in order
    settled,    \* history: how much of it was in the file with no write to come
    lost,       \* history: the rest of it at a restart
    cleared     \* history: how much of it a success or an eviction took from a key

windowVars == <<bucket, writes, writing, disk>>
guardHistory == <<counted, settled, lost, cleared>>
authVars == <<now, bucket, writes, writing, disk, login, requests, counted, settled, lost, cleared>>

(***************************************************************************)
(* Types                                                                   *)
(***************************************************************************)
Instant == 0..LastTime
\* number: the order in which attempts are recorded.
Attempt == [number : Nat \ {0}, at : Instant]
Bucket == [attempts : SUBSET Attempt, seen : Instant]
NoBucket == [attempts |-> {}, seen |-> 0]

\* A snapshot shares the live buckets, and copies the global windows.
Shared == [shared |-> TRUE]
Snapshot == [Keys -> Bucket \union {Shared}]

\* A login whose password is being checked.
LoginRequest == [ident : Idents, source : Sources]
NoLogin == [ident |-> Everyone, source |-> Everyone]

\* The maps loginFailures, sourceLoginFailures and sourceSignups, each with the
\* number of buckets it may have.
IdentKeys == {"login"} \X Idents
Tables == {IdentKeys, {"login"} \X Sources, {"signup"} \X Sources}
Table(k) == IF k \in IdentKeys THEN IdentKeys ELSE {k[1]} \X Sources
Most(table) == IF table = IdentKeys THEN MaxTrackedIdents ELSE MaxTrackedSources
Tracked(b, table) == {k \in table : b[k] # NoBucket}

GuardTypeOK ==
    /\ now \in Instant
    /\ bucket \in [Keys -> Bucket] /\ disk \in [Keys -> Bucket]
    /\ \A table \in Tables : Cardinality(Tracked(bucket, table)) <= Most(table)
    /\ writes \in Seq(Snapshot)
    /\ writing \in {<<>>} \union [Keys -> Bucket]
    /\ login \in [Logins -> LoginRequest \union {NoLogin}]
    /\ requests \in 0..MaxRequests
    /\ counted \in Seq([keys : SUBSET Keys, at : Instant])
    /\ settled \in 0..Len(counted)
    /\ lost \subseteq DOMAIN counted
    /\ cleared \in [Keys -> 0..Len(counted)]

GuardInit ==
    /\ now = 0
    /\ bucket = [k \in Keys |-> NoBucket]
    /\ disk = bucket
    /\ writes = <<>> /\ writing = <<>>
    /\ login = [c \in Logins |-> NoLogin]
    /\ requests = 0
    /\ counted = <<>> /\ settled = 0 /\ lost = {}
    /\ cleared = [k \in Keys |-> 0]

-----------------------------------------------------------------------------
(***************************************************************************)
(* Windows                                                                 *)
(***************************************************************************)
\* prune: an attempt leaves the window when it is Window[k] old.
Recent(k, attempts) == {a \in attempts : a.at + Window[k] > now}
Full(b, k) == Cardinality(Recent(k, b[k].attempts)) >= Limit[k]

LoginKeys(u, s) == <<<<"login", Everyone>>, <<"login", u>>, <<"login", s>>>>
SignupKeys(s) == <<<<"signup", Everyone>>, <<"signup", s>>>>
KeysIn(ks) == {ks[i] : i \in DOMAIN ks}

\* The keys an assertion looks at: it throws at the first one that is full.
Examined(ks) == {ks[i] : i \in {i \in DOMAIN ks : \A j \in 1..(i - 1) : ~Full(bucket, ks[j])}}
Admitted(ks) == \A k \in KeysIn(ks) : ~Full(bucket, k)

\* assertBucketAllowed: what is left of a bucket that is looked at.
Looked(k) ==
    LET left == Recent(k, bucket[k].attempts)
    IN  IF left = {} THEN NoBucket
        ELSE [attempts |-> left, seen |-> IF k[2] = Everyone THEN 0 ELSE now]
AfterAssert(ks) == [k \in Keys |-> IF k \in Examined(ks) THEN Looked(k) ELSE bucket[k]]

\* A bucket with nothing left is deleted, and that is persisted.
Emptied(ks) == {k \in Examined(ks) :
    k[2] # Everyone /\ bucket[k] # NoBucket /\ Looked(k) = NoBucket}

\* recordBucket
NewAttempt == [number |-> Len(counted) + 1, at |-> now]
Record1(b, k) ==
    [attempts |-> Recent(k, b[k].attempts) \union {NewAttempt},
     seen |-> IF k[2] = Everyone THEN 0 ELSE now]
AfterRecord(b, ks) == [k \in Keys |-> IF k \in KeysIn(ks) THEN Record1(b, k) ELSE b[k]]

\* evictOldest, after a bucket was recorded at k: of the map's buckets, the one not
\* seen for longest; of several, the one that was inserted first, never the one
\* just recorded.
Evictable(b, k) ==
    LET tracked == Tracked(b, Table(k))
    IN  IF Cardinality(tracked) <= Most(Table(k)) THEN {{}}
        ELSE {{l} : l \in {l \in tracked \ {k} : \A m \in tracked : b[l].seen <= b[m].seen}}

Without(b, ks) == [k \in Keys |-> IF k \in ks THEN NoBucket ELSE b[k]]

-----------------------------------------------------------------------------
(***************************************************************************)
(* queuePersist, the chain of writes behind the answers                    *)
(***************************************************************************)
\* A deleted bucket stays in the snapshots that share it, as it was (attempts in it
\* that have expired make no difference: restore drops them).
Detached(snapshot, gone) ==
    [k \in Keys |-> IF snapshot[k] = Shared /\ k \in gone THEN bucket[k] ELSE snapshot[k]]

TakeSnapshot(b) == [k \in Keys |->
    IF k[2] # Everyone /\ b[k] # NoBucket THEN Shared ELSE b[k]]

\* JSON.stringify sees the shared buckets as they are by then.
Seen(snapshot) == [k \in Keys |-> IF snapshot[k] = Shared THEN bucket[k] ELSE snapshot[k]]

\* The memory becomes b; the buckets of gone have been deleted on the way.  Of the
\* writes one request queues the last is kept: the others would differ by what
\* restore drops.
Update(b, gone, persist) ==
    /\ bucket' = b
    /\ LET waiting == [i \in DOMAIN writes |-> Detached(writes[i], gone)]
       IN  writes' = IF persist THEN Append(waiting, TakeSnapshot(b)) ELSE waiting
    /\ UNCHANGED <<writing, disk>>

\* writeState
Serialise ==
    /\ writes # <<>> /\ writing = <<>>
    /\ writing' = Seen(Head(writes))
    /\ UNCHANGED <<now, bucket, writes, disk, login, requests, guardHistory>>

Rename ==
    /\ writing # <<>>
    /\ disk' = writing
    /\ writing' = <<>>
    /\ writes' = Tail(writes)
    /\ settled' = IF writes' = <<>> THEN Len(counted) ELSE settled
    /\ UNCHANGED <<now, bucket, login, requests, counted, lost, cleared>>

\* The chain logs the error and goes on.
PersistFails ==
    /\ GuardFaults
    /\ writes # <<>>
    /\ writing' = <<>>
    /\ writes' = Tail(writes)
    /\ UNCHANGED <<now, bucket, disk, login, requests, guardHistory>>

-----------------------------------------------------------------------------
(***************************************************************************)
(* Requests                                                                *)
(***************************************************************************)
Arrive == requests < MaxRequests /\ requests' = requests + 1
Begin(c, u, s) == login[c] = NoLogin /\ login' = [login EXCEPT ![c] = [ident |-> u, source |-> s]]
Ends(c) == login[c] # NoLogin /\ login' = [login EXCEPT ![c] = NoLogin]

Forget(ks) == cleared' = [k \in Keys |-> IF k \in ks THEN Len(counted') ELSE cleared[k]]
Count(ks) == counted' = Append(counted, [keys |-> KeysIn(ks), at |-> now])

\* An assertion that throws has the same effect on the windows.
AssertAllowed(ks) == Update(AfterAssert(ks), Emptied(ks), Emptied(ks) # {})

\* assertLoginAllowed, before the password is checked.
StartLogin(c, u, s) ==
    /\ Arrive
    /\ AssertAllowed(LoginKeys(u, s))
    /\ IF Admitted(LoginKeys(u, s)) THEN Begin(c, u, s) ELSE UNCHANGED login
    /\ UNCHANGED <<now, guardHistory>>

\* recordLoginSuccess: the identifier starts again.
Succeed(c) ==
    LET k == <<"login", login[c].ident>>
    IN  /\ Ends(c)
        /\ Update(Without(bucket, {k}), {k}, bucket[k] # NoBucket)
        /\ UNCHANGED counted
        /\ Forget({k})
        /\ UNCHANGED <<now, requests, settled, lost>>

\* Mutant: a failure is written before it is recorded.
FailPersistsFirst(c) ==
    LET u == login[c].ident  s == login[c].source
        recorded == AfterRecord(bucket, LoginKeys(u, s))
    IN  /\ Ends(c)
        /\ \E g \in Evictable(recorded, <<"login", u>>), h \in Evictable(recorded, <<"login", s>>) :
            /\ bucket' = Without(recorded, g \union h)
            /\ writes' = Append([i \in DOMAIN writes |-> Detached(writes[i], g \union h)], TakeSnapshot(bucket))
            /\ UNCHANGED <<writing, disk>>
            /\ Count(LoginKeys(u, s))
            /\ Forget(g \union h)
        /\ UNCHANGED <<now, requests, settled, lost>>

\* Mutant: the buckets are not limited in number.
FailKeepsAll(c) ==
    LET ks == LoginKeys(login[c].ident, login[c].source)
    IN  /\ Ends(c)
        /\ Update(AfterRecord(bucket, ks), {}, TRUE)
        /\ Count(ks)
        /\ Forget({})
        /\ UNCHANGED <<now, requests, settled, lost>>

\* recordLoginFailure: a wrong password, an account that may not log in, or an
\* account store that cannot be written.
Fail(c) ==
    LET u == login[c].ident  s == login[c].source
        recorded == AfterRecord(bucket, LoginKeys(u, s))
    IN  /\ Ends(c)
        /\ \E g \in Evictable(recorded, <<"login", u>>), h \in Evictable(recorded, <<"login", s>>) :
            /\ Update(Without(recorded, g \union h), g \union h, TRUE)
            /\ Count(LoginKeys(u, s))
            /\ Forget(g \union h)
        /\ UNCHANGED <<now, requests, settled, lost>>

\* assertAndRecordSignupAllowed: counted with the check, whatever the account
\* store makes of the request.
CountSignup(s) ==
    LET ks == SignupKeys(s)
        recorded == AfterRecord(AfterAssert(ks), ks)
    IN  /\ Arrive
        /\ IF Admitted(ks)
           THEN \E gone \in Evictable(recorded, <<"signup", s>>) :
                    /\ Update(Without(recorded, gone), Emptied(ks) \union gone, TRUE)
                    /\ Count(ks)
                    /\ Forget(gone)
           ELSE AssertAllowed(ks) /\ UNCHANGED <<counted, cleared>>
        /\ UNCHANGED <<now, login, settled, lost>>

-----------------------------------------------------------------------------
(***************************************************************************)
(* Time and restarts                                                       *)
(***************************************************************************)
GuardTick ==
    /\ now < LastTime
    /\ now' = now + 1
    /\ UNCHANGED <<windowVars, login, requests, guardHistory>>

\* restore: what the file holds and is still in its window.
Restored(k) ==
    LET left == Recent(k, disk[k].attempts)
    IN  IF left = {} THEN NoBucket ELSE [disk[k] EXCEPT !.attempts = left]

GuardRestart ==
    /\ GuardFaults
    /\ bucket' = [k \in Keys |-> Restored(k)]
    /\ writes' = <<>> /\ writing' = <<>>
    /\ login' = [c \in Logins |-> NoLogin]
    /\ lost' = lost \union (settled + 1)..Len(counted)
    /\ UNCHANGED <<now, disk, requests, counted, settled, cleared>>

-----------------------------------------------------------------------------
Request(c) == \E u \in Idents, s \in Sources : StartLogin(c, u, s)

GuardNext ==
    \/ \E c \in Logins : Request(c) \/ Succeed(c) \/ Fail(c)
    \/ \E s \in Sources : CountSignup(s)
    \/ Serialise \/ Rename \/ PersistFails
    \/ GuardTick \/ GuardRestart

GuardSpec == GuardInit /\ [][GuardNext]_authVars

-----------------------------------------------------------------------------
(***************************************************************************)
(* Properties                                                              *)
(***************************************************************************)
\* What counts against key k now: its window without what a restart lost
\* unwritten, a success has forgiven or an eviction has dropped.
Against(k) == {i \in DOMAIN counted :
    /\ k \in counted[i].keys
    /\ counted[i].at + Window[k] > now
    /\ i \notin lost /\ i > cleared[k]}

\* A login is counted after its check, so the requests in progress may pass
\* together; a sign-up is counted with its check.
Overshoot(k) == IF k[1] = "login" THEN Cardinality(Logins) - 1 ELSE 0

\* No window of a key ever holds more than its limit and the overshoot, over
\* parallel requests, expiry, evictions of other keys, lagging writes and
\* restarts ("auth abuse limits survive restart", test/authAbusePersistence.test.ts).
AttemptsBounded == \A k \in Keys : Cardinality(Against(k)) <= Limit[k] + Overshoot(k)
=============================================================================
