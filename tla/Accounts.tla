------------------------------ MODULE Accounts ------------------------------
(***************************************************************************)
(* Accounts and sessions: the mutations of                                 *)
(* src/src/persistence/accountStore.ts, the requests of                    *)
(* src/src/web/webAuth.ts that call them, and expiry.                      *)
(*                                                                         *)
(* accountStore persists by the protocol of SnapshotStore, which           *)
(* implements a durable register: data is the memory and the file, a       *)
(* mutation drafts on it when its turn comes and replaces it when the file *)
(* is renamed, and a crash in between has replaced it or has not.          *)
(*                                                                         *)
(* An account is named by its e-mail address, the identifier of a login.   *)
(* The abuse guard in front only turns requests away.                      *)
(***************************************************************************)
EXTENDS Naturals, Sequences, FiniteSets

CONSTANTS
    Calls,          \* requests in progress at the same time
    Users,          \* identifiers, each of one account
    Tokens,         \* session tokens
    None,           \* no user, no token, no draft
    MaxSessions,    \* MAX_ACTIVE_SESSIONS_PER_USER
    Ttl,            \* sessionTtlMs
    MaxTime,        \* bound: the clock stops here
    Faults          \* TRUE: crashes and failing writes

ASSUME AccountsAssumption ==
    /\ None \notin Users \union Tokens
    /\ MaxSessions \in Nat \ {0}
    /\ Ttl \in Nat \ {0}
    /\ MaxTime \in Nat
    /\ Faults \in BOOLEAN

VARIABLES
    clock,      \* Date.now()
    call,       \* [Calls -> Call], requests in progress
    queue,      \* writeChain: the head is being served
    data,       \* accounts and sessions, memory and file
    issued,     \* history: sessions of logins, numbered in their order
    given,      \* history: tokens that were answered
    leaving,    \* history: tokens whose logout was asked for
    left,       \* history: tokens whose logout was answered
    decided     \* history: decisions answered as done, per user

storeVars == <<queue, data>>
historyVars == <<issued, given, leaving, left, decided>>
vars == <<clock, call, queue, data, issued, given, leaving, left, decided>>

(***************************************************************************)
(* Types                                                                   *)
(***************************************************************************)
Time == 0..MaxTime
\* number: the order of insertion, which the ties of createdAt keep.
Session == [number : Nat \ {0}, token : Tokens, user : Users, created : Time]
Data == [status : [Users -> {"none", "pending", "active", "rejected"}], sessions : SUBSET Session]

\* queued: in writeChain; writing: persistStore.
Call == [at : {"queued", "writing"}, op : {"login", "signup", "approve", "reject", "logout"},
         user : Users \union {None}, token : Tokens \union {None},
         draft : Data \union {None}]
Idle == [at |-> "idle", op |-> None, user |-> None, token |-> None, draft |-> None]

\* A decision is answered as done once: of parallel decisions on a request, made
\* from lists that are out of date, one is told of success.
TypeOK ==
    /\ clock \in Time
    /\ call \in [Calls -> Call \union {Idle}]
    /\ queue \in Seq(Calls)
    /\ data \in Data
    /\ issued \subseteq Session
    /\ given \subseteq Tokens /\ leaving \subseteq Tokens /\ left \subseteq leaving
    /\ decided \in [Users -> 0..1]

Init ==
    /\ clock = 0
    /\ call = [c \in Calls |-> Idle]
    /\ queue = <<>>
    /\ data = [status |-> [u \in Users |-> "none"], sessions |-> {}]
    /\ issued = {}
    /\ given = {} /\ leaving = {} /\ left = {}
    /\ decided = [u \in Users |-> 0]

-----------------------------------------------------------------------------
(***************************************************************************)
(* Mutations of the account store                                          *)
(***************************************************************************)
SessionsOf(ss, u) == {s \in ss : s.user = u}
WithoutToken(ss, t) == {s \in ss : s.token # t}
Unexpired(ss) == {s \in ss : s.created + Ttl > clock}
LaterThan(ss, s) == {x \in SessionsOf(ss, s.user) : x.number > s.number}

\* Mutant: the newest sessions make room.
LimitedFromTheEnd(ss, u) ==
    {s \in ss : s.user = u =>
        Cardinality({x \in SessionsOf(ss, u) : x.number < s.number}) < MaxSessions - 1}

\* enforceSessionLimit: the oldest sessions of the user make room for one more.
Limited(ss, u) == {s \in ss : s.user = u => Cardinality(LaterThan(ss, s)) < MaxSessions - 1}

\* Mutant: a decision may be made again.
AcceptsAgain(r, d) ==
    CASE r.op = "login" -> d.status[r.user] = "active"
      [] r.op = "signup" -> d.status[r.user] = "none"
      [] r.op \in {"approve", "reject"} -> d.status[r.user] # "none"
      [] r.op = "logout" -> TRUE

\* Does the mutation of request r go through on d, or throw?
Accepts(r, d) ==
    CASE r.op = "login" -> d.status[r.user] = "active"
      [] r.op = "signup" -> d.status[r.user] = "none"
      [] r.op \in {"approve", "reject"} -> d.status[r.user] = "pending"
      [] r.op = "logout" -> TRUE

\* What it makes of d; t is the new token of a login.
Result(r, d, t) ==
    CASE r.op = "login" ->
            [d EXCEPT !.sessions = Limited(Unexpired(@), r.user) \union
                {[number |-> Cardinality(issued) + 1, token |-> t, user |-> r.user, created |-> clock]}]
      [] r.op = "signup" -> [d EXCEPT !.status[r.user] = "pending"]
      [] r.op = "approve" -> [d EXCEPT !.status[r.user] = "active"]
      [] r.op = "reject" ->
            [d EXCEPT !.status[r.user] = "rejected",
                      !.sessions = @ \ SessionsOf(@, r.user)]
      [] r.op = "logout" -> [d EXCEPT !.sessions = WithoutToken(@, r.token)]

\* enqueueMutation: a mutation drafts when those before it have settled.
Turn(c) == queue # <<>> /\ Head(queue) = c /\ call[c].at = "queued"

\* A new random token.
Fresh(r) ==
    IF r.op = "login"
    THEN {t \in Tokens : /\ \A s \in issued : s.token # t
                         /\ \A c \in Calls : call[c].op = "login" => call[c].token # t}
    ELSE {r.token}

Draft(c) ==
    /\ Turn(c)
    /\ Accepts(call[c], data)
    /\ \E t \in Fresh(call[c]) :
        call' = [call EXCEPT ![c].at = "writing", ![c].token = t,
                             ![c].draft = Result(call[c], data, t)]
    /\ UNCHANGED <<clock, storeVars, historyVars>>

\* The request has its answer, and the chain goes on.
Answered(c) ==
    /\ call' = [call EXCEPT ![c] = Idle]
    /\ queue' = Tail(queue)

\* The mutation or its write throws: the request fails, the chain goes on.
Fails(c) ==
    /\ Answered(c)
    /\ UNCHANGED <<clock, data, historyVars>>

\* A password that does not match rejects any login.
Reject(c) == Turn(c) /\ (call[c].op = "login" \/ ~Accepts(call[c], data)) /\ Fails(c)

WriteFails(c) == Faults /\ call[c].at = "writing" /\ Fails(c)

Publish(c) ==
    /\ call[c].at = "writing"
    /\ data' = call[c].draft
    /\ issued' = issued \union data'.sessions
    /\ Answered(c)
    /\ given' = IF call[c].op = "login" THEN given \union {call[c].token} ELSE given
    /\ left' = IF call[c].op = "logout" THEN left \union {call[c].token} ELSE left
    /\ decided' = IF call[c].op \in {"approve", "reject"}
                  THEN [decided EXCEPT ![call[c].user] = @ + 1] ELSE decided
    /\ UNCHANGED <<clock, leaving>>

-----------------------------------------------------------------------------
(***************************************************************************)
(* Requests                                                                *)
(***************************************************************************)
Enqueue(c, op, u, t) ==
    /\ call[c] = Idle
    /\ call' = [call EXCEPT ![c] = [at |-> "queued", op |-> op, user |-> u, token |-> t, draft |-> None]]
    /\ queue' = Append(queue, c)

Login(c, u) ==
    /\ Enqueue(c, "login", u, None)
    /\ UNCHANGED <<clock, data, historyVars>>

Signup(c, u) ==
    /\ Enqueue(c, "signup", u, None)
    /\ UNCHANGED <<clock, data, historyVars>>

\* The administrator sees pending requests only; the list may be out of date.
Decide(c, op, u) ==
    /\ Enqueue(c, op, u, None)
    /\ UNCHANGED <<clock, data, historyVars>>

Logout(c, t) ==
    /\ t \in given
    /\ Enqueue(c, "logout", None, t)
    /\ leaving' = leaving \union {t}
    /\ UNCHANGED <<clock, data, issued, given, left, decided>>

-----------------------------------------------------------------------------
(***************************************************************************)
(* Time and restarts                                                       *)
(***************************************************************************)
Tick ==
    /\ clock < MaxTime
    /\ clock' = clock + 1
    /\ UNCHANGED <<call, storeVars, historyVars>>

\* AccountStore.load: the file has the mutation being written, or not yet.
Recoverable == {call[c].draft : c \in {c \in Calls : call[c].at = "writing"}} \union {data}

Restart ==
    /\ Faults
    /\ data' \in Recoverable
    /\ issued' = issued \union data'.sessions
    /\ call' = [c \in Calls |-> Idle]
    /\ queue' = <<>>
    /\ UNCHANGED <<clock, given, leaving, left, decided>>

-----------------------------------------------------------------------------
Arrives(c) ==
    \/ \E u \in Users : Login(c, u) \/ Signup(c, u)
    \/ \E u \in Users, op \in {"approve", "reject"} : Decide(c, op, u)
    \/ \E t \in Tokens : Logout(c, t)

Step(c) == Draft(c) \/ Reject(c) \/ Publish(c) \/ WriteFails(c)

Next ==
    \/ \E c \in Calls : Arrives(c) \/ Step(c)
    \/ Tick \/ Restart

Spec == Init /\ [][Next]_vars

-----------------------------------------------------------------------------
(***************************************************************************)
(* Properties                                                              *)
(***************************************************************************)
\* AccountStore.authenticate
Authenticates(t) ==
    \E s \in data.sessions :
        s.token = t /\ s.created + Ttl > clock /\ data.status[s.user] = "active"

\* An answered token authenticates until it expires, its logout is asked for, or
\* MaxSessions later logins of the account have taken its place; one whose
\* logout was answered never does again, whatever was queued beside the logout
\* and however often the server restarts; and no account has more sessions than
\* allowed (test/accountStore.test.ts:99, "keeps at most five active sessions").
SessionsHold ==
    /\ \A s \in issued :
        /\ s.token \in given \ leaving
        /\ s.created + Ttl > clock
        /\ Cardinality(LaterThan(issued, s)) < MaxSessions
        => Authenticates(s.token)
    /\ \A t \in left : ~Authenticates(t)
    /\ \A u \in Users : Cardinality(SessionsOf(data.sessions, u)) <= MaxSessions
=============================================================================
