------------------------------ MODULE Adapters ------------------------------
(***************************************************************************)
(* What a command does to the fields of a product: the adapters of         *)
(* Coupang, Naver, Toss and Gmarket (src/src/markets/...Adapter.ts), their *)
(* retries, and the access tokens they share                               *)
(* (src/src/markets/accessTokenCache.ts).                                  *)
(*                                                                         *)
(* Approval takes the whole state of a product on a market as one value;   *)
(* here it has a price, a stock, a sale status, and the stock of the same  *)
(* product at Auction, which Gmarket's interface carries along.  Several   *)
(* calls of execute, of commands approved side by side, meet edits by the  *)
(* seller and orders by customers.  Of the adapters the registry gives out *)
(* those of Coupang and Toss only, and the dry run (registry.ts:9-12); the *)
(* other two are in the code and its tests.                                *)
(***************************************************************************)
EXTENDS Integers, FiniteSets

CONSTANTS
    Kinds,        \* the adapters looked at
    Calls,        \* calls of execute
    Commands,     \* [op, value], those the calls may have
    Products,     \* states the product may begin in
    Tokens,       \* access tokens
    NoToken,
    MaxAttempts,  \* attempts of one request (3 in the code)
    MaxEvents     \* bound: changes that are not SellerHub's, and tokens that end

ASSUME AdaptersAssumption ==
    /\ Kinds \subseteq {"coupang", "naver", "toss", "gmarket", "dry"}
    /\ Commands \subseteq
        [op : {"SET_STOCK", "SET_PRICE", "SET_OUT_OF_STOCK", "STOP_SALES", "RESUME_SALES"}, value : Nat]
    /\ Products \subseteq
        [price : Nat, stock : Nat, status : {"sale", "out", "stopped", "barred"}, auction : Nat]
    /\ NoToken \notin Tokens
    /\ MaxAttempts \in Nat \ {0}
    /\ MaxEvents \in Nat

VARIABLES
    kind,       \* the marketplace
    remote,     \* the product on it
    call,       \* [Calls -> Call]
    wire,       \* requests that change the product, on their way
    events,     \* changes that were not SellerHub's, and tokens that ended
    cache,      \* the cached access token
    valid,      \* tokens the marketplace accepts
    issued,     \* tokens it has issued
    since,      \* history: the values of each field since a call began
    grants      \* history: 1, one more for each cached token that was dropped and each
                \* request for one that failed, less the requests (of Naver)

remoteVars == <<remote, wire, events, since>>
tokenVars == <<cache, valid, issued, grants>>
vars == <<kind, remote, call, wire, events, cache, valid, issued, since, grants>>

(***************************************************************************)
(* Types                                                                   *)
(***************************************************************************)
Fields == {"price", "stock", "status", "auction"}
\* barred: a status of Naver that SellerHub does not set, among them CLOSE and
\* PROHIBITION, which mapStatus shows as STOPPED as it does SUSPENSION.
Product == [price : Nat, stock : Nat, status : {"sale", "out", "stopped", "barred"}, auction : Nat]

\* reading, verifying: getState before and after the change; Toss reads the
\* exposure first and the option with "2".
Stages == {"new", "reading", "reading2", "putting", "verifying", "ok", "failed"}
Call == [at : Stages, cmd : Commands, read : Product, sent : 0..MaxAttempts, done : BOOLEAN,
         token : Tokens \union {NoToken}, asks : {"no", "own", "joined"}]

\* A request is sent with a token, and what it asks for may depend on what was read.
Put == [call : Calls, n : 1..MaxAttempts, read : Product, token : Tokens \union {NoToken}]

TypeOK ==
    /\ kind \in Kinds
    /\ remote \in Product
    /\ call \in [Calls -> Call]
    /\ wire \subseteq Put
    /\ events \in 0..MaxEvents
    /\ cache \in issued \union {NoToken}
    /\ issued \subseteq Tokens /\ valid \subseteq issued
    /\ grants \in Int

\* Only Naver has a status for a product out of stock, and those it is barred with;
\* Auction is part of Gmarket.
Possible(p) == (p.status \in {"out", "barred"} => kind = "naver") /\ (kind # "gmarket" => p.auction = 0)
Unread == [price |-> 0, stock |-> 0, status |-> "sale", auction |-> 0]
Only(product) == [f \in Fields |-> {product[f]}]

Init ==
    /\ kind \in Kinds
    /\ remote \in {p \in Products : Possible(p)}
    /\ call \in [Calls -> [at : {"new"}, cmd : Commands, read : {Unread}, sent : {0},
                           done : {FALSE}, token : {NoToken}, asks : {"no"}]]
    /\ wire = {}
    /\ events = 0
    /\ cache = NoToken /\ valid = {} /\ issued = {}
    /\ since = [c \in Calls |-> Only(remote)]
    /\ grants = 1

-----------------------------------------------------------------------------
Active(c) == call[c].at \notin {"new", "ok", "failed"}
Ended(x, at) == [x EXCEPT !.at = at, !.read = Unread, !.sent = 0, !.token = NoToken, !.asks = "no", !.done = FALSE]
Ends(c, at) == call' = [call EXCEPT ![c] = Ended(@, at)]

\* The product becomes p: calls under way live through it, and those that ended with a
\* request still on its way.
Becomes(p) ==
    /\ remote' = p
    /\ since' = [c \in Calls |->
            IF Active(c) \/ \E q \in wire : q.call = c
            THEN [f \in Fields |-> since[c][f] \union {p[f]}] ELSE since[c]]

Event == events < MaxEvents /\ events' = events + 1

(***************************************************************************)
(* Access tokens.  Naver and Toss use them; the adapter of Naver asks once *)
(* for a call and shares a request in flight (getOrCreateAccessToken), the *)
(* adapter of Toss asks for each getState and for the change, and has no   *)
(* shared request.                                                         *)
(***************************************************************************)
UsesTokens == kind \in {"naver", "toss"}
Ready(c) == Active(c) /\ (UsesTokens => call[c].token # NoToken)

\* Only Naver shares its requests.
Count(n) == grants' = IF kind = "naver" THEN grants + n ELSE grants

InFlight == {c \in Calls : call[c].asks = "own"}

\* Mutant: no single flight.
SharedNever == FALSE

Shared == kind = "naver" /\ InFlight # {}

\* token(): the cached token, a part in the request in flight, or a request of its own.
WithToken(x) ==
    CASE ~UsesTokens -> x
      [] UsesTokens /\ cache # NoToken -> [x EXCEPT !.token = cache]
      [] UsesTokens /\ cache = NoToken ->
            [x EXCEPT !.token = NoToken, !.asks = IF Shared THEN "joined" ELSE "own"]
AskToken(c, x) ==
    /\ call' = [call EXCEPT ![c] = WithToken(x)]
    /\ IF UsesTokens /\ cache = NoToken /\ ~Shared THEN Count(-1) ELSE UNCHANGED grants

\* Toss asks again before its next request.
NextToken(c, x) ==
    IF kind = "toss" THEN AskToken(c, x) ELSE call' = [call EXCEPT ![c] = x] /\ UNCHANGED grants

Start(c) ==
    /\ call[c].at = "new"
    /\ AskToken(c, [call[c] EXCEPT !.at = "reading"])
    /\ since' = [since EXCEPT ![c] = Only(remote)]
    /\ UNCHANGED <<kind, remote, wire, events, cache, valid, issued>>

\* The calls that wait for the request of c.
Party(c) == {c} \union {d \in Calls : call[d].asks = "joined"}

TokenIssued(c, t) ==
    /\ call[c].asks = "own"
    /\ t \notin issued
    /\ issued' = issued \union {t} /\ valid' = valid \union {t}
    /\ cache' = t
    /\ call' = [d \in Calls |->
            IF d \in Party(c) THEN [call[d] EXCEPT !.asks = "no", !.token = t] ELSE call[d]]
    /\ UNCHANGED <<kind, remoteVars, grants>>

TokenFails(c) ==
    /\ call[c].asks = "own"
    /\ call' = [d \in Calls |->
            IF d \in Party(c) THEN Ended(call[d], "failed") ELSE call[d]]
    /\ Count(1)
    /\ UNCHANGED <<kind, remoteVars, cache, valid, issued>>

\* getCachedAccessToken finds that the entry has expired.
CacheExpires ==
    /\ cache # NoToken
    /\ Event
    /\ cache' = NoToken
    /\ Count(1)
    /\ UNCHANGED <<kind, remote, wire, since, call, valid, issued>>

\* invalidateCachedAccessToken
Invalidate(t) ==
    /\ cache' = IF cache = t THEN NoToken ELSE cache
    /\ IF cache = t THEN Count(1) ELSE UNCHANGED grants

\* A 401: the token is dropped, the call fails.
Unauthorised(c, t) ==
    /\ Ends(c, "failed")
    /\ Invalidate(t)
    /\ UNCHANGED <<valid, issued>>

Accepted(t) == UsesTokens => t \in valid

-----------------------------------------------------------------------------
(***************************************************************************)
(* getState                                                                *)
(***************************************************************************)
\* before is complete.
HasRead(c, read) == NextToken(c, [call[c] EXCEPT !.read = read, !.at = "putting"])

Read(c) ==
    /\ Ready(c) /\ call[c].at \in {"reading", "reading2"}
    /\ Accepted(call[c].token)
    /\ IF kind = "toss"
       THEN IF call[c].at = "reading"
            THEN /\ call' = [call EXCEPT ![c].at = "reading2", ![c].read.status = remote.status]
                 /\ UNCHANGED grants
            ELSE HasRead(c, [remote EXCEPT !.status = call[c].read.status])
       ELSE HasRead(c, remote)
    /\ UNCHANGED <<kind, remoteVars, cache, valid, issued>>

\* after: what it holds is in the answer, and nothing depends on it, so that Toss's
\* two reads are one here.
Verify(c) ==
    /\ Ready(c) /\ call[c].at = "verifying"
    /\ Accepted(call[c].token)
    /\ Ends(c, "ok")
    /\ UNCHANGED <<kind, remoteVars, tokenVars>>

ReadRejected(c) ==
    /\ Ready(c) /\ call[c].at # "putting"
    /\ ~Accepted(call[c].token)
    /\ Unauthorised(c, call[c].token)
    /\ UNCHANGED <<kind, remoteVars>>

\* A request fails or times out for the last time, a command is not valid on this
\* market, or a Naver product manages its stock by options.
Fails(c) ==
    /\ Ready(c)
    /\ Ends(c, "failed")
    /\ UNCHANGED <<kind, remoteVars, tokenVars>>

-----------------------------------------------------------------------------
(***************************************************************************)
(* The change                                                              *)
(***************************************************************************)
\* Mutant: one attempt too many.
AttemptsMore == IF kind = "gmarket" THEN 1 ELSE MaxAttempts + 1

\* The adapter of Gmarket does not retry.
Attempts == IF kind = "gmarket" THEN 1 ELSE MaxAttempts

\* What a command may not be used for: execute throws.
Refused(c) ==
    \/ kind # "dry" /\ call[c].cmd.op = "RESUME_SALES" /\ call[c].read.stock = 0
    \/ kind = "gmarket" /\ call[c].cmd.op = "SET_PRICE" /\ call[c].read.status # "sale"

Refuse(c) ==
    /\ Ready(c) /\ call[c].at = "putting"
    /\ Refused(c)
    /\ Ends(c, "failed")
    /\ UNCHANGED <<kind, remoteVars, tokenVars>>

\* The first attempt, and the next one after a timeout or a 429, 502, 503 or 504.
Send(c) ==
    /\ kind # "dry"
    /\ Ready(c) /\ call[c].at = "putting"
    /\ ~Refused(c) /\ call[c].sent < Attempts
    /\ call' = [call EXCEPT ![c].sent = @ + 1, ![c].done = FALSE]
    /\ wire' = wire \union {[call |-> c, n |-> call[c].sent + 1, read |-> call[c].read,
                              token |-> call[c].token]}
    /\ UNCHANGED <<kind, remote, events, since, tokenVars>>

\* Mutant: any answer is taken for a success.
AnyAnswer(c) == call[c].sent > 0 /\ \A p \in wire : p.call # c

Succeeded(c) == call[c].done

Answered(c) ==
    /\ call[c].at = "putting"
    /\ Succeeded(c)
    /\ NextToken(c, [call[c] EXCEPT !.at = "verifying", !.read = Unread])
    /\ UNCHANGED <<kind, remoteVars, cache, valid, issued>>

\* Commands that leave nothing to sell.
Empties(cmd) == cmd.op = "SET_OUT_OF_STOCK" \/ (cmd.op = "SET_STOCK" /\ cmd.value = 0)

\* What the marketplaces make of a command; read is what its call had read.
Single(cmd, p) ==
    CASE cmd.op = "SET_STOCK" -> [p EXCEPT !.stock = cmd.value]
      [] cmd.op = "SET_OUT_OF_STOCK" -> [p EXCEPT !.stock = 0]
      [] cmd.op = "SET_PRICE" -> [p EXCEPT !.price = cmd.value]
      [] cmd.op = "STOP_SALES" -> [p EXCEPT !.status = "stopped"]
      [] cmd.op = "RESUME_SALES" -> [p EXCEPT !.status = "sale"]

\* change-status carries the status with the stock: that of a suspended product, and
\* SALE whatever else was read, CLOSE and PROHIBITION included.
NaverStatus(cmd, read) ==
    CASE Empties(cmd) -> "out"
      [] cmd.op = "SET_STOCK" /\ ~Empties(cmd) ->
            IF read.status = "stopped" THEN "stopped" ELSE "sale"
      [] OTHER -> Single(cmd, read).status
Naver(cmd, read, p) ==
    IF cmd.op = "SET_PRICE" THEN Single(cmd, p)
    ELSE [Single(cmd, p) EXCEPT !.status = NaverStatus(cmd, read)]

\* sell-status carries everything, Auction included, as it was read; a stock is
\* never sent as 0.
AtLeastOne(n) == IF n = 0 THEN 1 ELSE n
GmarketNext(cmd, read) ==
    IF Empties(cmd)
    THEN [read EXCEPT !.status = "stopped"] ELSE Single(cmd, read)
Gmarket(cmd, read) ==
    [GmarketNext(cmd, read) EXCEPT !.stock = AtLeastOne(@), !.auction = AtLeastOne(@)]

\* Mutant: a stock of Naver forgets that sales were stopped.
EffectResumes(cmd, read) ==
    CASE kind = "naver" -> Naver(cmd, [read EXCEPT !.status = "sale"], remote)
      [] kind = "gmarket" -> Gmarket(cmd, read)
      [] OTHER -> Single(cmd, remote)

Effect(cmd, read) ==
    CASE kind = "naver" -> Naver(cmd, read, remote)
      [] kind = "gmarket" -> Gmarket(cmd, read)
      [] OTHER -> Single(cmd, remote)

\* The dry run writes back the whole state it read, with one field set; a stock sets
\* the status as well.
Dry(cmd, read) ==
    IF Empties(cmd) THEN [read EXCEPT !.stock = 0, !.status = "out"]
    ELSE IF cmd.op = "SET_STOCK" THEN [Single(cmd, read) EXCEPT !.status = "sale"]
    ELSE Single(cmd, read)

Simulate(c) ==
    /\ kind = "dry"
    /\ call[c].at = "putting"
    /\ Becomes(Dry(call[c].cmd, call[c].read))
    /\ Ends(c, "ok")
    /\ UNCHANGED <<kind, wire, events, tokenVars>>

\* The attempt the call is waiting for, not one it has given up on.
Awaited(p) == call[p.call].at = "putting" /\ call[p.call].sent = p.n

RemoteApplies(p) ==
    /\ Accepted(p.token)
    /\ wire' = wire \ {p}
    /\ Becomes(Effect(call[p.call].cmd, p.read))
    /\ IF Awaited(p) THEN call' = [call EXCEPT ![p.call].done = TRUE] ELSE UNCHANGED call
    /\ UNCHANGED <<kind, events, tokenVars>>

\* It is refused with an error, or never arrives.
RemoteRefuses(p) ==
    /\ wire' = wire \ {p}
    /\ UNCHANGED <<kind, remote, call, events, since, tokenVars>>

\* It meets a token that is no longer accepted; the caller may have given up on it.
RemoteRejects(p) ==
    /\ ~Accepted(p.token)
    /\ wire' = wire \ {p}
    /\ IF Awaited(p)
       THEN Unauthorised(p.call, p.token)
       ELSE UNCHANGED <<call, tokenVars>>
    /\ UNCHANGED <<kind, remote, events, since>>

-----------------------------------------------------------------------------
(***************************************************************************)
(* Others: the seller on the site of the marketplace, customers, and the   *)
(* marketplace ending the life of its tokens.                              *)
(***************************************************************************)
Edit(p) ==
    /\ kind # "dry"
    /\ Event
    /\ p # remote
    /\ Possible(p)
    /\ Becomes(p)
    /\ UNCHANGED <<kind, call, wire, tokenVars>>

Revoke(t) ==
    /\ Event
    /\ t \in valid
    /\ valid' = valid \ {t}
    /\ UNCHANGED <<kind, remote, wire, since, call, cache, issued, grants>>

-----------------------------------------------------------------------------
TokenStep(c) ==
    TokenFails(c) \/ \E t \in Tokens : TokenIssued(c, t)
CallStep(c) ==
    Start(c) \/ Read(c) \/ Simulate(c) \/ Refuse(c) \/ Send(c) \/ Answered(c) \/ Verify(c) \/ ReadRejected(c) \/ Fails(c)
RemoteStep(p) == RemoteApplies(p) \/ RemoteRefuses(p) \/ RemoteRejects(p)

Next ==
    \/ \E c \in Calls : TokenStep(c) \/ CallStep(c)
    \/ \E p \in wire : RemoteStep(p)
    \/ \E p \in Products : Edit(p)
    \/ CacheExpires
    \/ \E t \in Tokens : Revoke(t)

Spec == Init /\ [][Next]_vars

-----------------------------------------------------------------------------
(***************************************************************************)
(* Properties                                                              *)
(***************************************************************************)
\* The field a command is about.
About(cmd) ==
    CASE cmd.op \in {"SET_STOCK", "SET_OUT_OF_STOCK"} -> "stock"
      [] cmd.op = "SET_PRICE" -> "price"
      [] OTHER -> "status"

\* A stock of Naver goes out with SALE unless the product was suspended: one that was
\* out of stock is sold again, and so is one that was barred (naverAdapter.ts:43).
Reopens(c) ==
    /\ kind = "naver" /\ call[c].cmd.op = "SET_STOCK" /\ ~Empties(call[c].cmd)
    /\ since[c].status \intersect {"out", "barred"} # {}

\* Sales end with the stock.
EndsSales(c) ==
    IF ~Empties(call[c].cmd) THEN {}
    ELSE CASE kind = "naver" -> {"out"} [] kind = "gmarket" -> {"stopped"} [] OTHER -> {}

\* Values a change of call c may give to a field it is not about: one the field has
\* had since the call began, a sale that ends or begins with the stock, and Gmarket's 1
\* for a stock of 0.
Harmless(c, f) ==
    since[c][f] \union
    CASE f = "status" -> EndsSales(c) \union (IF Reopens(c) THEN {"sale"} ELSE {})
      [] f \in {"stock", "auction"} -> IF kind = "gmarket" /\ 0 \in since[c][f] THEN {1} ELSE {}
      [] OTHER -> {}

\* However late a change arrives and whatever was edited meanwhile, it gives the
\* fields its command is not about no value they have not had since its call began:
\* a price does not put a stopped product on sale, a stock does not change a price, nor
\* does it resume sales the seller has suspended.  What Naver has closed or prohibited
\* a stock does try to put on sale (Reopens).
NothingInvented ==
    [][\A p \in wire \ wire', f \in Fields :
        f # About(call[p.call].cmd) => remote'[f] \in Harmless(p.call, f) \union {remote[f]}]_vars

\* A call that is answered with ok has had its effect: the product was in the state
\* asked for at some moment of the call, although answers get lost, attempts are
\* repeated and tokens rejected.
Reached(c) ==
    LET cmd == call[c].cmd
    IN  CASE cmd.op = "SET_PRICE" -> cmd.value \in since[c].price
          [] cmd.op = "STOP_SALES" -> "stopped" \in since[c].status
          [] cmd.op = "RESUME_SALES" -> "sale" \in since[c].status
          [] cmd.op = "SET_STOCK" /\ ~Empties(cmd) -> cmd.value \in since[c].stock
          [] OTHER -> 0 \in since[c].stock \/ (kind = "gmarket" /\ "stopped" \in since[c].status)
OkMeansReached == \A c \in Calls : call[c].at = "ok" => Reached(c)

\* Parallel calls of Naver share a request for a token ("shares one in-flight OAuth
\* request", test/naverAdapterOAuthSingleFlight.test.ts): after the first there is one for
\* each token that expired or met a 401 and for each request that failed, whoever waits.
TokensFresh == grants >= 0
=============================================================================
