--------------------------- MODULE AdaptersProofs ---------------------------
(***************************************************************************)
(* Safety of the adapters (Adapters), proved for any number of calls,      *)
(* commands, tokens, attempts and edits by the seller.                     *)
(***************************************************************************)
EXTENDS Adapters, TLAPS

-----------------------------------------------------------------------------
(***************************************************************************)
(* The inductive invariant                                                 *)
(***************************************************************************)
\* The product has these values among those of s
Within(s, product) == \A f \in Fields : product[f] \in s[f]

\* Reached, of a command and the values since its call began
ReachedIn(cmd, s) ==
    CASE cmd.op = "SET_PRICE" -> cmd.value \in s.price
      [] cmd.op = "STOP_SALES" -> "stopped" \in s.status
      [] cmd.op = "RESUME_SALES" -> "sale" \in s.status
      [] cmd.op = "SET_STOCK" /\ ~Empties(cmd) -> cmd.value \in s.stock
      [] OTHER -> 0 \in s.stock \/ (kind = "gmarket" /\ "stopped" \in s.status)

\* A call x, the values s since it began, the product: what it has read is not older
\* than itself; if its request succeeded, it has had its effect.
Fine(x, s, product) ==
    /\ x.at \notin {"new", "ok", "failed"} => Within(s, product)
    /\ x.at = "putting" => Within(s, x.read)
    /\ x.at = "reading2" => x.read.status \in s.status
    /\ x.at = "new" => x.done = FALSE /\ x.asks = "no"
    /\ x.done = TRUE \/ x.at \in {"verifying", "ok"} => ReachedIn(x.cmd, s)

CallsFine == \A c \in Calls : Fine(call[c], since[c], remote)

\* What a request on its way carries is not older than its call, even if that has
\* given up on it.
WireFine == \A p \in wire : call[p.call].at # "new" /\ Within(since[p.call], p.read)

\* One request for a token at a time, when there is none; before it is sent, there is a
\* grant for it.
Granted ==
    /\ kind # "naver" => grants = 1
    /\ kind = "naver" =>
        /\ \A c \in Calls : call[c].asks # "no" => call[c].at = "reading" /\ call[c].token = NoToken
        /\ \A c, d \in Calls : call[c].asks = "own" /\ call[d].asks = "own" => c = d
        /\ \A c \in Calls : call[c].asks = "own" => cache = NoToken
        /\ cache = NoToken /\ (\A c \in Calls : call[c].asks # "own") => grants >= 1
        /\ grants >= 0

\* All but the grants
Sound == TypeOK /\ DOMAIN since = Calls /\ CallsFine /\ WireFine

IInv == Sound /\ Granted

-----------------------------------------------------------------------------
(***************************************************************************)
(* Types                                                                   *)
(***************************************************************************)
LEMMA CommandIs ==
    ASSUME NEW cmd \in Commands
    PROVE  /\ cmd.op \in {"SET_STOCK", "SET_PRICE", "SET_OUT_OF_STOCK", "STOP_SALES", "RESUME_SALES"}
           /\ cmd.value \in Nat
BY AdaptersAssumption

LEMMA UnreadIs == Unread \in Product
BY DEF Unread, Product

LEMMA CallIs ==
    ASSUME TypeOK, NEW c \in Calls
    PROVE  /\ call[c] \in Call /\ call[c].cmd \in Commands /\ call[c].read \in Product
           /\ call[c].at \in Stages /\ call[c].sent \in 0..MaxAttempts /\ call[c].done \in BOOLEAN
           /\ call[c].token \in Tokens \union {NoToken} /\ call[c].asks \in {"no", "own", "joined"}
<1>1. call[c] \in Call
    BY DEF TypeOK
<1> QED BY <1>1 DEF Call

LEMMA PutIs ==
    ASSUME TypeOK, NEW p \in wire
    PROVE  p \in Put /\ p.call \in Calls /\ p.read \in Product /\ p.token \in Tokens \union {NoToken}
BY DEF TypeOK, Put

LEMMA EndedIs ==
    ASSUME NEW x \in Call, NEW at \in {"ok", "failed"}
    PROVE  /\ Ended(x, at) \in Call
           /\ Ended(x, at).at = at /\ Ended(x, at).cmd = x.cmd
           /\ Ended(x, at).token = NoToken /\ Ended(x, at).asks = "no" /\ Ended(x, at).done = FALSE
<1>1. 0 \in 0..MaxAttempts /\ at \in Stages
    BY AdaptersAssumption DEF Stages
<1>2. PICK u \in Product : u = Unread
    BY UnreadIs
<1>3. Ended(x, at) = [x EXCEPT !.at = at, !.read = u, !.sent = 0, !.token = NoToken, !.asks = "no", !.done = FALSE]
    BY <1>2 DEF Ended
<1> QED BY <1>1, <1>3 DEF Call

LEMMA WithTokenIs ==
    ASSUME TypeOK, NEW x \in Call
    PROVE  /\ WithToken(x) \in Call
           /\ WithToken(x).at = x.at /\ WithToken(x).cmd = x.cmd /\ WithToken(x).read = x.read
           /\ WithToken(x).done = x.done
           /\ kind = "naver" => WithToken(x).asks =
                IF cache # NoToken THEN x.asks ELSE IF Shared THEN "joined" ELSE "own"
           /\ kind = "naver" /\ cache = NoToken => WithToken(x).token = NoToken
<1>1. cache \in Tokens \union {NoToken}
    BY DEF TypeOK
<1>2. CASE ~UsesTokens
    <2>1. WithToken(x) = x
        BY <1>2 DEF WithToken
    <2> QED BY <1>2, <2>1 DEF UsesTokens
<1>3. CASE UsesTokens /\ cache # NoToken
    <2>1. WithToken(x) = [x EXCEPT !.token = cache]
        BY <1>3 DEF WithToken
    <2> QED BY <1>1, <1>3, <2>1 DEF Call
<1>4. CASE UsesTokens /\ cache = NoToken
    <2>1. PICK a \in {"joined", "own"} : a = IF Shared THEN "joined" ELSE "own"
        OBVIOUS
    <2>2. WithToken(x) = [x EXCEPT !.token = NoToken, !.asks = a]
        BY <1>4, <2>1 DEF WithToken
    <2> QED BY <1>4, <2>1, <2>2 DEF Call
<1> QED BY <1>2, <1>3, <1>4

\* What the commands make of a product is a product, and the product asked for.
LEMMA SingleIs ==
    ASSUME NEW cmd \in Commands, NEW p \in Product
    PROVE  /\ Single(cmd, p) \in Product
           /\ Single(cmd, p).auction = p.auction
           /\ Single(cmd, p).price = IF cmd.op = "SET_PRICE" THEN cmd.value ELSE p.price
           /\ Single(cmd, p).stock = IF cmd.op = "SET_STOCK" THEN cmd.value
                                     ELSE IF cmd.op = "SET_OUT_OF_STOCK" THEN 0 ELSE p.stock
           /\ Single(cmd, p).status = IF cmd.op = "STOP_SALES" THEN "stopped"
                                      ELSE IF cmd.op = "RESUME_SALES" THEN "sale" ELSE p.status
<1>1. cmd.value \in Nat
    BY CommandIs
<1>2. CASE cmd.op = "SET_STOCK"
    <2>1. Single(cmd, p) = [p EXCEPT !.stock = cmd.value]
        BY <1>2 DEF Single
    <2> QED BY <1>1, <1>2, <2>1 DEF Product
<1>3. CASE cmd.op = "SET_OUT_OF_STOCK"
    <2>1. Single(cmd, p) = [p EXCEPT !.stock = 0]
        BY <1>3 DEF Single
    <2> QED BY <1>3, <2>1 DEF Product
<1>4. CASE cmd.op = "SET_PRICE"
    <2>1. Single(cmd, p) = [p EXCEPT !.price = cmd.value]
        BY <1>4 DEF Single
    <2> QED BY <1>1, <1>4, <2>1 DEF Product
<1>5. CASE cmd.op = "STOP_SALES"
    <2>1. Single(cmd, p) = [p EXCEPT !.status = "stopped"]
        BY <1>5 DEF Single
    <2> QED BY <1>5, <2>1 DEF Product
<1>6. CASE cmd.op = "RESUME_SALES"
    <2>1. Single(cmd, p) = [p EXCEPT !.status = "sale"]
        BY <1>6 DEF Single
    <2> QED BY <1>6, <2>1 DEF Product
<1> QED BY <1>2, <1>3, <1>4, <1>5, <1>6, CommandIs

LEMMA NaverIs ==
    ASSUME NEW cmd \in Commands, NEW read \in Product, NEW p \in Product
    PROVE  /\ Naver(cmd, read, p) \in Product
           /\ Naver(cmd, read, p).auction = p.auction
           /\ Naver(cmd, read, p).price = Single(cmd, p).price
           /\ Naver(cmd, read, p).stock = Single(cmd, p).stock
           /\ Naver(cmd, read, p).status =
                IF cmd.op = "SET_PRICE" THEN p.status
                ELSE IF Empties(cmd) THEN "out"
                ELSE IF cmd.op = "SET_STOCK" THEN IF read.status = "stopped" THEN "stopped" ELSE "sale"
                ELSE IF cmd.op = "STOP_SALES" THEN "stopped" ELSE "sale"
<1>1. Single(cmd, p) \in Product /\ Single(cmd, p).auction = p.auction
    BY SingleIs
<1>2. CASE cmd.op = "SET_PRICE"
    <2>1. Naver(cmd, read, p) = Single(cmd, p)
        BY <1>2 DEF Naver
    <2>2. Single(cmd, p).status = p.status
        BY <1>2, SingleIs
    <2> QED BY <1>1, <1>2, <2>1, <2>2
<1>3. CASE cmd.op # "SET_PRICE"
    <2>1. PICK st : st = NaverStatus(cmd, read)
        OBVIOUS
    <2>2. st = IF Empties(cmd) THEN "out"
               ELSE IF cmd.op = "SET_STOCK" THEN IF read.status = "stopped" THEN "stopped" ELSE "sale"
               ELSE IF cmd.op = "STOP_SALES" THEN "stopped" ELSE "sale"
        <3>1. CASE Empties(cmd)
            BY <2>1, <3>1 DEF NaverStatus
        <3>2. CASE cmd.op = "SET_STOCK" /\ ~Empties(cmd)
            BY <2>1, <3>2 DEF NaverStatus
        <3>3. CASE cmd.op # "SET_STOCK" /\ ~Empties(cmd)
            <4>1. st = Single(cmd, read).status
                BY <2>1, <3>3 DEF NaverStatus
            <4>2. cmd.op = "STOP_SALES" \/ cmd.op = "RESUME_SALES"
                BY <1>3, <3>3, CommandIs DEF Empties
            <4> QED BY <3>3, <4>1, <4>2, SingleIs
        <3> QED BY <3>1, <3>2, <3>3
    <2>3. st \in {"sale", "out", "stopped"}
        BY <2>2
    <2>4. Naver(cmd, read, p) = [Single(cmd, p) EXCEPT !.status = st]
        BY <1>3, <2>1 DEF Naver
    <2>5. PICK s \in Product : s = Single(cmd, p)
        BY <1>1
    <2>6. Naver(cmd, read, p) = [s EXCEPT !.status = st]
        BY <2>4, <2>5
    <2>7. /\ [s EXCEPT !.status = st] \in Product /\ [s EXCEPT !.status = st].status = st
          /\ [s EXCEPT !.status = st].auction = s.auction /\ [s EXCEPT !.status = st].price = s.price
          /\ [s EXCEPT !.status = st].stock = s.stock
        BY <2>3 DEF Product
    <2> QED BY <1>1, <1>3, <2>2, <2>5, <2>6, <2>7
<1> QED BY <1>2, <1>3

LEMMA GmarketIs ==
    ASSUME NEW cmd \in Commands, NEW read \in Product
    PROVE  /\ Gmarket(cmd, read) \in Product
           /\ Gmarket(cmd, read).auction = AtLeastOne(read.auction)
           /\ Gmarket(cmd, read).price = IF Empties(cmd) THEN read.price ELSE Single(cmd, read).price
           /\ Gmarket(cmd, read).stock = AtLeastOne(IF Empties(cmd) THEN read.stock ELSE Single(cmd, read).stock)
           /\ Gmarket(cmd, read).status = IF Empties(cmd) THEN "stopped" ELSE Single(cmd, read).status
<1>1. PICK n : n = GmarketNext(cmd, read)
    OBVIOUS
<1>2. /\ n \in Product /\ n.auction = read.auction
      /\ n.price = IF Empties(cmd) THEN read.price ELSE Single(cmd, read).price
      /\ n.stock = IF Empties(cmd) THEN read.stock ELSE Single(cmd, read).stock
      /\ n.status = IF Empties(cmd) THEN "stopped" ELSE Single(cmd, read).status
    <2>1. CASE Empties(cmd)
        <3>1. n = [read EXCEPT !.status = "stopped"]
            BY <1>1, <2>1 DEF GmarketNext
        <3> QED BY <2>1, <3>1 DEF Product
    <2>2. CASE ~Empties(cmd)
        BY <1>1, <2>2, SingleIs DEF GmarketNext
    <2> QED BY <2>1, <2>2
<1>3. n.stock \in Nat /\ n.auction \in Nat
    BY <1>2 DEF Product
<1>4. PICK a, b \in Nat : a = AtLeastOne(n.stock) /\ b = AtLeastOne(n.auction)
    BY <1>3 DEF AtLeastOne
<1>5. Gmarket(cmd, read) = [n EXCEPT !.stock = a, !.auction = b]
    BY <1>1, <1>2, <1>4 DEF Gmarket, Product
<1>6. /\ [n EXCEPT !.stock = a, !.auction = b] \in Product
      /\ [n EXCEPT !.stock = a, !.auction = b].stock = a
      /\ [n EXCEPT !.stock = a, !.auction = b].auction = b
      /\ [n EXCEPT !.stock = a, !.auction = b].price = n.price
      /\ [n EXCEPT !.stock = a, !.auction = b].status = n.status
    BY <1>2 DEF Product
<1> QED BY <1>2, <1>4, <1>5, <1>6

LEMMA DryIs ==
    ASSUME NEW cmd \in Commands, NEW read \in Product
    PROVE  /\ Dry(cmd, read) \in Product
           /\ Dry(cmd, read).price = IF cmd.op = "SET_PRICE" THEN cmd.value ELSE read.price
           /\ Dry(cmd, read).stock = IF Empties(cmd) THEN 0
                                     ELSE IF cmd.op = "SET_STOCK" THEN cmd.value ELSE read.stock
           /\ cmd.op = "STOP_SALES" => Dry(cmd, read).status = "stopped"
           /\ cmd.op = "RESUME_SALES" => Dry(cmd, read).status = "sale"
<1>1. CASE Empties(cmd)
    <2>1. Dry(cmd, read) = [read EXCEPT !.stock = 0, !.status = "out"]
        BY <1>1 DEF Dry
    <2>2. cmd.op = "SET_STOCK" \/ cmd.op = "SET_OUT_OF_STOCK"
        BY <1>1 DEF Empties
    <2>3. /\ [read EXCEPT !.stock = 0, !.status = "out"] \in Product
          /\ [read EXCEPT !.stock = 0, !.status = "out"].price = read.price
          /\ [read EXCEPT !.stock = 0, !.status = "out"].stock = 0
        BY DEF Product
    <2> QED BY <1>1, <2>1, <2>2, <2>3
<1>2. CASE ~Empties(cmd) /\ cmd.op = "SET_STOCK"
    <2>1. PICK s \in Product : s = Single(cmd, read) /\ s.price = read.price /\ s.stock = cmd.value
        BY <1>2, SingleIs
    <2>2. Dry(cmd, read) = [s EXCEPT !.status = "sale"]
        BY <1>2, <2>1 DEF Dry
    <2> QED BY <1>2, <2>1, <2>2 DEF Product
<1>3. CASE ~Empties(cmd) /\ cmd.op # "SET_STOCK"
    <2>1. Dry(cmd, read) = Single(cmd, read)
        BY <1>3 DEF Dry
    <2>2. cmd.op # "SET_OUT_OF_STOCK"
        BY <1>3 DEF Empties
    <2> QED BY <1>3, <2>1, <2>2, SingleIs
<1> QED BY <1>1, <1>2, <1>3

\* The product is then in the state asked for.
Has(cmd, p) ==
    CASE cmd.op = "SET_PRICE" -> p.price = cmd.value
      [] cmd.op = "STOP_SALES" -> p.status = "stopped"
      [] cmd.op = "RESUME_SALES" -> p.status = "sale"
      [] cmd.op = "SET_STOCK" /\ ~Empties(cmd) -> p.stock = cmd.value
      [] OTHER -> p.stock = 0 \/ (kind = "gmarket" /\ p.status = "stopped")

LEMMA HasIs ==
    ASSUME NEW cmd \in Commands, NEW p,
           cmd.op = "SET_PRICE" => p.price = cmd.value,
           cmd.op = "STOP_SALES" => p.status = "stopped",
           cmd.op = "RESUME_SALES" => p.status = "sale",
           cmd.op = "SET_STOCK" /\ ~Empties(cmd) => p.stock = cmd.value,
           Empties(cmd) => p.stock = 0 \/ (kind = "gmarket" /\ p.status = "stopped")
    PROVE  Has(cmd, p)
<1>1. CASE cmd.op = "SET_PRICE"
    BY <1>1 DEF Has
<1>2. CASE cmd.op = "STOP_SALES"
    BY <1>2 DEF Has
<1>3. CASE cmd.op = "RESUME_SALES"
    BY <1>3 DEF Has
<1>4. CASE cmd.op = "SET_STOCK" /\ ~Empties(cmd)
    BY <1>4 DEF Has
<1>5. CASE Empties(cmd)
    <2>1. cmd.op # "SET_PRICE" /\ cmd.op # "STOP_SALES" /\ cmd.op # "RESUME_SALES"
        BY <1>5 DEF Empties
    <2> QED BY <1>5, <2>1 DEF Has
<1> QED BY <1>1, <1>2, <1>3, <1>4, <1>5, CommandIs DEF Empties

LEMMA EffectHas ==
    ASSUME TypeOK, NEW cmd \in Commands, NEW read \in Product
    PROVE  Effect(cmd, read) \in Product /\ Has(cmd, Effect(cmd, read))
<1>1. PICK e : e = Effect(cmd, read)
    OBVIOUS
<1>2. remote \in Product /\ cmd.value \in Nat
    BY CommandIs DEF TypeOK
<1>3. Empties(cmd) => \/ cmd.op = "SET_OUT_OF_STOCK"
                      \/ cmd.op = "SET_STOCK" /\ cmd.value = 0
    BY DEF Empties
<1>4. CASE kind = "naver"
    <2>1. e = Naver(cmd, read, remote)
        BY <1>1, <1>4 DEF Effect
    <2>2. e \in Product
        BY <1>2, <2>1, NaverIs
    <2>3. Has(cmd, e)
        <3>1. /\ e.price = Single(cmd, remote).price /\ e.stock = Single(cmd, remote).stock
              /\ cmd.op = "STOP_SALES" => e.status = "stopped"
              /\ cmd.op = "RESUME_SALES" => e.status = "sale"
            BY <1>2, <2>1, NaverIs DEF Empties
        <3> QED BY <1>2, <1>3, <3>1, SingleIs, HasIs
    <2> QED BY <1>1, <2>2, <2>3
<1>5. CASE kind = "gmarket"
    <2>1. e = Gmarket(cmd, read)
        BY <1>1, <1>5 DEF Effect
    <2>2. e \in Product
        BY <2>1, GmarketIs
    <2>3. Has(cmd, e)
        <3>1. /\ Empties(cmd) => e.status = "stopped"
              /\ ~Empties(cmd) => /\ e.price = Single(cmd, read).price
                                  /\ e.status = Single(cmd, read).status
                                  /\ e.stock = AtLeastOne(Single(cmd, read).stock)
            BY <2>1, GmarketIs
        <3>2. cmd.op = "SET_STOCK" /\ ~Empties(cmd) => AtLeastOne(cmd.value) = cmd.value
            BY DEF Empties, AtLeastOne
        <3>3. /\ cmd.op = "SET_PRICE" => Single(cmd, read).price = cmd.value
              /\ cmd.op = "SET_STOCK" => Single(cmd, read).stock = cmd.value
              /\ cmd.op = "STOP_SALES" => Single(cmd, read).status = "stopped"
              /\ cmd.op = "RESUME_SALES" => Single(cmd, read).status = "sale"
            BY SingleIs
        <3>4. cmd.op \in {"SET_PRICE", "STOP_SALES", "RESUME_SALES"} => ~Empties(cmd)
            BY DEF Empties
        <3> QED BY <1>5, <3>1, <3>2, <3>3, <3>4, HasIs
    <2> QED BY <1>1, <2>2, <2>3
<1>6. CASE kind # "naver" /\ kind # "gmarket"
    <2>1. e = Single(cmd, remote)
        BY <1>1, <1>6 DEF Effect
    <2> QED BY <1>1, <1>2, <1>3, <2>1, SingleIs, HasIs
<1> QED BY <1>4, <1>5, <1>6

LEMMA DryHas ==
    ASSUME NEW cmd \in Commands, NEW read \in Product
    PROVE  Dry(cmd, read) \in Product /\ Has(cmd, Dry(cmd, read))
<1>1. cmd.op = "SET_STOCK" /\ ~Empties(cmd) => Dry(cmd, read).stock = cmd.value
    BY DryIs
<1>2. Empties(cmd) => Dry(cmd, read).stock = 0
    BY DryIs
<1> QED BY <1>1, <1>2, DryIs, HasIs

-----------------------------------------------------------------------------
(***************************************************************************)
(* Calls and products                                                      *)
(***************************************************************************)
LEMMA FieldsAre == "price" \in Fields /\ "stock" \in Fields /\ "status" \in Fields /\ "auction" \in Fields
BY DEF Fields

LEMMA HasReached ==
    ASSUME NEW cmd \in Commands, NEW p, NEW s, Has(cmd, p), Within(s, p)
    PROVE  ReachedIn(cmd, s)
<1>1. p.price \in s.price /\ p.stock \in s.stock /\ p.status \in s.status
    BY FieldsAre DEF Within
<1>2. CASE cmd.op = "SET_PRICE"
    BY <1>1, <1>2 DEF Has, ReachedIn
<1>3. CASE cmd.op = "STOP_SALES"
    BY <1>1, <1>3 DEF Has, ReachedIn
<1>4. CASE cmd.op = "RESUME_SALES"
    BY <1>1, <1>4 DEF Has, ReachedIn
<1>5. CASE cmd.op = "SET_STOCK" /\ ~Empties(cmd)
    BY <1>1, <1>5 DEF Has, ReachedIn
<1>6. CASE Empties(cmd)
    <2>1. cmd.op # "SET_PRICE" /\ cmd.op # "STOP_SALES" /\ cmd.op # "RESUME_SALES"
        BY <1>6 DEF Empties
    <2> QED BY <1>1, <1>6, <2>1 DEF Has, ReachedIn
<1> QED BY <1>2, <1>3, <1>4, <1>5, <1>6, CommandIs DEF Empties

Grows(s, t) == \A f \in Fields : s[f] \subseteq t[f]

LEMMA ReachedGrows ==
    ASSUME NEW cmd \in Commands, NEW s, NEW t, Grows(s, t), ReachedIn(cmd, s)
    PROVE  ReachedIn(cmd, t)
<1>1. s.price \subseteq t.price /\ s.stock \subseteq t.stock /\ s.status \subseteq t.status
    BY FieldsAre DEF Grows
<1>2. CASE cmd.op = "SET_PRICE"
    BY <1>1, <1>2 DEF ReachedIn
<1>3. CASE cmd.op = "STOP_SALES"
    BY <1>1, <1>3 DEF ReachedIn
<1>4. CASE cmd.op = "RESUME_SALES"
    BY <1>1, <1>4 DEF ReachedIn
<1>5. CASE cmd.op = "SET_STOCK" /\ ~Empties(cmd)
    BY <1>1, <1>5 DEF ReachedIn
<1>6. CASE Empties(cmd)
    <2>1. cmd.op # "SET_PRICE" /\ cmd.op # "STOP_SALES" /\ cmd.op # "RESUME_SALES"
        BY <1>6 DEF Empties
    <2> QED BY <1>1, <1>6, <2>1 DEF ReachedIn
<1> QED BY <1>2, <1>3, <1>4, <1>5, <1>6, CommandIs DEF Empties

\* What the end of another call, or news of a token, do to a call.
Moves(x, y) ==
    /\ y.cmd = x.cmd
    /\ x.at = "new" => y = x
    /\ \/ y.at = x.at /\ y.read = x.read /\ y.done = x.done
       \/ x.at # "new" /\ y.at = "failed" /\ y.done = FALSE

LEMMA FineMoves ==
    ASSUME NEW x \in Call, NEW y \in Call, NEW s, NEW t, NEW p, NEW q,
           Fine(x, s, p), Moves(x, y), Grows(s, t),
           x.at \notin {"new", "ok", "failed"} => Within(t, q)
    PROVE  Fine(y, t, q)
<1>1. x.cmd \in Commands /\ y.cmd = x.cmd
    BY DEF Call, Moves
<1>2. CASE y.at = x.at /\ y.read = x.read /\ y.done = x.done
    <2>1. x.at = "putting" => Within(t, x.read)
        BY DEF Fine, Within, Grows
    <2>2. x.at = "reading2" => x.read.status \in t.status
        BY FieldsAre DEF Fine, Grows
    <2>3. x.done = TRUE \/ x.at \in {"verifying", "ok"} => ReachedIn(x.cmd, t)
        BY <1>1, ReachedGrows DEF Fine
    <2>4. y.at = "new" => y.done = FALSE /\ y.asks = "no"
        BY <1>2 DEF Fine, Moves
    <2> QED BY <1>1, <1>2, <2>1, <2>2, <2>3, <2>4 DEF Fine
<1>3. CASE y.at = "failed" /\ y.done = FALSE
    BY <1>3 DEF Fine
<1> QED BY <1>2, <1>3 DEF Moves

\* The product changes, and with it the values of every call that it meets.
Met == remote' \in Product /\ ((remote' = remote /\ since' = since) \/ Becomes(remote'))

LEMMA MetGrows ==
    ASSUME IInv, Met
    PROVE  /\ DOMAIN since' = Calls
           /\ \A c \in Calls : /\ Grows(since[c], since'[c])
                               /\ Active(c) => Within(since'[c], remote')
<1>1. CASE remote' = remote /\ since' = since
    <2>1. \A c \in Calls : Grows(since[c], since[c])
        BY DEF Grows
    <2>2. \A c \in Calls : Active(c) => Within(since[c], remote)
        BY DEF IInv, Sound, CallsFine, Fine, Active
    <2> QED BY <1>1, <2>1, <2>2 DEF IInv, Sound
<1>2. CASE Becomes(remote')
    <2>1. since' = [c \in Calls |->
                IF Active(c) \/ \E q \in wire : q.call = c
                THEN [f \in Fields |-> since[c][f] \union {remote'[f]}] ELSE since[c]]
        BY <1>2 DEF Becomes
    <2>2. ASSUME NEW c \in Calls
          PROVE  Grows(since[c], since'[c]) /\ (Active(c) => Within(since'[c], remote'))
        <3>1. CASE Active(c) \/ \E q \in wire : q.call = c
            <4>1. since'[c] = [f \in Fields |-> since[c][f] \union {remote'[f]}]
                BY <2>1, <3>1
            <4> QED BY <4>1 DEF Grows, Within
        <3>2. CASE ~(Active(c) \/ \E q \in wire : q.call = c)
            <4>1. since'[c] = since[c]
                BY <2>1, <3>2
            <4> QED BY <3>2, <4>1 DEF Grows
        <3> QED BY <3>1, <3>2
    <2> QED BY <2>1, <2>2
<1> QED BY <1>1, <1>2 DEF Met

Counted ==
    /\ events \in 0..MaxEvents
    /\ cache \in issued \union {NoToken} /\ issued \subseteq Tokens /\ valid \subseteq issued
    /\ grants \in Int

\* Calls move, none of their requests is sent.
LEMMA AllMove ==
    ASSUME IInv, kind' = kind, Met, Counted', wire' \subseteq wire,
           call' \in [Calls -> Call], \A c \in Calls : Moves(call[c], call'[c])
    PROVE  Sound'
<1>1. DOMAIN since' = Calls /\ \A c \in Calls : Grows(since[c], since'[c])
                                                /\ (Active(c) => Within(since'[c], remote'))
    BY MetGrows
<1>2. ASSUME NEW c \in Calls PROVE Fine(call'[c], since'[c], remote')
    <2>1. call[c] \in Call /\ call'[c] \in Call /\ Fine(call[c], since[c], remote) /\ Moves(call[c], call'[c])
        BY CallIs DEF IInv, Sound, CallsFine
    <2>2. call[c].at \notin {"new", "ok", "failed"} => Within(since'[c], remote')
        BY <1>1 DEF Active
    <2> QED BY <1>1, <2>1, <2>2, FineMoves
<1>3. ASSUME NEW p \in wire PROVE call'[p.call].at # "new" /\ Within(since'[p.call], p.read)
    <2>1. p.call \in Calls
        BY PutIs DEF IInv, Sound
    <2>2. call[p.call].at # "new" /\ Within(since[p.call], p.read)
        BY DEF IInv, Sound, WireFine
    <2>3. call'[p.call].at # "new"
        BY <2>1, <2>2 DEF Moves
    <2> QED BY <1>1, <2>1, <2>2, <2>3 DEF Within, Grows
<1>4. CallsFine'
    BY <1>2 DEF CallsFine, Fine, ReachedIn, Within
<1>5. WireFine'
    BY <1>3 DEF WireFine, Within
<1>6. TypeOK'
    BY DEF TypeOK, Counted, Met, IInv, Sound
<1> QED BY <1>1, <1>4, <1>5, <1>6 DEF Sound

\* One call makes a step, and may send a request with what it has read.
LEMMA OneMoves ==
    ASSUME IInv, kind' = kind, Met, Counted', NEW c \in Calls, NEW y \in Call,
           call' = [call EXCEPT ![c] = y], y.at # "new", Fine(y, since'[c], remote'),
           wire' \subseteq Put,
           \A q \in wire' \ wire : q.call = c /\ Within(since'[c], q.read)
    PROVE  Sound'
<1>1. DOMAIN since' = Calls /\ \A d \in Calls : Grows(since[d], since'[d])
                                                /\ (Active(d) => Within(since'[d], remote'))
    BY MetGrows
<1>2. call \in [Calls -> Call]
    BY DEF IInv, Sound, TypeOK
<1>3. call' \in [Calls -> Call] /\ call'[c] = y /\ \A d \in Calls : d # c => call'[d] = call[d]
    BY <1>2
<1>4. ASSUME NEW d \in Calls PROVE Fine(call'[d], since'[d], remote')
    <2>1. CASE d = c
        BY <1>3, <2>1
    <2>2. CASE d # c
        <3>1. call[d] \in Call /\ call'[d] = call[d] /\ Fine(call[d], since[d], remote)
            BY <1>2, <1>3, <2>2 DEF IInv, Sound, CallsFine
        <3>2. Moves(call[d], call[d])
            BY DEF Moves
        <3>3. call[d].at \notin {"new", "ok", "failed"} => Within(since'[d], remote')
            BY <1>1 DEF Active
        <3>4. Fine(call[d], since'[d], remote')
            BY <1>1, <3>1, <3>2, <3>3, FineMoves
        <3> QED BY <3>1, <3>4
    <2> QED BY <2>1, <2>2
<1>5. ASSUME NEW p \in wire' PROVE call'[p.call].at # "new" /\ Within(since'[p.call], p.read)
    <2>1. CASE p \in wire
        <3>1. p.call \in Calls
            BY <2>1, PutIs DEF IInv, Sound
        <3>2. call[p.call].at # "new" /\ Within(since[p.call], p.read)
            BY <2>1 DEF IInv, Sound, WireFine
        <3>3. call'[p.call].at # "new"
            BY <1>3, <3>1, <3>2
        <3> QED BY <1>1, <3>1, <3>2, <3>3 DEF Within, Grows
    <2>2. CASE p \notin wire
        BY <1>3, <2>2
    <2> QED BY <2>1, <2>2
<1>6. CallsFine'
    BY <1>4 DEF CallsFine, Fine, ReachedIn, Within
<1>7. WireFine'
    BY <1>5 DEF WireFine, Within
<1>8. TypeOK'
    BY <1>3 DEF TypeOK, Counted, Met, IInv, Sound
<1> QED BY <1>1, <1>6, <1>7, <1>8 DEF Sound

\* A call ends.
LEMMA OneEnds ==
    ASSUME IInv, kind' = kind, remote' = remote, since' = since, Counted', NEW c \in Calls,
           call[c].at # "new", NEW at \in {"ok", "failed"}, Ends(c, at), at = "ok" => ReachedIn(call[c].cmd, since[c]),
           wire' \subseteq wire
    PROVE  Sound'
<1>1. PICK y \in Call : y = Ended(call[c], at) /\ y.at = at /\ y.cmd = call[c].cmd /\ y.done = FALSE
    BY CallIs, EndedIs DEF IInv, Sound
<1>2. call' = [call EXCEPT ![c] = y]
    BY <1>1 DEF Ends
<1>3. Fine(y, since[c], remote)
    BY <1>1 DEF Fine
<1>4. Met /\ wire' \subseteq Put
    BY DEF Met, IInv, Sound, TypeOK
<1> QED BY <1>1, <1>2, <1>3, <1>4, OneMoves

-----------------------------------------------------------------------------
(***************************************************************************)
(* The steps, the grants aside                                             *)
(***************************************************************************)
LEMMA Typed ==
    ASSUME IInv
    PROVE  /\ TypeOK /\ Counted /\ remote \in Product /\ wire \subseteq Put
           /\ \A c \in Calls : Fine(call[c], since[c], remote)
BY DEF IInv, Sound, TypeOK, Counted, CallsFine

LEMMA AskCounts ==
    ASSUME IInv, NEW c, NEW x, AskToken(c, x)
    PROVE  grants' \in Int /\ call' = [call EXCEPT ![c] = WithToken(x)]
BY Typed DEF AskToken, Count, Counted

LEMMA StartSound ==
    ASSUME IInv, NEW c \in Calls, Start(c)
    PROVE  Sound'
<1>1. PICK x : x = [call[c] EXCEPT !.at = "reading"]
    OBVIOUS
<1>2. x \in Call /\ x.at = "reading" /\ x.cmd = call[c].cmd /\ x.done = FALSE
    <2>1. call[c] \in Call /\ call[c].at = "new" /\ Fine(call[c], since[c], remote)
        BY Typed, CallIs DEF Start
    <2>2. call[c].done = FALSE
        BY <2>1 DEF Fine
    <2> QED BY <1>1, <2>1, <2>2 DEF Call, Stages
<1>3. PICK y \in Call : y = WithToken(x) /\ y.at = "reading" /\ y.cmd = call[c].cmd /\ y.done = FALSE
    BY <1>2, Typed, WithTokenIs
<1>4. AskToken(c, x) /\ since' = [since EXCEPT ![c] = Only(remote)]
      /\ UNCHANGED <<kind, remote, wire, events, cache, valid, issued>>
    BY <1>1 DEF Start
<1>5. call' = [call EXCEPT ![c] = y] /\ grants' \in Int
    BY <1>3, <1>4, AskCounts
<1>6. call \in [Calls -> Call] /\ DOMAIN since = Calls
    BY DEF IInv, Sound, TypeOK
<1>7. call' \in [Calls -> Call] /\ call'[c] = y /\ \A d \in Calls : d # c => call'[d] = call[d]
    BY <1>5, <1>6
<1>8. DOMAIN since' = Calls /\ since'[c] = Only(remote) /\ \A d \in Calls : d # c => since'[d] = since[d]
    BY <1>4, <1>6
<1>9. Within(Only(remote), remote)
    BY DEF Within, Only
<1>10. Fine(y, Only(remote), remote)
    BY <1>3, <1>9 DEF Fine
<1>11. \A d \in Calls : Fine(call'[d], since'[d], remote')
    BY <1>4, <1>7, <1>8, <1>10, Typed
<1>12. CallsFine'
    BY <1>4, <1>11 DEF CallsFine, Fine, ReachedIn, Within
<1>13. WireFine'
    <2> SUFFICES ASSUME NEW p \in wire PROVE call'[p.call].at # "new" /\ Within(since'[p.call], p.read)
        BY <1>4 DEF WireFine, Within
    <2>1. p.call \in Calls /\ call[p.call].at # "new" /\ Within(since[p.call], p.read)
        BY Typed, PutIs DEF IInv, Sound, WireFine
    <2>2. p.call # c
        BY <2>1 DEF Start
    <2> QED BY <1>7, <1>8, <2>1, <2>2
<1>14. TypeOK'
    BY <1>4, <1>5, <1>7, Typed DEF TypeOK
<1> QED BY <1>8, <1>12, <1>13, <1>14 DEF Sound

LEMMA TokenSound ==
    ASSUME IInv, NEW c \in Calls, TokenStep(c)
    PROVE  Sound'
<1>1. kind' = kind /\ remote' = remote /\ since' = since /\ wire' = wire /\ events' = events
    BY DEF TokenStep, TokenIssued, TokenFails, remoteVars
<1>2. Met
    BY <1>1, Typed DEF Met
<1>3. ASSUME NEW t \in Tokens, TokenIssued(c, t) PROVE Sound'
    <2>1. call' = [d \in Calls |->
                IF d \in Party(c) THEN [call[d] EXCEPT !.asks = "no", !.token = t] ELSE call[d]]
        BY <1>3 DEF TokenIssued
    <2>2. ASSUME NEW d \in Calls PROVE call'[d] \in Call /\ Moves(call[d], call'[d])
        <3>1. call[d] \in Call
            BY Typed, CallIs
        <3>2. [call[d] EXCEPT !.asks = "no", !.token = t] \in Call
              /\ (call[d].at # "new" => Moves(call[d], [call[d] EXCEPT !.asks = "no", !.token = t]))
            BY <3>1 DEF Call, Moves
        <3>3. Moves(call[d], call[d])
            BY DEF Moves
        <3>4. d \in Party(c) => call[d].at # "new"
            <4>1. call[c].asks = "own"
                BY <1>3 DEF TokenIssued
            <4> QED BY <4>1, Typed DEF Party, Fine
        <3>5. CASE d \in Party(c)
            <4>1. call'[d] = [call[d] EXCEPT !.asks = "no", !.token = t]
                BY <2>1, <3>5
            <4> QED BY <3>2, <3>4, <3>5, <4>1
        <3>6. CASE d \notin Party(c)
            <4>1. call'[d] = call[d]
                BY <2>1, <3>6
            <4> QED BY <3>1, <3>3, <4>1
        <3> QED BY <3>5, <3>6
    <2>3. call' \in [Calls -> Call]
        BY <2>1, <2>2
    <2>4. Counted'
        BY <1>1, <1>3, Typed DEF Counted, TokenIssued
    <2> QED BY <1>1, <1>2, <2>2, <2>3, <2>4, AllMove
<1>4. ASSUME TokenFails(c) PROVE Sound'
    <2>1. call' = [d \in Calls |-> IF d \in Party(c) THEN Ended(call[d], "failed") ELSE call[d]]
        BY <1>4 DEF TokenFails
    <2>2. ASSUME NEW d \in Calls PROVE call'[d] \in Call /\ Moves(call[d], call'[d])
        <3>1. call[d] \in Call
            BY Typed, CallIs
        <3>2. Ended(call[d], "failed") \in Call /\ (call[d].at # "new" => Moves(call[d], Ended(call[d], "failed")))
            BY <3>1, EndedIs DEF Moves
        <3>3. Moves(call[d], call[d])
            BY DEF Moves
        <3>4. d \in Party(c) => call[d].at # "new"
            <4>1. call[c].asks = "own"
                BY <1>4 DEF TokenFails
            <4> QED BY <4>1, Typed DEF Party, Fine
        <3> QED BY <2>1, <3>1, <3>2, <3>3, <3>4
    <2>3. call' \in [Calls -> Call]
        BY <2>1, <2>2
    <2>4. Counted'
        BY <1>1, <1>4, Typed DEF Counted, TokenFails, Count
    <2> QED BY <1>1, <1>2, <2>2, <2>3, <2>4, AllMove
<1> QED BY <1>3, <1>4 DEF TokenStep

LEMMA NextTokenIs ==
    ASSUME IInv, NEW c \in Calls, NEW x \in Call, NextToken(c, x)
    PROVE  /\ grants' \in Int
           /\ \E y \in Call : /\ call' = [call EXCEPT ![c] = y]
                              /\ y.at = x.at /\ y.cmd = x.cmd /\ y.read = x.read /\ y.done = x.done
<1>1. CASE kind = "toss"
    <2>1. AskToken(c, x)
        BY <1>1 DEF NextToken
    <2>2. PICK y \in Call : y = WithToken(x) /\ y.at = x.at /\ y.cmd = x.cmd /\ y.read = x.read /\ y.done = x.done
        BY Typed, WithTokenIs
    <2> QED BY <2>1, <2>2, AskCounts
<1>2. CASE kind # "toss"
    BY <1>2, Typed DEF NextToken, Counted
<1> QED BY <1>1, <1>2

LEMMA ReadSound ==
    ASSUME IInv, NEW c \in Calls, Read(c)
    PROVE  Sound'
<1>1. /\ kind' = kind /\ remote' = remote /\ since' = since /\ wire' = wire /\ events' = events
      /\ cache' = cache /\ valid' = valid /\ issued' = issued
    BY DEF Read, remoteVars
<1>2. Met /\ wire' \subseteq Put
    BY <1>1, Typed DEF Met
<1>3. call[c] \in Call /\ call[c].read \in Product /\ remote \in Product /\ call[c].at \in {"reading", "reading2"}
      /\ Fine(call[c], since[c], remote)
    BY Typed, CallIs DEF Read
<1>4. Within(since[c], remote) /\ (call[c].done = TRUE => ReachedIn(call[c].cmd, since[c]))
    BY <1>3 DEF Fine
<1>5. ASSUME NEW read \in Product, Within(since[c], read), HasRead(c, read) PROVE Sound'
    <2>1. PICK x : x = [call[c] EXCEPT !.read = read, !.at = "putting"]
        OBVIOUS
    <2>2. x \in Call /\ x.at = "putting" /\ x.read = read /\ x.cmd = call[c].cmd /\ x.done = call[c].done
        BY <1>3, <2>1 DEF Call, Stages
    <2>3. NextToken(c, x)
        BY <1>5, <2>1 DEF HasRead
    <2>4. PICK y \in Call : /\ call' = [call EXCEPT ![c] = y]
                            /\ y.at = x.at /\ y.cmd = x.cmd /\ y.read = x.read /\ y.done = x.done
        BY <2>2, <2>3, NextTokenIs
    <2>5. Fine(y, since[c], remote)
        BY <1>4, <1>5, <2>2, <2>4 DEF Fine
    <2>6. Counted'
        BY <1>1, <2>2, <2>3, Typed, NextTokenIs DEF Counted
    <2> QED BY <1>1, <1>2, <2>2, <2>4, <2>5, <2>6, OneMoves
<1>6. CASE kind = "toss" /\ call[c].at = "reading"
    <2>1. call' = [call EXCEPT ![c].at = "reading2", ![c].read.status = remote.status] /\ grants' = grants
        BY <1>6 DEF Read
    <2>2. PICK u : u = [call[c].read EXCEPT !.status = remote.status]
        OBVIOUS
    <2>3. u \in Product /\ u.status = remote.status
        BY <1>3, <2>2 DEF Product
    <2>4. PICK y : y = [call[c] EXCEPT !.at = "reading2", !.read = u]
        OBVIOUS
    <2>5. y \in Call /\ y.at = "reading2" /\ y.read = u /\ y.cmd = call[c].cmd /\ y.done = call[c].done
        BY <1>3, <2>3, <2>4 DEF Call, Stages
    <2>6. call' = [call EXCEPT ![c] = y]
        <3>1. call \in [Calls -> Call]
            BY Typed DEF TypeOK
        <3> QED BY <1>3, <2>1, <2>2, <2>4, <3>1 DEF Call
    <2>7. Fine(y, since[c], remote)
        <3>1. remote.status \in since[c].status
            BY <1>4, FieldsAre DEF Within
        <3> QED BY <1>4, <2>3, <2>5, <3>1 DEF Fine
    <2>8. Counted'
        BY <1>1, <2>1, Typed DEF Counted
    <2> QED BY <1>1, <1>2, <2>5, <2>6, <2>7, <2>8, OneMoves
<1>7. CASE kind = "toss" /\ call[c].at = "reading2"
    <2>1. PICK u : u = [remote EXCEPT !.status = call[c].read.status]
        OBVIOUS
    <2>2. HasRead(c, u)
        BY <1>7, <2>1 DEF Read
    <2>3. u \in Product /\ u.status = call[c].read.status
          /\ u.price = remote.price /\ u.stock = remote.stock /\ u.auction = remote.auction
        BY <1>3, <2>1 DEF Product
    <2>4. call[c].read.status \in since[c].status
        BY <1>3, <1>7 DEF Fine
    <2>5. Within(since[c], u)
        BY <1>4, <2>3, <2>4 DEF Within, Fields
    <2> QED BY <1>5, <2>2, <2>3, <2>5
<1>8. CASE kind # "toss"
    <2>1. HasRead(c, remote)
        BY <1>8 DEF Read
    <2>2. PICK u : u = remote
        OBVIOUS
    <2> QED BY <1>3, <1>4, <1>5, <2>1, <2>2
<1> QED BY <1>3, <1>6, <1>7, <1>8

\* Calls that end
LEMMA EndingSound ==
    ASSUME IInv, NEW c \in Calls, Verify(c) \/ Refuse(c) \/ Fails(c) \/ ReadRejected(c)
    PROVE  Sound'
<1>1. kind' = kind /\ remote' = remote /\ since' = since /\ wire' = wire /\ events' = events
    BY DEF Verify, Refuse, Fails, ReadRejected, remoteVars
<1>2. Counted'
    <2>1. CASE UNCHANGED tokenVars
        BY <1>1, <2>1, Typed DEF Counted, tokenVars
    <2>2. CASE ReadRejected(c)
        BY <1>1, <2>2, Typed DEF Counted, ReadRejected, Unauthorised, Invalidate, Count
    <2> QED BY <2>1, <2>2 DEF Verify, Refuse, Fails
<1>3. call[c].at # "new"
    BY DEF Verify, Refuse, Fails, ReadRejected, Ready, Active
<1>4. CASE Verify(c)
    <2>1. Ends(c, "ok") /\ call[c].at = "verifying"
        BY <1>4 DEF Verify
    <2>2. ReachedIn(call[c].cmd, since[c])
        BY <2>1, Typed DEF Fine
    <2> QED BY <1>1, <1>2, <1>3, <2>1, <2>2, OneEnds
<1>5. CASE Refuse(c) \/ Fails(c) \/ ReadRejected(c)
    <2>1. Ends(c, "failed")
        BY <1>5 DEF Refuse, Fails, ReadRejected, Unauthorised
    <2> QED BY <1>1, <1>2, <1>3, <2>1, OneEnds
<1> QED BY <1>4, <1>5

LEMMA SendSound ==
    ASSUME IInv, NEW c \in Calls, Send(c)
    PROVE  Sound'
<1>1. UNCHANGED <<kind, remote, events, since, cache, valid, issued, grants>>
    BY DEF Send, tokenVars
<1>2. call[c] \in Call /\ call[c].at = "putting" /\ Fine(call[c], since[c], remote)
    BY Typed, CallIs DEF Send
<1>3. call[c].sent + 1 \in 1..MaxAttempts
    <2>1. call[c].sent \in 0..MaxAttempts /\ call[c].sent < Attempts
        BY Typed, CallIs DEF Send
    <2>2. Attempts <= MaxAttempts /\ Attempts \in Nat
        BY AdaptersAssumption DEF Attempts
    <2> QED BY <2>1, <2>2, AdaptersAssumption
<1>4. PICK n : n = call[c].sent + 1
    OBVIOUS
<1>5. PICK y : y = [call[c] EXCEPT !.sent = n, !.done = FALSE]
    OBVIOUS
<1>6. y \in Call /\ y.at = "putting" /\ y.cmd = call[c].cmd /\ y.read = call[c].read /\ y.done = FALSE
    <2>1. n \in 0..MaxAttempts
        BY <1>3, <1>4
    <2> QED BY <1>2, <1>5, <2>1 DEF Call
<1>7. call' = [call EXCEPT ![c] = y]
    <2>1. call \in [Calls -> Call]
        BY Typed DEF TypeOK
    <2>2. call' = [call EXCEPT ![c].sent = call[c].sent + 1, ![c].done = FALSE]
        BY <1>2, <2>1 DEF Send, Call
    <2> QED BY <1>2, <1>4, <1>5, <2>1, <2>2 DEF Call
<1>8. Fine(y, since[c], remote)
    BY <1>2, <1>6 DEF Fine
<1>9. PICK q : q = [call |-> c, n |-> n, read |-> call[c].read, token |-> call[c].token]
    OBVIOUS
<1>10. wire' = wire \union {q}
    BY <1>4, <1>9 DEF Send
<1>11. q \in Put
    <2>1. call[c].read \in Product /\ call[c].token \in Tokens \union {NoToken} /\ n \in 1..MaxAttempts
        BY <1>3, <1>4, Typed, CallIs
    <2> QED BY <1>9, <2>1 DEF Put
<1>12. q.call = c /\ Within(since[c], q.read)
    BY <1>2, <1>9 DEF Fine
<1>13. wire' \subseteq Put /\ \A p \in wire' \ wire : p.call = c /\ Within(since'[c], p.read)
    BY <1>1, <1>10, <1>11, <1>12, Typed
<1>14. Met /\ Counted'
    BY <1>1, Typed DEF Met, Counted
<1> QED BY <1>1, <1>6, <1>7, <1>8, <1>13, <1>14, OneMoves

LEMMA AnsweredSound ==
    ASSUME IInv, NEW c \in Calls, Answered(c)
    PROVE  Sound'
<1>1. UNCHANGED <<kind, remote, wire, events, since, cache, valid, issued>>
    BY DEF Answered, remoteVars
<1>2. call[c] \in Call /\ call[c].done = TRUE /\ Fine(call[c], since[c], remote) /\ call[c].at = "putting"
    BY Typed, CallIs DEF Answered, Succeeded
<1>3. PICK x : x = [call[c] EXCEPT !.at = "verifying", !.read = Unread]
    OBVIOUS
<1>4. x \in Call /\ x.at = "verifying" /\ x.cmd = call[c].cmd
    BY <1>2, <1>3, UnreadIs DEF Call, Stages
<1>5. NextToken(c, x)
    BY <1>3 DEF Answered
<1>6. PICK y \in Call : call' = [call EXCEPT ![c] = y] /\ y.at = "verifying" /\ y.cmd = call[c].cmd
    BY <1>4, <1>5, NextTokenIs
<1>7. Fine(y, since[c], remote)
    BY <1>2, <1>6 DEF Fine
<1>8. Met /\ Counted' /\ wire' \subseteq Put
    BY <1>1, <1>4, <1>5, Typed, NextTokenIs DEF Met, Counted
<1> QED BY <1>1, <1>6, <1>7, <1>8, OneMoves

LEMMA SimulateSound ==
    ASSUME IInv, NEW c \in Calls, Simulate(c)
    PROVE  Sound'
<1>1. UNCHANGED <<kind, wire, events, cache, valid, issued, grants>> /\ call[c].at = "putting"
    BY DEF Simulate, tokenVars
<1>2. call[c] \in Call /\ call[c].cmd \in Commands /\ call[c].read \in Product
    BY Typed, CallIs
<1>3. PICK p : p = Dry(call[c].cmd, call[c].read)
    OBVIOUS
<1>4. p \in Product /\ Has(call[c].cmd, p) /\ Becomes(p) /\ remote' = p
    BY <1>2, <1>3, DryHas DEF Simulate, Becomes
<1>5. Met
    BY <1>4 DEF Met
<1>6. Within(since'[c], p)
    BY <1>1, <1>4, <1>5, MetGrows DEF Active
<1>7. ReachedIn(call[c].cmd, since'[c])
    BY <1>2, <1>4, <1>6, HasReached
<1>8. PICK y \in Call : y = Ended(call[c], "ok") /\ y.at = "ok" /\ y.cmd = call[c].cmd
    BY <1>2, EndedIs
<1>9. call' = [call EXCEPT ![c] = y]
    BY <1>8 DEF Simulate, Ends
<1>10. Fine(y, since'[c], remote')
    BY <1>7, <1>8 DEF Fine
<1>11. Counted' /\ wire' \subseteq Put
    BY <1>1, Typed DEF Counted
<1> QED BY <1>1, <1>5, <1>8, <1>9, <1>10, <1>11, OneMoves

LEMMA RemoteSound ==
    ASSUME IInv, NEW p \in wire, RemoteStep(p)
    PROVE  Sound'
<1>1. p.call \in Calls /\ p.read \in Product /\ call[p.call] \in Call /\ call[p.call].cmd \in Commands
    BY Typed, PutIs, CallIs
<1>2. wire' \subseteq wire /\ wire' \subseteq Put /\ kind' = kind /\ events' = events
    BY Typed DEF RemoteStep, RemoteApplies, RemoteRefuses, RemoteRejects
<1>3. call' = call => call' \in [Calls -> Call] /\ \A d \in Calls : Moves(call[d], call'[d])
    BY Typed DEF TypeOK, Moves
<1>4. CASE RemoteApplies(p)
    <2>1. PICK e : e = Effect(call[p.call].cmd, p.read)
        OBVIOUS
    <2>2. e \in Product /\ Has(call[p.call].cmd, e) /\ Becomes(e) /\ remote' = e
        BY <1>1, <1>4, <2>1, Typed, EffectHas DEF RemoteApplies, Becomes
    <2>3. Met
        BY <2>2 DEF Met
    <2>4. Counted'
        BY <1>2, <1>4, Typed DEF Counted, RemoteApplies, tokenVars
    <2>5. CASE Awaited(p)
        <3>1. PICK y : y = [call[p.call] EXCEPT !.done = TRUE]
            OBVIOUS
        <3>2. /\ y \in Call /\ y.at = "putting" /\ y.cmd = call[p.call].cmd /\ y.read = call[p.call].read
              /\ call[p.call].at = "putting"
            BY <1>1, <2>5, <3>1 DEF Call, Awaited
        <3>3. call' = [call EXCEPT ![p.call] = y]
            <4>1. call' = [call EXCEPT ![p.call].done = TRUE]
                BY <1>4, <2>5 DEF RemoteApplies
            <4> QED BY <3>1, <4>1
        <3>4. Grows(since[p.call], since'[p.call]) /\ Within(since'[p.call], e)
            BY <1>1, <2>2, <2>3, <3>2, MetGrows DEF Active
        <3>5. ReachedIn(call[p.call].cmd, since'[p.call])
            BY <1>1, <2>2, <3>4, HasReached
        <3>6. Within(since'[p.call], y.read)
            <4>1. Within(since[p.call], call[p.call].read)
                BY <1>1, <3>2, Typed DEF Fine
            <4> QED BY <3>2, <3>4, <4>1 DEF Within, Grows
        <3>7. Fine(y, since'[p.call], remote')
            BY <2>2, <3>2, <3>4, <3>5, <3>6 DEF Fine
        <3> QED BY <1>1, <1>2, <2>3, <2>4, <3>2, <3>3, <3>7, OneMoves
    <2>6. CASE ~Awaited(p)
        <3>1. call' = call
            BY <1>4, <2>6 DEF RemoteApplies
        <3> QED BY <1>2, <1>3, <2>3, <2>4, <3>1, AllMove
    <2> QED BY <2>5, <2>6
<1>5. CASE RemoteRefuses(p)
    <2>1. call' = call /\ Met /\ Counted'
        BY <1>2, <1>5, Typed DEF RemoteRefuses, Met, Counted, tokenVars
    <2> QED BY <1>2, <1>3, <2>1, AllMove
<1>6. CASE RemoteRejects(p)
    <2>1. remote' = remote /\ since' = since
        BY <1>6 DEF RemoteRejects
    <2>2. Met
        BY <2>1, Typed DEF Met
    <2>3. CASE Awaited(p)
        <3>1. Ends(p.call, "failed") /\ call[p.call].at # "new"
            BY <1>6, <2>3 DEF RemoteRejects, Unauthorised, Awaited
        <3>2. Counted'
            BY <1>2, <1>6, <2>3, Typed DEF Counted, RemoteRejects, Unauthorised, Invalidate, Count
        <3> QED BY <1>1, <1>2, <2>1, <3>1, <3>2, OneEnds
    <2>4. CASE ~Awaited(p)
        <3>1. call' = call /\ Counted'
            BY <1>2, <1>6, <2>4, Typed DEF RemoteRejects, Counted, tokenVars
        <3> QED BY <1>2, <1>3, <2>2, <3>1, AllMove
    <2> QED BY <2>3, <2>4
<1> QED BY <1>4, <1>5, <1>6 DEF RemoteStep

LEMMA OthersSound ==
    ASSUME IInv, CacheExpires \/ (\E p \in Products : Edit(p)) \/ (\E t \in Tokens : Revoke(t))
    PROVE  Sound'
<1>1. kind' = kind /\ wire' = wire /\ call' = call
    BY DEF CacheExpires, Edit, Revoke
<1>2. call' \in [Calls -> Call] /\ \A d \in Calls : Moves(call[d], call'[d])
    BY <1>1, Typed DEF TypeOK, Moves
<1>3. events' \in 0..MaxEvents
    BY Typed, AdaptersAssumption DEF CacheExpires, Edit, Revoke, Event, Counted
<1>4. Counted'
    BY <1>3, Typed DEF CacheExpires, Edit, Revoke, Counted, Count, tokenVars
<1>5. Met
    BY Typed, AdaptersAssumption DEF CacheExpires, Edit, Revoke, Met, Becomes, Product
<1> QED BY <1>1, <1>2, <1>4, <1>5, AllMove

-----------------------------------------------------------------------------
(***************************************************************************)
(* The grants                                                              *)
(***************************************************************************)
LEMMA GrantedIs ==
    ASSUME IInv, kind = "naver"
    PROVE  /\ \A c \in Calls : call[c].asks # "no" => call[c].at = "reading" /\ call[c].token = NoToken
           /\ \A c, d \in Calls : call[c].asks = "own" /\ call[d].asks = "own" => c = d
           /\ \A c \in Calls : call[c].asks = "own" => cache = NoToken
           /\ cache = NoToken /\ (\A c \in Calls : call[c].asks # "own") => grants >= 1
           /\ grants >= 0 /\ grants \in Int
           /\ call \in [Calls -> Call] /\ cache \in Tokens \union {NoToken}
BY DEF IInv, Granted, Sound, TypeOK

\* A call that is not waiting for a token makes a step.
LEMMA NoGrant ==
    ASSUME IInv, kind = "naver", kind' = kind, NEW c \in Calls, call[c].asks = "no",
           NEW y, y.asks = "no", call' = [call EXCEPT ![c] = y],
           \/ cache' = cache /\ grants' = grants
           \/ cache' = NoToken /\ grants' = grants + 1
    PROVE  Granted'
<1>1. \A d \in Calls : (d = c /\ call'[d].asks = "no" /\ call[d].asks = "no") \/ call'[d] = call[d]
    BY GrantedIs
<1>2. \A d \in Calls : call'[d].asks = call[d].asks
    BY <1>1
<1>3. \A d \in Calls : call'[d].asks # "no" => call'[d].at = "reading" /\ call'[d].token = NoToken
    BY <1>1, GrantedIs
<1>4. /\ \A d, e \in Calls : call'[d].asks = "own" /\ call'[e].asks = "own" => d = e
      /\ \A d \in Calls : call'[d].asks = "own" => cache' = NoToken
    BY <1>2, GrantedIs
<1>5. /\ cache' = NoToken /\ (\A d \in Calls : call'[d].asks # "own") => grants' >= 1
      /\ grants' >= 0
    BY <1>2, GrantedIs
<1> QED BY <1>3, <1>4, <1>5 DEF Granted

LEMMA ReadyAsksNot ==
    ASSUME IInv, kind = "naver", NEW c \in Calls, Ready(c) \/ call[c].at = "putting"
    PROVE  call[c].asks = "no"
BY GrantedIs DEF Ready, UsesTokens

LEMMA TokenGranted ==
    ASSUME IInv, kind = "naver", NEW c \in Calls, TokenStep(c)
    PROVE  Granted'
<1>1. call[c].asks = "own" /\ kind' = kind /\ Party(c) \subseteq Calls
    BY DEF TokenStep, TokenIssued, TokenFails, Party
<1>2. \A d \in Calls : d \notin Party(c) => call[d].asks = "no"
    <2>1. \A d \in Calls : call[d].asks \in {"no", "own", "joined"}
        BY Typed, CallIs
    <2> QED BY <1>1, <2>1, GrantedIs DEF Party
<1>3. \A d \in Calls : call'[d].asks = "no"
    <2>1. ASSUME NEW t \in Tokens, TokenIssued(c, t), NEW d \in Calls PROVE call'[d].asks = "no"
        <3>1. call'[d] = IF d \in Party(c) THEN [call[d] EXCEPT !.asks = "no", !.token = t] ELSE call[d]
            BY <2>1 DEF TokenIssued
        <3>2. call[d] \in Call
            BY Typed, CallIs
        <3>3. [call[d] EXCEPT !.asks = "no", !.token = t].asks = "no"
            BY <3>2 DEF Call
        <3> QED BY <1>2, <3>1, <3>3
    <2>2. ASSUME TokenFails(c), NEW d \in Calls PROVE call'[d].asks = "no"
        <3>1. call'[d] = IF d \in Party(c) THEN Ended(call[d], "failed") ELSE call[d]
            BY <2>2 DEF TokenFails
        <3>2. Ended(call[d], "failed").asks = "no"
            BY Typed, CallIs, EndedIs
        <3> QED BY <1>2, <3>1, <3>2
    <2> QED BY <2>1, <2>2 DEF TokenStep
<1>4. grants' >= 0 /\ (cache' = NoToken => grants' >= 1)
    <2>1. ASSUME NEW t \in Tokens, TokenIssued(c, t) PROVE cache' # NoToken /\ grants' = grants
        BY <2>1, AdaptersAssumption DEF TokenIssued
    <2>2. ASSUME TokenFails(c) PROVE grants' = grants + 1
        BY <2>2 DEF TokenFails, Count
    <2> QED BY <2>1, <2>2, GrantedIs DEF TokenStep
<1> QED BY <1>1, <1>3, <1>4 DEF Granted

LEMMA StartGranted ==
    ASSUME IInv, kind = "naver", NEW c \in Calls, Start(c)
    PROVE  Granted'
<1>1. PICK x : x = [call[c] EXCEPT !.at = "reading"]
    OBVIOUS
<1>2. x \in Call /\ x.at = "reading" /\ x.asks = "no" /\ call[c].asks = "no"
    <2>1. call[c] \in Call /\ call[c].asks = "no"
        BY Typed, CallIs DEF Start, Fine
    <2> QED BY <1>1, <2>1 DEF Call, Stages
<1>3. PICK y : y = WithToken(x)
    OBVIOUS
<1>4. /\ y.at = "reading"
      /\ y.asks = IF cache # NoToken THEN "no" ELSE IF Shared THEN "joined" ELSE "own"
      /\ cache = NoToken => y.token = NoToken
    BY <1>2, <1>3, Typed, WithTokenIs
<1>5. AskToken(c, x) /\ cache' = cache /\ kind' = kind
    BY <1>1 DEF Start
<1>6. call' = [call EXCEPT ![c] = y]
    BY <1>3, <1>5 DEF AskToken
<1>7. grants' = IF cache = NoToken /\ ~Shared THEN grants - 1 ELSE grants
    BY <1>5, GrantedIs DEF AskToken, Count, UsesTokens
<1>8. CASE cache # NoToken
    <2>1. y.asks = "no" /\ grants' = grants
        BY <1>4, <1>7, <1>8
    <2> QED BY <1>2, <1>5, <1>6, <2>1, NoGrant
<1>9. CASE cache = NoToken
    <2>1. call'[c] = y /\ \A d \in Calls : d # c => call'[d] = call[d]
        BY <1>6, GrantedIs
    <2>2. \A d \in Calls : call'[d].asks # "no" => call'[d].at = "reading" /\ call'[d].token = NoToken
        BY <1>4, <1>9, <2>1, GrantedIs
    <2>3. CASE Shared
        <3>1. PICK e \in Calls : call[e].asks = "own"
            BY <2>3 DEF Shared, InFlight
        <3>2. \A d \in Calls : call'[d].asks = "own" => d # c /\ call[d].asks = "own"
            BY <1>4, <1>9, <2>1, <2>3
        <3>3. e # c /\ call'[e].asks = "own"
            BY <1>2, <2>1, <3>1
        <3>4. \A d, f \in Calls : call'[d].asks = "own" /\ call'[f].asks = "own" => d = f
            BY <3>2, GrantedIs
        <3>5. grants' >= 0 /\ cache' = NoToken
            BY <1>5, <1>7, <1>9, <2>3, GrantedIs
        <3> QED BY <1>5, <2>2, <3>3, <3>4, <3>5 DEF Granted
    <2>4. CASE ~Shared
        <3>1. \A d \in Calls : call[d].asks # "own"
            BY <2>4 DEF Shared, InFlight
        <3>2. call'[c].asks = "own" /\ \A d \in Calls : call'[d].asks = "own" => d = c
            BY <1>4, <1>9, <2>1, <2>4, <3>1
        <3>3. grants' >= 0 /\ cache' = NoToken
            BY <1>5, <1>7, <1>9, <2>4, <3>1, GrantedIs
        <3>4. \A d, f \in Calls : call'[d].asks = "own" /\ call'[f].asks = "own" => d = f
            BY <3>2
        <3> QED BY <1>5, <2>2, <3>2, <3>3, <3>4 DEF Granted
    <2> QED BY <2>3, <2>4
<1> QED BY <1>8, <1>9

\* A call is answered with 401.
LEMMA RejectedGranted ==
    ASSUME IInv, kind = "naver", kind' = kind, NEW c \in Calls, NEW t, Unauthorised(c, t), call[c].asks = "no"
    PROVE  Granted'
<1>1. PICK y : y = Ended(call[c], "failed")
    OBVIOUS
<1>2. y.asks = "no"
    BY <1>1, Typed, CallIs, EndedIs
<1>3. call' = [call EXCEPT ![c] = y]
    BY <1>1 DEF Unauthorised, Ends
<1>4. \/ cache' = cache /\ grants' = grants
      \/ cache' = NoToken /\ grants' = grants + 1
    <2>1. CASE cache = t
        BY <2>1 DEF Unauthorised, Invalidate, Count
    <2>2. CASE cache # t
        BY <2>2 DEF Unauthorised, Invalidate, Count
    <2> QED BY <2>1, <2>2
<1> QED BY <1>2, <1>3, <1>4, NoGrant

LEMMA CallGranted ==
    ASSUME IInv, kind = "naver", NEW c \in Calls, CallStep(c)
    PROVE  Granted'
<1>1. kind' = kind /\ call[c] \in Call /\ kind # "toss" /\ kind # "dry"
    BY Typed, CallIs DEF CallStep, Start, Read, Simulate, Refuse, Send, Answered, Verify, ReadRejected, Fails
<1>2. CASE Start(c)
    BY <1>2, StartGranted
<1>3. CASE Read(c)
    <2>1. call[c].asks = "no" /\ cache' = cache
        BY <1>3, ReadyAsksNot DEF Read
    <2>2. HasRead(c, remote)
        BY <1>1, <1>3 DEF Read
    <2>3. PICK y : y = [call[c] EXCEPT !.read = remote, !.at = "putting"]
        OBVIOUS
    <2>4. call' = [call EXCEPT ![c] = y] /\ grants' = grants
        BY <1>1, <2>2, <2>3 DEF HasRead, NextToken
    <2>5. y.asks = "no"
        BY <1>1, <2>1, <2>3 DEF Call
    <2> QED BY <1>1, <2>1, <2>4, <2>5, NoGrant
<1>4. CASE Refuse(c) \/ Fails(c) \/ Verify(c)
    <2>1. call[c].asks = "no" /\ cache' = cache /\ grants' = grants
        BY <1>4, ReadyAsksNot DEF Refuse, Fails, Verify, tokenVars
    <2>2. PICK at \in {"ok", "failed"} : Ends(c, at)
        BY <1>4 DEF Refuse, Fails, Verify
    <2>3. PICK y : y = Ended(call[c], at)
        OBVIOUS
    <2>4. y.asks = "no" /\ call' = [call EXCEPT ![c] = y]
        BY <1>1, <2>2, <2>3, EndedIs DEF Ends
    <2> QED BY <1>1, <2>1, <2>4, NoGrant
<1>5. CASE ReadRejected(c)
    BY <1>1, <1>5, ReadyAsksNot, RejectedGranted DEF ReadRejected
<1>6. CASE Send(c)
    <2>1. call[c].asks = "no" /\ cache' = cache /\ grants' = grants
        BY <1>6, ReadyAsksNot DEF Send, tokenVars
    <2>2. PICK y : y = [call[c] EXCEPT !.sent = call[c].sent + 1, !.done = FALSE]
        OBVIOUS
    <2>3. call' = [call EXCEPT ![c] = y]
        <3>1. call \in [Calls -> Call]
            BY GrantedIs
        <3>2. call' = [call EXCEPT ![c].sent = call[c].sent + 1, ![c].done = FALSE]
            BY <1>1, <1>6, <3>1 DEF Send, Call
        <3> QED BY <1>1, <2>2, <3>1, <3>2 DEF Call
    <2>4. y.asks = "no"
        BY <1>1, <2>1, <2>2 DEF Call
    <2> QED BY <1>1, <2>1, <2>3, <2>4, NoGrant
<1>7. CASE Answered(c)
    <2>1. call[c].asks = "no" /\ cache' = cache
        BY <1>7, ReadyAsksNot DEF Answered
    <2>2. PICK y : y = [call[c] EXCEPT !.at = "verifying", !.read = Unread]
        OBVIOUS
    <2>3. call' = [call EXCEPT ![c] = y] /\ grants' = grants
        BY <1>1, <1>7, <2>2 DEF Answered, NextToken
    <2>4. y.asks = "no"
        BY <1>1, <2>1, <2>2 DEF Call
    <2> QED BY <1>1, <2>1, <2>3, <2>4, NoGrant
<1> QED BY <1>1, <1>2, <1>3, <1>4, <1>5, <1>6, <1>7 DEF CallStep, Simulate

LEMMA RemoteGranted ==
    ASSUME IInv, kind = "naver", NEW p \in wire, RemoteStep(p)
    PROVE  Granted'
<1>1. kind' = kind /\ p.call \in Calls /\ call[p.call] \in Call
    BY Typed, PutIs, CallIs DEF RemoteStep, RemoteApplies, RemoteRefuses, RemoteRejects
<1>2. Awaited(p) => call[p.call].asks = "no"
    BY <1>1, ReadyAsksNot DEF Awaited
<1>3. CASE Awaited(p) /\ RemoteApplies(p)
    <2>1. PICK y : y = [call[p.call] EXCEPT !.done = TRUE]
        OBVIOUS
    <2>2. call' = [call EXCEPT ![p.call].done = TRUE] /\ cache' = cache /\ grants' = grants
        BY <1>3 DEF RemoteApplies, tokenVars
    <2>3. call' = [call EXCEPT ![p.call] = y]
        BY <2>1, <2>2
    <2>4. y.asks = "no"
        BY <1>1, <1>2, <1>3, <2>1 DEF Call
    <2> QED BY <1>1, <1>2, <1>3, <2>2, <2>3, <2>4, NoGrant
<1>4. CASE Awaited(p) /\ RemoteRejects(p)
    BY <1>1, <1>2, <1>4, RejectedGranted DEF RemoteRejects
<1>5. CASE RemoteRefuses(p) \/ (~Awaited(p) /\ RemoteStep(p))
    <2>1. call' = call /\ cache' = cache /\ grants' = grants
        BY <1>5 DEF RemoteStep, RemoteApplies, RemoteRefuses, RemoteRejects, tokenVars
    <2> QED BY <1>1, <2>1 DEF IInv, Granted
<1> QED BY <1>3, <1>4, <1>5 DEF RemoteStep

LEMMA NextGranted ==
    ASSUME IInv, Next
    PROVE  Granted'
<1>1. kind' = kind
    BY DEF Next, TokenStep, TokenIssued, TokenFails, CallStep, Start, Read, Simulate, Refuse, Send, Answered,
           Verify, ReadRejected, Fails, RemoteStep, RemoteApplies, RemoteRefuses, RemoteRejects,
           CacheExpires, Edit, Revoke
<1>2. CASE kind # "naver"
    <2>1. grants' = grants
        <3>1. ASSUME NEW c \in Calls, TokenStep(c) PROVE grants' = grants
            BY <1>2, <3>1 DEF TokenStep, TokenIssued, TokenFails, Count
        <3>2. ASSUME NEW c \in Calls, CallStep(c) PROVE grants' = grants
            BY <1>2, <3>2 DEF CallStep, Start, Read, HasRead, Simulate, Refuse, Send, Answered, Verify,
                ReadRejected, Unauthorised, Invalidate, Fails, NextToken, AskToken, Count, tokenVars
        <3>3. ASSUME NEW p \in wire, RemoteStep(p) PROVE grants' = grants
            BY <1>2, <3>3 DEF RemoteStep, RemoteApplies, RemoteRefuses, RemoteRejects, Unauthorised,
                Invalidate, Count, tokenVars
        <3>4. CacheExpires => grants' = grants
            BY <1>2 DEF CacheExpires, Count
        <3>5. (\E p \in Products : Edit(p)) \/ (\E t \in Tokens : Revoke(t)) => grants' = grants
            BY DEF Edit, Revoke, tokenVars
        <3> QED BY <3>1, <3>2, <3>3, <3>4, <3>5 DEF Next
    <2> QED BY <1>1, <1>2, <2>1 DEF IInv, Granted
<1>3. CASE kind = "naver"
    <2>1. CASE CacheExpires
        <3>1. call' = call /\ cache' = NoToken /\ grants' = grants + 1
            BY <1>3, <2>1 DEF CacheExpires, Count
        <3> QED BY <1>1, <1>3, <3>1, GrantedIs DEF Granted
    <2>2. CASE (\E p \in Products : Edit(p)) \/ (\E t \in Tokens : Revoke(t))
        <3>1. call' = call /\ cache' = cache /\ grants' = grants
            BY <2>2 DEF Edit, Revoke, tokenVars
        <3> QED BY <1>1, <3>1 DEF IInv, Granted
    <2> QED BY <1>3, <2>1, <2>2, TokenGranted, CallGranted, RemoteGranted DEF Next
<1> QED BY <1>2, <1>3

-----------------------------------------------------------------------------
(***************************************************************************)
(* Theorems                                                                *)
(***************************************************************************)
LEMMA InitIsFine == Init => IInv
<1> SUFFICES ASSUME Init PROVE IInv
    OBVIOUS
<1>1. \A c \in Calls : /\ call[c] \in Call /\ call[c].at = "new" /\ call[c].done = FALSE /\ call[c].asks = "no"
    <2>1. call \in [Calls -> [at : {"new"}, cmd : Commands, read : {Unread}, sent : {0},
                              done : {FALSE}, token : {NoToken}, asks : {"no"}]]
        BY DEF Init
    <2>2. "new" \in Stages /\ 0 \in 0..MaxAttempts
        BY AdaptersAssumption DEF Stages
    <2> QED BY <2>1, <2>2, UnreadIs DEF Call
<1>2. call \in [Calls -> Call]
    <2>1. call \in [Calls -> [at : {"new"}, cmd : Commands, read : {Unread}, sent : {0},
                              done : {FALSE}, token : {NoToken}, asks : {"no"}]]
        BY DEF Init
    <2> QED BY <1>1, <2>1
<1>3. TypeOK
    BY <1>2, AdaptersAssumption DEF Init, TypeOK, Product
<1>4. \A c \in Calls : Fine(call[c], since[c], remote)
    BY <1>1 DEF Fine
<1>5. DOMAIN since = Calls /\ WireFine
    BY DEF Init, WireFine
<1>6. Granted
    BY <1>1 DEF Init, Granted
<1> QED BY <1>3, <1>4, <1>5, <1>6 DEF IInv, Sound, CallsFine

LEMMA StepIsFine == IInv /\ [Next]_vars => IInv'
<1> SUFFICES ASSUME IInv, [Next]_vars PROVE IInv'
    OBVIOUS
<1>1. CASE UNCHANGED vars
    BY <1>1 DEF vars, IInv, Sound, TypeOK, CallsFine, Fine, Within, ReachedIn, WireFine, Granted
<1>2. CASE Next
    <2>1. Sound'
        <3>1. ASSUME NEW c \in Calls, CallStep(c) PROVE Sound'
            BY <3>1, StartSound, ReadSound, EndingSound, SendSound, AnsweredSound, SimulateSound DEF CallStep
        <3> QED BY <1>2, <3>1, TokenSound, RemoteSound, OthersSound DEF Next
    <2> QED BY <1>2, <2>1, NextGranted DEF IInv
<1> QED BY <1>1, <1>2

\* The inductive invariant: what calls and requests on their way have read is not older
\* than the call, a request that succeeded has had its effect, and a request for a token
\* is sent only when there is none, one at a time, with a grant for it.
THEOREM Inductive == Spec => []IInv
<1> QED BY InitIsFine, StepIsFine, PTL DEF Spec

\* Products, calls, requests and tokens are well formed: no attempt beyond the last, no
\* token in the cache that was not issued.
THEOREM TypeCorrect == Spec => []TypeOK
<1>1. IInv => TypeOK
    BY DEF IInv, Sound
<1> QED BY <1>1, Inductive, PTL

\* A call that is answered with ok has had its effect on the product while it was under
\* way, whatever was lost, repeated or rejected (execute of the four adapters).
THEOREM OkIsReached == Spec => []OkMeansReached
<1>1. IInv => OkMeansReached
    <2>1. \A c \in Calls : Reached(c) = ReachedIn(call[c].cmd, since[c])
        BY DEF Reached, ReachedIn
    <2> QED BY <2>1 DEF IInv, Sound, CallsFine, Fine, OkMeansReached
<1> QED BY <1>1, Inductive, PTL

\* Naver is asked for no more tokens than were missing, dropped or refused
\* (getOrCreateAccessToken, invalidateCachedAccessToken).
THEOREM TokensAreShared == Spec => []TokensFresh
<1>1. IInv => TokensFresh
    BY DEF IInv, Granted, TokensFresh
<1> QED BY <1>1, Inductive, PTL

\* The change a request makes, of each marketplace
LEMMA EffectIsHarmless ==
    ASSUME IInv, NEW p \in wire, NEW f \in Fields, f # About(call[p.call].cmd)
    PROVE  Effect(call[p.call].cmd, p.read)[f] \in Harmless(p.call, f) \union {remote[f]}
<1> DEFINE c == p.call
           cmd == call[p.call].cmd
           read == p.read
<1>1. c \in Calls /\ read \in Product /\ cmd \in Commands /\ remote \in Product
    BY Typed, PutIs, CallIs
<1>2. \A g \in Fields : read[g] \in since[c][g]
    BY DEF IInv, Sound, WireFine, Within
<1>3. PICK e : e = Effect(cmd, read)
    OBVIOUS
<1>4. PICK h : h = Harmless(c, f)
    OBVIOUS
<1>5. /\ since[c][f] \subseteq h
      /\ f = "status" /\ kind = "naver" /\ Empties(cmd) => "out" \in h
      /\ f = "status" /\ kind = "gmarket" /\ Empties(cmd) => "stopped" \in h
      /\ f = "status" /\ kind = "naver" /\ cmd.op = "SET_STOCK" /\ ~Empties(cmd)
            /\ ("out" \in since[c]["status"] \/ "barred" \in since[c]["status"]) => "sale" \in h
      /\ f \in {"stock", "auction"} /\ kind = "gmarket" /\ 0 \in since[c][f] => 1 \in h
    <2>1. CASE f = "status"
        <3>1. h = since[c][f] \union (EndsSales(c) \union (IF Reopens(c) THEN {"sale"} ELSE {}))
            BY <1>4, <2>1 DEF Harmless
        <3>2. /\ kind = "naver" /\ Empties(cmd) => "out" \in EndsSales(c)
              /\ kind = "gmarket" /\ Empties(cmd) => "stopped" \in EndsSales(c)
            BY DEF EndsSales
        <3>3. since[c].status = since[c]["status"]
            OBVIOUS
        <3>4. kind = "naver" /\ cmd.op = "SET_STOCK" /\ ~Empties(cmd)
                /\ ("out" \in since[c]["status"] \/ "barred" \in since[c]["status"]) => Reopens(c)
            BY <3>3 DEF Reopens
        <3> QED BY <2>1, <3>1, <3>2, <3>4
    <2>2. CASE f \in {"stock", "auction"}
        BY <1>4, <2>2 DEF Harmless
    <2>3. CASE f = "price"
        BY <1>4, <2>3 DEF Harmless
    <2> QED BY <2>1, <2>2, <2>3 DEF Fields
<1>6. f \in {"price", "stock", "status", "auction"}
    BY DEF Fields
<1>7. /\ f = "stock" => cmd.op \notin {"SET_STOCK", "SET_OUT_OF_STOCK"}
      /\ f = "price" => cmd.op # "SET_PRICE"
      /\ f = "status" => cmd.op \notin {"STOP_SALES", "RESUME_SALES"}
    <2>1. cmd.op \in {"SET_STOCK", "SET_OUT_OF_STOCK"} => About(cmd) = "stock"
        BY DEF About
    <2>2. cmd.op = "SET_PRICE" => About(cmd) = "price"
        BY DEF About
    <2>3. cmd.op \in {"STOP_SALES", "RESUME_SALES"} => About(cmd) = "status"
        BY DEF About
    <2> QED BY <2>1, <2>2, <2>3
<1>8. Empties(cmd) => cmd.op \in {"SET_STOCK", "SET_OUT_OF_STOCK"}
    BY DEF Empties
<1>9. read.status \in {"sale", "out", "stopped", "barred"}
    BY <1>1 DEF Product
<1>10. /\ read.price \in since[c]["price"] /\ read.stock \in since[c]["stock"]
       /\ read.status \in since[c]["status"] /\ read.auction \in since[c]["auction"]
    BY <1>2, FieldsAre
<1> HIDE DEF cmd, read, c
<1>11. CASE kind = "naver"
    <2>1. e = Naver(cmd, read, remote)
        BY <1>3, <1>11 DEF Effect
    <2>2. CASE f # "status"
        <3>1. e.price = Single(cmd, remote).price /\ e.stock = Single(cmd, remote).stock /\ e.auction = remote.auction
            BY <1>1, <2>1, NaverIs
        <3>2. e[f] = remote[f]
            BY <1>1, <1>6, <1>7, <2>2, <3>1, SingleIs
        <3> QED BY <1>3, <3>2 DEF cmd, read, c
    <2>3. CASE f = "status"
        <3>1. e.status = IF cmd.op = "SET_PRICE" THEN remote.status
                         ELSE IF Empties(cmd) THEN "out"
                         ELSE IF cmd.op = "SET_STOCK" THEN IF read.status = "stopped" THEN "stopped" ELSE "sale"
                         ELSE IF cmd.op = "STOP_SALES" THEN "stopped" ELSE "sale"
            BY <1>1, <2>1, NaverIs
        <3>2. CASE cmd.op = "SET_PRICE"
            BY <1>3, <2>3, <3>1, <3>2 DEF cmd, read, c
        <3>3. CASE cmd.op # "SET_PRICE" /\ Empties(cmd)
            <4>1. e[f] \in h
                BY <1>5, <1>11, <2>3, <3>1, <3>3
            <4> QED BY <1>3, <1>4, <4>1 DEF cmd, read, c
        <3>4. CASE cmd.op # "SET_PRICE" /\ ~Empties(cmd)
            <4>1. cmd.op = "SET_STOCK"
                BY <1>1, <1>7, <2>3, <3>4, CommandIs DEF Empties
            <4>2. e.status = IF read.status = "stopped" THEN "stopped" ELSE "sale"
                BY <3>1, <3>4, <4>1
            <4>3. e[f] \in h
                BY <1>5, <1>9, <1>10, <1>11, <2>3, <3>4, <4>1, <4>2
            <4> QED BY <1>3, <1>4, <4>3 DEF cmd, read, c
        <3> QED BY <3>2, <3>3, <3>4
    <2> QED BY <2>2, <2>3
<1>12. CASE kind = "gmarket"
    <2>1. e = Gmarket(cmd, read)
        BY <1>3, <1>12 DEF Effect
    <2>2. /\ e.auction = AtLeastOne(read.auction)
          /\ e.price = IF Empties(cmd) THEN read.price ELSE Single(cmd, read).price
          /\ e.stock = AtLeastOne(IF Empties(cmd) THEN read.stock ELSE Single(cmd, read).stock)
          /\ e.status = IF Empties(cmd) THEN "stopped" ELSE Single(cmd, read).status
        BY <1>1, <2>1, GmarketIs
    <2>3. e[f] \in h
        <3>1. CASE f = "price"
            BY <1>1, <1>5, <1>7, <1>10, <2>2, <3>1, SingleIs
        <3>2. CASE f = "status"
            BY <1>1, <1>5, <1>7, <1>10, <1>12, <2>2, <3>2, SingleIs
        <3>3. CASE f = "stock"
            <4>1. e.stock = AtLeastOne(read.stock)
                BY <1>1, <1>7, <1>8, <2>2, <3>3, SingleIs
            <4> QED BY <1>5, <1>10, <1>12, <3>3, <4>1 DEF AtLeastOne
        <3>4. CASE f = "auction"
            BY <1>5, <1>10, <1>12, <2>2, <3>4 DEF AtLeastOne
        <3> QED BY <1>6, <3>1, <3>2, <3>3, <3>4
    <2> QED BY <1>3, <1>4, <2>3 DEF cmd, read, c
<1>13. CASE kind # "naver" /\ kind # "gmarket"
    <2>1. e = Single(cmd, remote)
        BY <1>3, <1>13 DEF Effect
    <2>2. e[f] = remote[f]
        BY <1>1, <1>6, <1>7, <2>1, SingleIs
    <2> QED BY <1>3, <2>2 DEF cmd, read, c
<1> QED BY <1>11, <1>12, <1>13

\* What a change gives to a field its command is not about, the field has had since the
\* call began, however late the change arrives and whatever was edited meanwhile
\* (change-status of Naver, sell-status of Gmarket); but for the ends of sales with the
\* stock, for Gmarket's 1, and for Naver's sale of what was out of stock or barred.
THEOREM LateChangesAreHarmless == Spec => NothingInvented
<1> DEFINE Kept == \A p \in wire \ wire', f \in Fields :
                        f # About(call[p.call].cmd) => remote'[f] \in Harmless(p.call, f) \union {remote[f]}
<1>1. IInv /\ [Next]_vars => [Kept]_vars
    <2> SUFFICES ASSUME IInv, Next, NEW p \in wire \ wire', NEW f \in Fields, f # About(call[p.call].cmd)
                 PROVE  remote'[f] \in Harmless(p.call, f) \union {remote[f]}
        OBVIOUS
    <2>1. PICK q \in wire : RemoteStep(q)
        BY DEF Next, TokenStep, TokenIssued, TokenFails, CallStep, Start, Read, Simulate, Refuse, Send, Answered,
               Verify, ReadRejected, Fails, CacheExpires, Edit, Revoke, remoteVars
    <2>2. wire' = wire \ {q}
        BY <2>1 DEF RemoteStep, RemoteApplies, RemoteRefuses, RemoteRejects
    <2>3. q = p
        BY <2>2
    <2>4. remote' = remote \/ remote' = Effect(call[p.call].cmd, p.read)
        BY <2>1, <2>3 DEF RemoteStep, RemoteApplies, RemoteRefuses, RemoteRejects, Becomes
    <2> QED BY <2>4, EffectIsHarmless
<1>2. [][Kept]_vars => NothingInvented
    BY PTL DEF NothingInvented
<1> QED BY <1>1, <1>2, Inductive, PTL DEF Spec

=============================================================================
