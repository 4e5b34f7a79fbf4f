# A TLA+ model of the SellerHub control hub

SellerHub (package `online-seller-control-hub`) lets a seller see and change
products on six Korean marketplaces (Naver, Coupang, G마켓, 롯데ON, Toss, Kakao)
from a web application and a Telegram bot. It is one Node.js process, a
directory of JSON files, and a dozen remote services. This directory holds TLA+
modules that model its core, configurations that model-check them with TLC, and
proofs checked by TLAPS. Paths below are those of the repository, without the
leading `src/` of a checkout.

## Inventory

One process runs everything; handlers interleave at every `await` and nowhere
else. docker compose restarts the process when it ends (`restart:
unless-stopped`), and `docs/MARKET_POLICY_AUDIT_2026-09-10.md:16` allows one
replica only.

| component | state | operations | talks to |
|---|---|---|---|
| registration ledger, `src/persistence/registrationLedger.ts` | rows keyed by tenant, market, idempotency key | claim, finish, reconcileMapped | the register handler, startup |
| register handler, `src/web/httpServer.ts:349-397` | its suspended requests | check, claim, verify, POST, map, finish | ledger, catalog, marketplaces |
| catalog, `src/catalog/catalog.ts` | products with their market mappings | upsert, remove, setMarketplaceMapping, resolve | most handlers |
| approvals, `src/core/approvalStore.ts` | pending approvals, memory and file | create, consume, cancel, reload | preview, approve and cancel handlers |
| control, `src/core/controlService.ts` and `src/markets/*Adapter.ts` | none (rate limiters) | snapshot, executeApproved, execute | marketplaces, audit log |
| bot, `src/bot/telegramBot.ts` | grammY's update loop | message, approve, cancel | the two above |
| billing, `src/billing/tossPaymentsBilling.ts`, `src/persistence/billingStore.ts` | orders, one entitlement per tenant, a write chain | checkout, confirm, webhook, status | Toss Payments |
| accounts, `src/persistence/accountStore.ts` | accounts, sessions, a write chain | sign-up, approve, reject, login, logout | web authentication |
| web authentication, `src/web/webAuth.ts`, `src/web/authAbuseGuard.ts` | attempt windows and blocks | login, register | accounts, security audit log |
| token cache, `src/markets/accessTokenCache.ts` | tokens, fetches in flight | get, set, getOrCreate, invalidate | adapters, connection service |
| connections, `src/web/httpServer.ts:216-312`, `src/persistence/credentialStore.ts`, `marketLinkStore.ts` | API keys, linked seller accounts, the limits of a plan | save, link, remove | billing, catalog |
| references, `src/markets/marketReferenceService.ts`, `persistingMarketReferenceService.ts`, `src/persistence/orderSnapshotStore.ts` | pages being collected, stored orders | get, merge, cachedOrders | marketplaces |
| planners (`operations`, `orders`, `claims`, `settlement`, `reporting`, `automation`, `catalog`) | none | pure functions, which no handler calls yet | whoever executes a plan |
| web application, `web/src/App.tsx` and its pages | React state, a token in sessionStorage | sign in and out, commands, the upload page | the HTTP API |

What is hard here:

* *Interleaving.* Checks precede awaits: the mapping check before the claim, the
  abuse check before the password comparison, plan limits before the write.
* *Unknown outcomes.* A request to a marketplace or to Toss Payments that times
  out may have taken effect, may still take effect, or may never.
* *Crashes.* Every handler is a sequence of durable and remote steps, and the
  process may end between any two. Approvals and PENDING rows must not be
  replayed on a guess, verdicts and completed payments must not be lost.
* *Failing writes.* The ledger, catalog and approvals keep the old state when a
  snapshot cannot be written. The billing store does not: its memory is ahead
  and its chain of writes is rejected from then on. Five stores keep a backup that
  a start falls back on when the snapshot cannot be read.
* *Bounds.* Windows of attempts, sessions, pages, stored rows and the places of a
  FREE plan are counted by requests that run side by side.
* *Staleness.* A preview is minutes old when it is approved; a webhook acts on a
  status it queried a moment ago; a repeated confirmation is answered with the
  first answer. A page of the browser lives on while its calls are under way,
  and answers set its state whatever it has become.

`PROJECT.json` lists the hazards one by one, each at its line, with the
properties that would catch it.

What makes each component correct: a key is registered once at a time and its
verdict is truthful and final; an approval authorises one execution, by its
actor, in time; a reported success happened; PRO time is backed by payments
that stand; a store is a durable register; sessions and attempts are bounded; a
list that claims to be complete is; a plan sends what was confirmed and advice
adds up; a page shows its own user's data. The properties below say so precisely.

## Modules

### Registration

`Registration.tla` models one tenant and one market. `handler[h]` is a request
suspended in an await (`claiming`, `verifying`, `posting`, `mapping`,
`finishing`); `ledger` is the ledger, memory and file in one because
`enqueueMutation` publishes what it has made durable and nothing reads in
between; `catalog` is the market's product id of each SKU; `wire` holds POSTs
that the marketplace has not decided, `made` says which POST created each
product. A POST stays on the wire when its handler gives up or dies.
`sent`, `failed` and `edited` are history. A restart runs `reconcileMapped`.

`MCRegistration.tla` gives constants. Here and below, `X.tla` is the model,
`MCX.tla` its instance for TLC and `XProofs.tla` its theorems (`SnapshotProofs.tla` of
`SnapshotStore`, `DeskProofs.tla` of `UploadForm`, `Workspace` and `Connections`).

### Approval

`Approval.tla` models one product whose state on a market is one value. It keeps
`pending` (memory) and `file` apart, because removing an approval from the file
first is the point of `removePersistedFirst`. `job[i]` is the handler of
approval `i`: preview, open, recheck, writing, recording, done or gone. `leg[i][m]` is
`adapter.execute` on market `m`: before, putting, after, ok, failed. PUTs are
messages on `wire` that may be carried out late, refused or lost, and a leg may
send several. Markets are read one at a time, so a snapshot is not atomic.

Web handlers overlap; the bot's do not, because `bot.start` awaits each update
(`Free`). The bot installs no `bot.catch`: an error that leaves its approve
handler stops the bot, rejects the promise of `bot.start`, which nothing
handles, and ends the process. `RecheckThrows`, `RemovalThrows` and
`RecordThrows` therefore restart everything when they happen to the bot, and only
fail the request on the web.

### Billing

`Billing.tla` models one tenant, one payment per order. `data` is the memory,
`disk` the file; `writes` is the promise chain of `persist`, `image[r]` what the
write of request `r` has serialised. A mutation changes `data` at once and
queues its request; the head of the queue serialises the memory as it is by then,
later renames it into place, and its request goes on. `poisoned` records that
the chain, which has no catch, has rejected. `payment` is the truth at Toss
Payments: `CANCELED` stands for partial cancellation too, which the code treats
alike. A query returns the status of some moment before the webhook acts.

### SnapshotStore and DurableRegister

`DurableRegister.tla` is the promise: a value that mutations change one at a
time, completely or not at all, and that outlives the process. `Begin`, then
`Commit` (the caller is told), `CommitSilently` (the process ends before it can
be told) or `Abort`. Only a medium that does not give back what was written
(`~sound`) lets it `FallBack`, and then to a value of its past.

`SnapshotStore.tla` is the protocol that `registrationLedger`,
`orderSnapshotStore`, `credentialStore`, `marketLinkStore` and `accountStore`
share almost line by line. A content is the set of the mutations applied to it.
`phase` is where the process is: the awaits of a write (`reading` the file for
the backup, `copying` it there, `writing` the snapshot, `publishing` between the
rename and its continuation), `free`, or the start (`loading`, `recovering`,
`down`). `memory` is what readers see, `draft` and `copy` are the locals of the
mutation, `primary` and `backup` the files: whole, broken or missing. `blocked`
is a read error that is not about the content of the file. `Crash`, `Damage`
and `ReadErrors` may happen between any two steps, and every write may fail.
`last`, `past`, `answered`, `skipped` and `deleted` are history.

The refinement (`Refines`) maps `value` to `last`, `open` to the head of the queue
while it is being written, and `sound` to "the snapshot is readable and no start
has turned to the backup". `Publish` is a `Commit`; a `Crash` after the rename
is a `CommitSilently`; `Recover` is a `FallBack`; the rest stutters, begins or
aborts.

What differs between the five is left out: the order store has no mutation that
changes nothing, and `accountStore` writes its temporary file before the backup
instead of after it, which moves a failing write and changes no file. A caller
does not repeat a mutation it has no answer to. The catalog follows the same
protocol but writes an empty file on its first start; billing has a chain of its
own, which `Billing` models. The bytes of a file survive the process; a loss of
power (the code does not call `fsync`) is not modelled.

### Accounts

`Accounts.tla` models the accounts and sessions of `accountStore` and the
requests of `WebAuth` on them. Its `data` is one durable value because
`SnapshotStore` shows that the protocol beneath makes it one: `call[c]` is a request
in `queue` (`queued`) or being written (`writing`) with the draft it made
when its turn came, and a `Restart` finds the draft that was being written, or
the value before. Sessions are a set, as they are the values of an object, and each has
the number of its insertion, by which `enforceSessionLimit` sorts those of the same
time. Wrong passwords are a choice of `Reject`. `issued`, `given`,
`leaving`, `left` and `decided` are history.

### AuthGuard

`AuthGuard.tla` models the sliding windows of `authAbuseGuard`: one key for each
identifier, source and everyone, of logins and of sign-ups. A bucket is a set of
attempts, numbered in the order in which they were recorded, which tells two attempts
of one millisecond apart as the array does. `login[c]` is a login
whose password is being checked, after `assertLoginAllowed` and before
`recordLoginFailure` or `recordLoginSuccess`. The three maps (`Tables`) evict
on their own. `queuePersist` snapshots the maps
but not the buckets in them, so a `Snapshot` maps a key to the live bucket
(`Shared`) or to what it was when the code replaced it (`Detached`); `writes` is
the chain, `writing` what its head has serialised, and a write that fails is
forgotten. `counted`, `settled`, `lost` and `cleared` are history: what was
recorded, and what of it a restart, a success or an eviction took away.

### Adapters

`Approval` takes the state of a product on a market as one value. `Adapters.tla`
opens it: price, stock, sale status, and Auction's stock, which Gmarket's
interface carries along. A product of Naver is for sale, out of stock, suspended
(`"stopped"`), or `"barred"`: closed, prohibited or in any other state the code does not
set. `registry.ts:9-12` gives out the adapters of Coupang and Toss and the dry run
only; those of Naver and Gmarket are modelled as the code and its tests have them.
`call[c]` is a call of `execute` of one of the five
adapters between its requests; `wire` has the changes on their way, each with what
was read before it, because Gmarket sends all the fields back. A change that
was retried may arrive twice, and after the call has ended. The token cache is part of
the module: Naver's calls share a request for a token, Toss asks anew for each
read and each change; tokens end at the marketplace, and a 401 invalidates. `since`
and `grants` are history.

### Orders

`Orders.tla` models `get` of the references service for orders and products of
Coupang and Toss: a request (`req[r]`) collects pages under a cursor, while
orders are placed and move on, and the seven days do; then it waits for
its turn in the store's queue (`queue`), is merged into `rows`, pruned, and
answered. `cachedOrders` is `CachedOrders`. `matched` and `told` are history.

The store sorts the rows of both marketplaces together, by the text of a time as the
marketplace wrote it (`orderTimestamp`, `localeCompare`). What such a comparison sees
is `Stamp`: the `Moment` of a line put forward by the clock of its marketplace
(`Ahead`; texts of equal digits and different zones differ by part of a unit), and for a line
without a time (`Undated`) the server's clock when it was last seen. The sort is stable, so
that a row keeps its `place`.

A marketplace answers a page with the cursor that belongs to it, with one it gave
before, or with a new one that leads to its beginning (`Astray`, two cursors that stand
for any number of new ones); it may do so for ever.

### Shipments, Planners

`Shipments.tla` has `shipmentBatch`, `shipmentExecutionPlan` and `retryQueue` as
operators, and around them those who use them: a seller who edits the import
between two previews, marketplaces that take a batch and lose the answer, a caller
who keeps either kind of checkpoint. The batches of an import all differ, so that a
plan is a set of them with the order in which they come (`Precedes`), and a batch is
its own retry key: digests are taken to be injective. `mode` says which checkpoint
is kept; `accepted` and `plan` are history. `Planners.tla` has planners that answer in one step: `Consult` puts a
question and keeps it in `advice` with its answer. What may be asked is what the
schemas let through (`PlannersAssumption`). The form of the upload page and the
server's validator are there side by side, because they state the same rules twice.

### UploadForm, Workspace

`UploadForm.tla` is `ProductRegistration.tsx`: the tab, SKU, fields and request text
of the page, the answers it shows, the confirmation, the idempotency key, and the one call
under way (`flight`), which goes on when the page is left. Each answer is a
record of what it was about, so that a stale one can be told. `sent` is history.

`Workspace.tla` is `App.tsx` with the gate and the dialog: whose token the page has,
whose data it shows, requests on their way (`onWay`, which goes on after a
logout and which a reload stops listening to), and the approvals of the server. `strays`
is history: an earlier session ended before its answers were there.

### Connections

`Connections.tla` models the handlers that save API keys, link Naver sellers and save
products, under the limits of the FREE plan: `waiting[r]` is a request that has been
granted and awaits its body or its turn in a store. A payment, or the end of
its days, changes `pro` at any time. Each store is one step, as `SnapshotStore`
justifies.

`Desk.tla` composes these five modules, from `Shipments` on: each of its steps is a step
of one of them. They share no variable, so that steps of different parts commute, and a
property of one part cannot depend on another: in `MCDesk.tla` one part moves while
the others are at rest, and `DeskKeepsItsPromises` proves the properties where all
of them move. Likewise
the markets and the products of a tenant, and what a page shows and the commands
it gives, move apart, and one product at most is mapped elsewhere than on the page that
uploads it (which only keeps the page from sending it).

## Runs

| run | configuration | asks |
|---|---|---|
| `registration` | 2 requests, 2 keys, 2 SKUs, 2 products, 1 failed verdict per key, crashes and failing writes | safety of the ledger |
| `registration_live` | no faults, fairness | every claim gets a verdict |
| `registration_sku` | as small as the counterexample allows | a promise of `README.md:34` |
| `approval` | 2 approvals, a bot owner and a web tester, 1 market, 2 values, clock to 2 with a lifetime of 1, faults | safety of the approval store |
| `approval_legs` | 1 approval, 2 markets, 2 attempts, faults, fairness | execution, audit, termination |
| `billing` | 2 orders, 2 requests, clock to 2 with 2 days per order, faults | entitlements and durability |
| `snapshot` | 3 mutations, all faults | the protocol of the stores, and its refinement |
| `accounts` | 2 requests, 2 accounts, 3 tokens, 2 sessions per account, clock to 1 with a lifetime of 1, faults | sessions |
| `auth_guard` | 2 logins at a time, 3 requests, 2 identifiers and 2 sources of which 1 each is tracked, clock to 2, faults | limits of attempts |
| `adapters` | 5 adapters, 2 calls of 5 commands, 3 products, 2 tokens, 2 attempts, 1 event | effects of commands, tokens |
| `orders` | 3 lines, 2 marketplaces, 2 requests, pages of 1 line, 2 pages, 2 stored rows, 1 listed row, clock to 1, 1 restart, fairness | completeness, retention, termination |
| `desk` | see below | plans, advice, the upload page, plan limits, the browser |

Why the bounds are enough: two requests meet at every await, two keys and two
SKUs give every pairing of shared and different ones, and one failed verdict
gives a retry. `MaxFailures` bounds retries in `Request`; the proofs hold for
every value of it. A clock of 0..2 with a lifetime of 1 has approvals before, at and
after their expiry, on both sides of a restart. Two attempts give a PUT that
lands after its retry; three repeat that. `MaxAttempts` is 3 in the code.
The `approval_legs` run keeps the clock at 0: expiry does not touch an execution
that has begun. Two orders give every order of completion and cancellation of a
payment and the one it extends, and with two days per order an expiry may come
before or after a cancellation.

Three mutations put one in the backup, one in the snapshot and one under way;
nothing else bounds the `snapshot` run, whose crashes and damage may recur for
ever. Three tokens over a limit of two sessions are one login more than the
limit, and a second account shows that only the right sessions make room; the code's
limit is 5. A clock of 0..1 with a lifetime of 1 has a session expire under
a login that is queued, drafted or being written.

Three requests over limits of 1 and 2 (`MCAuthGuard.tla`) fill every window and try
it again, with one login checked beside the one that fills it; one tracked
identifier of two, and one source, make every other failure evict. A clock of 0..2 has attempts
leave a short window and stay in a long one. The `adapters` run gives every pair of
commands to two calls, on a product for sale, one that Auction sells too and one that is
stopped, and one event (an edit, an order, an ended token) between any two steps; two tokens are one
renewal. A fourth product is barred, on Naver.

`orders` has two requests to two marketplaces, one line to a page and two pages at most, so
that a list of Toss fits exactly, or ends at the cap when the marketplace goes round in
circles of two new cursors and of old ones; one request waits for the other's merge. The
clock of Coupang is two moments ahead, one line of Toss has no time, and one arrives while others
are collected, when the first has left the window of a later request. The store takes
two of the three rows and the list one, and an older line of the faster clock does push out a
newer one. A list that is really longer than the cap is the same step: a
further cursor after the last page allowed. The proofs are for any number of each.

`desk` has an import of two lines in one market, which are sent in one call or in two,
and a third line in another market, two tracking numbers, one edit, two tries; two tabs, SKUs and drafts and three keys of
the upload page; two tenants, three markets, two seller accounts, three SKUs and
limits of 1, so that two requests meet at the last place; two users and two approvals
with two requests on their way. The questions to the planners
(`MCDesk.tla`) lie on both sides of every limit: weights that divide the stock and
weights that do not, reservations within and beyond it, amounts within and beyond a
tolerance, prices, discounts and surcharges at each bound of the form.

Symmetry is used for requests, keys, ids, markets, values, orders, products, users,
approvals and seller accounts, which no definition tells apart, and in runs without temporal liveness only.
The runs of `Orders`, `adapters` and `desk` may stop: requests, calls, edits and keys run out.

What the safety runs show:

* `OneHolderPerKey`, `RetryOnlyAfterVerdict`: duplicates of a request in progress
  stop at the claim, and a POST whose outcome a crash or a failed write has
  hidden is never repeated.
* `CompletedIsBacked`, `CompletedIsFinal`: a verdict rests on
  a durable mapping and a real product of that SKU, and is never rewritten. A
  user who edits or deletes the catalog entry is excepted by name (`edited`).
* `WritesAreAuthorised`: an approval is gone from disk before anything is sent
  under it; it is used at most once; nothing is sent under a cancelled,
  expired or foreign one.
* `TelegramRevalidates`: the bot writes only if each market held its previewed
  value at some moment after the button was pressed. No more can be said: the
  markets are read one by one and may change right after.
* `OkMeansApplied`, `AuditIsFinal`: a leg reported as ok took effect; the audit
  line comes after everything the execution sent.
* `EntitlementBacked`, `PaidTimeBound`: in memory, on disk and in
  every image being written, PRO rests on a chain of orders that are DONE, lasts
  no longer than they pay for, and each was confirmed by Toss Payments.
* `AnsweredIsDurable`, `CancellationIsFinal`: what was answered after its own
  write is on disk, and a cancellation on disk never comes back.
* `Refines`: readers, callers, crashes and restarts see a durable register. An
  answered mutation is lost only by a start that could not read the snapshot. Such
  a start is the price of recovery without asking: a passing read error makes it
  serve the older backup and overwrite a good snapshot (`registrationLedger.ts:63`).
* `LosesAtMostOne`, `NeverStartsEmpty`: what such a start loses is one mutation,
  unless a refresh of the backup failed (which the code swallows); damaged files
  never turn into an empty store, deleted ones do.
* `SessionsHold`: an answered token works until it expires, its logout is asked for,
  or as many later logins as the limit have displaced it; one that was logged
  out never works again; an account has no more sessions than the limit.
* `AttemptsBounded`: what counts against a window never exceeds its limit by more
  than the logins that were checked side by side, less one. That excess is
  reached: the check comes before the password and the record after it.
* `OkMeansReached`, `NothingInvented`: a call that says ok had its product in the
  state asked for at some moment; and whatever arrives late or twice, the
  fields a command is not about get no value they did not have during the call. They may
  well get an older one: Gmarket's PUT writes a seller's edit away. Three exceptions
  are named: sales end with the stock; Gmarket's 0 goes out as 1; and a stock of Naver
  goes out with SALE unless the product was suspended, so that one that was closed or
  prohibited is put on sale as far as Naver lets it (`Reopens`).
* `TokensFresh`: Naver's calls fetch one token, and one more for each that ended
  or was refused.
* `CompleteUnlessMore`: a list without `hasNext` holds every line that matched
  throughout its request; it rests on the cap being told apart from the end, not on
  the check for repeated cursors. `AnsweredIsKept`: a line once shown stays in the stored
  list unless as many as fit it, or the store, come before it by the text of their
  time; a line of the other marketplace may be older than what it pushes out. `RequestsEnd`:
  the cap on pages ends a request whose every page arrives.
* `PlanIsExact`, `AcceptedOnce`: a confirmed shipment plan is the import on the
  screen; what it leaves out as done was taken as it stands; and no line is taken
  twice although answers are lost.
* `AdviceHolds`: allocations add up to what may be sold, reconciliations to the
  reports up to their roundings, a proposal rests on the newest alert and asks for
  confirmation, and a form the browser accepts is accepted by the server but in
  three named cases.
* `SentAsConfirmed`: what is registered is what was on the page when the box was
  ticked, and one key carries one request.
* `ConnectionsHold`: no two tenants link one seller account; a tenant on the
  FREE plan exceeds its limits by no more than the requests checked side by side.
* `PageIsTruthful`: commands are executed once and only by who saw and approved
  them; what the page lists as done or cancelled is; and the page shows its own
  user's data unless an earlier session ended with answers under way.

## Disagreements

The run `registration_sku` must fail: two keys register one SKU twice, against
`README.md:34`. Others met while modelling, which no run is spent on:

* A key is granted again after a POST that timed out, and a second product may be
  created (`marketConnectionService.ts:206`), against `README.md:35`.
* The web approval calls `execute` (`httpServer.ts:446`) and writes without
  revalidation, against the test title in `test/controlServiceApproval.test.ts:45`.
* Cancelling an order that was never completed suspends another order's PRO time
  (`billingStore.ts:175`), which the comment at 176 does not mean.
* A checkpoint kept as `lastSuccessfulRetryKey` skips an edited batch before the last
  successful one, against the comment at `shipmentBatch.ts:61-65`. The other
  kind of checkpoint does not.
* Gmarket's PUT sends a stock of 0 as 1, Auction's too (`gmarketAdapter.ts:114`), against
  "Preserve Auction exactly" at 108; and the read before it makes it write edits away.
* The stored order list keeps rows of older queries and two refreshes side by side may
  put an older status over a newer one, while `OrderManager.tsx` calls the list the
  snapshot of the last successful query.
* A stock set on a closed or prohibited product of Naver is sent with SALE, although the
  same status is read as STOPPED (`naverAdapter.ts:43`, 126).
* A price below 50 won with 99 % off is 0 won, although the discount is limited
  against that (`productUploadRules.ts:44`, `registrationValidator.ts:97`). The form accepts a
  price of 0, too large a stock, and 1 won off 1 won, which the server refuses.
* `httpServer.ts:220` compares Master SKUs by case only and `catalog.ts:66` by spaces
  too, so at the product limit a rewrite of an entry may be refused.
* Choosing another product keeps the request text (`ProductRegistration.tsx:207-218`), and
  answers that arrive after an edit are shown for the new page (242, 258, 533).
* Logging out resets the page but calls no `/api/auth/logout`; what is under way then is
  shown to whoever signs in next, until it is loaded again (`App.tsx:353-367`).

### Fairness

`Registration!FairSpec` and `Approval!FairSpec` assume that the event loop
eventually runs a handler that can step, and that every await ends: file
operations complete and every fetch has an abort timer (20 s, 15 s). The number
of attempts is bounded. `Orders!Fairness` assumes of the page a request waits for that
it arrives or fails, since each fetch has its own 20 s (`FetchEnds`), and of a merge
that it ends. A request whose pages all arrive is ended by their number alone
(`Continues`), or earlier by a cursor that repeats. Nothing is assumed of users, marketplaces, the clock or
crashes. A timed-out request needs no answer to end, which is what
`PendingResolves`, `ApprovedEnds` and `RequestsEnd` rest on.

## Proofs

`RegistrationProofs.tla` proves, for every set of requests, keys, SKUs, bodies and
products and every bound on retries, from `RegistrationAssumption` alone (each
body has a SKU; the null values are none of the others):

| theorem | says |
|---|---|
| `TypeCorrect` | every variable keeps its type |
| `MutualExclusion` | one request holds a key, and its row is PENDING (`OneHolderPerKey`) |
| `NoBlindRetry` | a key is sent again only after a failed verdict (`RetryOnlyAfterVerdict`) |
| `VerdictIsBacked` | a COMPLETED row rests on a mapping and on a real product of its SKU (`CompletedIsBacked`) |
| `ReplayIsStable` | no step changes a COMPLETED row (`CompletedIsFinal`) |

All five follow from `Inductive`, `Spec => []IInv`. The checked invariants alone
are not inductive; `IInv` adds what ties the three places of a registration
together:

* `OneHolderPerKey` is its own strengthening: a granted claim needs a row that is
  not PENDING, and every request past its claim has a PENDING row, so a second
  holder cannot appear. It is also what lets the finish of one request not
  touch the row of another.
* `SentWithinVerdicts` counts POSTs against verdicts by the state of the row: a
  row that is free has had a verdict for every POST, a request that has not
  posted yet still owes none, and a PENDING row owes at most one.
  `RetryOnlyAfterVerdict` is its first conjunct.
* `IdAfterAnswer` and `CarriedIsReal` follow the product number from the answer
  to the row, because a marketplace answers only with what it created; `CatalogIsReal`
  does the same for the mapping, which `reconcileMapped` turns into a verdict
  after a crash.

`IInv` is a conjunction of invariants. The lemmas `HolderStep`, `IdStep`,
`SentStep` and `RealStep` each show that every action preserves some of the
conjuncts, with one step per action. `IInv` was model-checked on the bounds of
`registration` before it was proved.

`SnapshotProofs.tla` proves, for every set of mutations, from
`SnapshotAssumption` (the null value is no mutation):

| theorem | says |
|---|---|
| `TypeCorrect` | every variable keeps its type |
| `Implements` | `SnapshotStore` implements `DurableRegister` (`Refines`) |
| `BackupIsRecent` | the backup is at most one mutation behind (`LosesAtMostOne`) |
| `FailsClosed` | only deleted files lead to an empty store (`NeverStartsEmpty`) |

They rest on its `Inductive`. That invariant adds to the type: a draft is the
memory and the head of the queue (`DraftIsNext`); a process that serves has in memory
what the store stands for, and a snapshot that parses is the same, or the
draft after the rename (`FilesAgree`); whatever a start could reach is of the
past (`OnlyThePast`); while a write is past its backup, the backup already holds
all of `last`, so that the rename puts it one mutation behind and no
further (`BackupLag`); no whole file lacks a mutation, and the first snapshot is
there before the first answer (`NoEmptyFile`, `SnapshotExists`). `Implements` then
takes the steps one by one: each maps to a step of the register or leaves its
variables alone.

`ApprovalProofs.tla` proves, for every set of approvals, actors, markets and values,
every lifetime and every number of attempts:

| theorem | says |
|---|---|
| `TypeCorrect` | every variable keeps its type |
| `OnlyApprovedWrites` | a PUT belongs to a click of its own actor, in time, on what is not cancelled, once (`WritesAreAuthorised`) |
| `BotRevalidates` | the bot writes only what each market agreed to on its recheck (`TelegramRevalidates`) |
| `ReportedIsApplied` | a leg that reports success has had a PUT carried out (`OkMeansApplied`) |
| `AuditEnds` | no step changes an audited approval or sends for it again (`AuditIsFinal`) |

`GrantedOnce` is the heart: an approval passes once from not granted to granted. It
needs `StoreIsOpen` (what a file holds is what the memory holds, and no handler has
it), or a restart could bring back what was already clicked. `LegsInTheirJob` says
that no leg outlives its handler's wait; without it a PUT could be sent after the audit.
`AgreedIsMet` follows the recheck while the markets change under it.

`BillingProofs.tla` proves, for every set of orders and requests and every number of
days:

| theorem | says |
|---|---|
| `TypeCorrect` | every variable keeps its type |
| `BackedByPayments` | PRO time rests on orders that were paid (`EntitlementBacked`) |
| `NoUnpaidTime` | and is no longer than they paid for (`PaidTimeBound`) |
| `AnswersArePersisted` | an answered completion or cancellation is in the file (`AnsweredIsDurable`) |
| `CanceledForGood` | a cancelled order stays so, in memory and file (`CancellationIsFinal`) |

An entitlement says only which order it rests on last. The invariant names the whole
chain (`IsChain`, `AddsUp`): a cancellation takes the last order off it and
gives back the time of the one before, so that each of its orders must be paid
and must have added its days to what it extended. It holds of every image
(`AllSolid`): memory, file, and what a write has serialised. `InOrder` and
`OwnWriteCarries` say that these three follow each other, which is why the rename
of an older image never takes back what was answered.

`DeskProofs.tla` is about the desk and its parts, each with its own invariant:

| theorem | says |
|---|---|
| `ConnectionsTypeCorrect`, `FormTypeCorrect`, `WorkspaceTypeCorrect`, `ShipmentsTypeCorrect` | the variables of a part keep their types |
| `PlansAreHeld` | no plan is exceeded by more than the requests that overlap; a seller account has one owner (`ConnectionsHold`) |
| `SentAsTicked` | what is sent is what was ticked, a key has one request (`SentAsConfirmed`) |
| `PageTellsTheTruth` | what is shown and told is so, what is executed was pressed (`PageIsTruthful`) |
| `PlansAreExact` | a confirmed plan sends what was previewed and leaves out what was taken as it stands (`PlanIsExact`) |
| `LinesAreTakenOnce` | without edits no line is taken twice (`AcceptedOnce`) |
| `StockIsShared`, `SettlementsAreReconciled`, `ProposalsRest`, `FormsAgree` | what each planner answers, for any question its schema lets through |
| `AdviceIsSound` | the advice holds (`AdviceHolds`), from these four |
| `DeskTypeCorrect`, `DeskKeepsItsPromises` | all of this of the desk, whichever part moves (`DeskTypeOK`) |

For the plans, `WithinPlan` counts what a tenant has together with what was granted and
has not been saved: a grant sees all but the other requests' grants, hence the
`Cardinality(Requests) - 1` of overlap. In the form, whatever changes the page unticks the box
(`TickIsOfPage`) and takes a new key (`SentByKey`). For the page, `OwnSession` ties every
answer still listened to to the user whose page it is, as long as no earlier session
ended before its answers (`strays`), and `CallFine` ties what an answer on its way says to the
approvals of the server, which only move forward (`RowsFine`). The assumptions are
`ConnectionsAssumption`, `FormAssumption` (the first tab and SKU are among those there are),
`WorkspaceAssumption` (nobody is no user), `ShipmentsAssumption` (what stands for no
batch is none) and `PlannersAssumption` (questions have the types of their schemas).

For the shipments, `Checkpoints` says that what is done was taken and what is left of a
plan is not done. While nobody edits the import, `OnceEach` says of every
batch that its lines were taken never, or once and it is done or its answer was lost;
a lost answer is a manual failure, so that it is not sent again. A caller who keeps only
the last key keeps less, and `InOrder` says why it is enough: the batches done are those
up to it, because they are sent in their order and a failed batch stops the plan. That
needs the order to be total, and transitive for batches of different markets: the
first line of a market decides, and a batch has a line.

The planners compute sums and loops with the folds of the community modules. A fold is
a function on the subsets of its set, which takes out one element at a time;
`FoldsExist` shows that there is such a function, and `SubsetInduction` is induction
over a finite set said of a set of subsets, since an operator cannot be instantiated
in these provers. From there `TotalTakes` has a sum be the same whichever element
is taken first, `SharesFit` has shares that are rounded down add up to no more than
the whole (the last market takes the rest, and it is not negative), and `LoopIsNear` is
the invariant of the loop over the settlements of an order: what it has is at most
half a hundredth for each addition away from what was paid. `SomeIsNewest` finds the
alert a rule rests on, and `SomethingIsPaid` that a discount leaves a won to pay.

`OrdersProofs.tla` proves, for any number of lines, requests, pages and stored rows:

| theorem | says |
|---|---|
| `TypeCorrect` | every variable keeps its type |
| `ShownIsKept` | an order that was shown is shown again, or as many as fit the list or the store come before it (`AnsweredIsKept`) |
| `NothingMissed` | an answer that does not say there is more is complete (`CompleteUnlessMore`) |

`MatchedAreCovered` is the loop invariant of the pages: a line that matches is collected or
behind the cursor, whatever is placed in front or leaves meanwhile, and a stray cursor is
in front of them all. `ToldAreStored` says of a line that was shown that the store has it
as of that time or later, or is full of rows whose times are written no earlier.
That survives a merge because seeing a row again never lowers its `Stamp` (`StampIs`), and
the rows that are kept are those before every row that is not (`TopIsAhead`). Both the
page (the newest lines) and the store (the first rows) are the first `n` of a sorted set,
`Top`, about which the lemmas are stated once for any order; that the store's is one
needs that no two rows share a place (`InPlace`), which the sort restores. Least elements
come from the well-foundedness of the numbers (`WFMin`), which needs no operator as a
parameter. `OrdersAssumption` has lines to be finite, numbered in the order of their moments;
clocks may differ by any amount.

`AdaptersProofs.tla` proves, for any number of calls, values, tokens, attempts and
events, and each of the five adapters:

| theorem | says |
|---|---|
| `TypeCorrect` | every variable keeps its type |
| `OkIsReached` | a call that reports success has been in effect since it began (`OkMeansReached`) |
| `TokensAreShared` | Naver's calls share one request for a token (`TokensFresh`) |
| `LateChangesAreHarmless` | a change that lands late sets beside its own field only what a field was during its call (`NothingInvented`) |

`Fine` says of one call what its stage promises: what it read is of its own time, and
past a successful answer its effect has been there. `WireFine` says the same of what is
still on its way, also for a call that has given up. Another actor's change only adds
to `since`, so that neither can break.

`AccessProofs.tla` proves, for any number of accounts, tokens and requests and any limit
of sessions, and for any identifiers, sources, limits, windows and numbers of buckets:

| theorem | says |
|---|---|
| `TypeCorrect` | every variable keeps its type; a decision is answered as done once |
| `SessionsAreHeld` | an answered token works until something of its own ends it, a logout is final, sessions are limited (`SessionsHold`) |
| `GuardTypeCorrect` | the windows and their images keep their types, and no map has more buckets than it may (`GuardTypeOK`) |
| `AttemptsAreBounded` | no window holds more than its limit and the logins checked side by side (`AttemptsBounded`) |

`Fine` is said of a value of the store together with what it will have issued, so that it
holds of the data and of the draft being written alike: a publication, or a restart that
finds the draft, puts the one in the place of the other. Between the two only
`leaving` and the clock move, and both only ask less. `LoginIssues` is the heart: a
session with fewer than `MaxSessions - 1` later ones before a login has fewer than
`MaxSessions` after it, and those that stay (`LimitedAreFew`) leave room for one.
`OneWriter` makes the draft the only one.

The guard's invariant (`GuardIInv`) says that memory, every waiting snapshot as it would
be written now (`Seen`), the write under way and the file are images of what was
counted (`Image`): they have what counts, up to a point, and nothing that was
not counted (`Covers`, `Within`). The memory and the last write have all of it
(`UpTo`), the others at least what was `settled`, which is what a restart cannot
lose. `Room` is the bound with the logins in progress included: what counts, and the
logins being checked that would count too, fit the limit and the overshoot, which a
new check may only use up when the window is not full. Time only takes attempts
out of windows. `Sparse` limits the buckets of every image; an eviction makes the room
for the one that was recorded (`EvictionMakesRoom`). `GuardAssumption` has the logins
in progress finite, and identifiers, sources and everyone distinct.

Each `IInv` was model-checked as an invariant of its run before it was proved. An
attempt found a mistake in a model: two arms of a `CASE` in
`Approval!Restart` held together, which TLA+ leaves open and TLC resolves by order.

Model-checked only: liveness (`PendingResolves`, `ApprovedEnds`, `RequestsEnd`) and `ENABLED`,
which are outside this prover. Every invariant and action property that a passing run
checks is a theorem.

## What is not modelled

Toss answers a list of products with `hasNext` beside its token. Where it says `hasNext`
without a token the code stops and reports no more (`marketReferenceService.ts:429-439`), so
that such a list may claim to be complete and not be; in `Orders` there is a further page
exactly when there is a cursor, and `CompleteUnlessMore` does not speak of that answer.
`Planners` compares the two copies of the form's rules on a form that is applied once,
over the starter payload: applying a second one spreads the fields of the first
(`ProductRegistration.tsx:400-458`), so that a field left empty then keeps its earlier value.

Formatting, parsing, signatures, hashes, encryption and the text of messages.
Tenants, except in `Connections`: every operation works on one tenant's rows, and the
stores' queues serialise tenants as they do requests. The modules above the stores
assume a medium that gives back what was renamed; what a recovery from the backup
would undo in them (a PENDING row, a logout, a cancellation) is listed as a hazard.
`bootstrapAdmin` writes the account file from a process of its own. An order that is
DONE in memory is answered as paid although its write may be pending or may have
failed (`tossPaymentsBilling.ts:122`); `AnsweredIsDurable` speaks only of requests
that waited for their own write.

The security audit log is telemetry that nothing reads back; its chain has no catch, so
that one failed append silences it until a restart. `rateLimiter` spaces requests in
time. Planners that are tables (status transitions, claim actions, listing readiness)
or sums of a column (reports, forecasts, CSV) have nothing to go wrong between two
steps, nor have pages that load a list and show it. The command interpreter is a call
of an external model whose answer is validated by a schema; deployment is shell.

## Plan

The modules are done, in this order: `Registration`, `Approval`, `Billing`,
`DurableRegister` and `SnapshotStore`, `Accounts`, `AuthGuard`, `Adapters`, `Orders`,
`Shipments`, `Planners`, `UploadForm`, `Connections`, `Workspace`, `Desk`; and the proofs
of the invariants of all of them. Liveness is left to TLC.
