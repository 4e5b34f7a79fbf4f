------------------------------ MODULE Approval ------------------------------
(***************************************************************************)
(* Changing a product on the marketplaces under an approval: the preview,  *)
(* approve and cancel handlers of the web API (src/src/web/httpServer.ts)  *)
(* and of the Telegram bot (src/src/bot/telegramBot.ts), the one-time      *)
(* approval store, ControlService, the retrying market adapters, and the   *)
(* audit log.                                                              *)
(*                                                                         *)
(* One product.  A marketplace holds one value for it, which stands for    *)
(* the whole MarketState (price, stock, sale status); a command sets the   *)
(* value on every market it targets.                                       *)
(*                                                                         *)
(* The approval store is synchronous: each of its operations is one step   *)
(* of the process.  Everything a handler awaits is a step of its own.      *)
(***************************************************************************)
EXTENDS Naturals, FiniteSets

CONSTANTS
    Ids,          \* approval ids (randomUUID)
    Actors,       \* people who give commands
    KindOf,       \* whether an actor uses the "web" or the "telegram"
    Markets,      \* the markets a command targets
    Values,       \* market states
    Unread,       \* the market has not been read yet
    Nobody,       \* no actor
    Ttl,          \* the lifetime of an approval
    MaxTime,      \* bound: the clock stops here
    MaxAttempts,  \* attempts of one adapter request (3 in the code)
    Faults        \* TRUE: the process may die and a file write may fail

ASSUME ApprovalAssumption ==
    /\ KindOf \in [Actors -> {"web", "telegram"}]
    /\ Markets # {}
    /\ Unread \notin Values
    /\ Nobody \notin Actors
    /\ Ttl \in Nat \ {0}
    /\ MaxTime \in Nat
    /\ MaxAttempts \in Nat \ {0}
    /\ Faults \in BOOLEAN

VARIABLES
    pending,   \* ApprovalStore.pending, the ids in memory
    file,      \* the ids in approvals.json
    approval,  \* [Ids -> PendingApproval], what was created under each id
    job,       \* [Ids -> Job], the handler working on each id
    leg,       \* [Ids -> [Markets -> ...]], adapter.execute for each market
    sent,      \* [Ids -> [Markets -> Nat]], PUTs a leg has sent
    wire,      \* PUTs on their way to a marketplace
    applied,   \* PUTs a marketplace has carried out
    market,    \* [Markets -> Values], what each marketplace holds
    audit,     \* [Ids -> ...], the results recorded in audit.jsonl
    now,       \* the clock
    started,   \* history: [Ids -> [by, at]], the last successful consume
    uses,      \* history: [Ids -> Nat], successful consumes
    cancelled  \* history: ids whose cancel returned true

storeVars == <<pending, file, approval>>
remoteVars == <<wire, applied, market>>
historyVars == <<started, uses, cancelled>>
vars == <<pending, file, approval, job, leg, sent, wire, applied, market, audit,
          now, started, uses, cancelled>>

(***************************************************************************)
(* Types.  The stages of a job:                                            *)
(*   none       the id does not exist yet                                  *)
(*   preview    the preview handler is in ControlService.snapshot          *)
(*   open       approvals.create returned                                  *)
(*   recheck    executeApproved reads the markets again (Telegram only)    *)
(*   writing    ControlService.execute waits for its legs                  *)
(*   recording  audit.record                                               *)
(*   done       audited                                                    *)
(*   gone       cancelled, expired, or the handler ended without an audit  *)
(***************************************************************************)
Reading == [Markets -> Values \union {Unread}]
NothingRead == [m \in Markets |-> Unread]
PendingApproval == [by : Actors, value : Values, expires : Nat, seen : Reading]
NoApproval == [by |-> Nobody, value |-> Unread, expires |-> 0, seen |-> NothingRead]

\* fresh: what the recheck has read.  agreed (history): the markets that have
\* held their previewed value at some moment since the approve click.
Job == [stage : {"none", "preview", "open", "recheck", "writing", "recording",
                 "done", "gone"},
        fresh : Reading, agreed : SUBSET Markets]
Stage(s) == [stage |-> s, fresh |-> NothingRead, agreed |-> {}]

LegStates == {"idle", "before", "putting", "after", "ok", "failed"}
Put == [id : Ids, market : Markets, value : Values, n : Nat]
Results == [Markets -> {"ok", "failed"}]
NoAudit == [m \in Markets |-> "none"]
NoStart == [by |-> Nobody, at |-> 0]

TypeOK ==
    /\ pending \subseteq Ids /\ file \subseteq Ids
    /\ approval \in [Ids -> PendingApproval \union {NoApproval}]
    /\ job \in [Ids -> Job]
    /\ leg \in [Ids -> [Markets -> LegStates]]
    /\ sent \in [Ids -> [Markets -> 0..MaxAttempts]]
    /\ wire \subseteq Put /\ applied \subseteq Put
    /\ market \in [Markets -> Values]
    /\ audit \in [Ids -> Results \union {NoAudit}]
    /\ now \in 0..MaxTime
    /\ started \in [Ids -> [by : Actors \union {Nobody}, at : 0..MaxTime]]
    /\ uses \in [Ids -> Nat]
    /\ cancelled \subseteq Ids

Init ==
    /\ pending = {} /\ file = {}
    /\ approval = [i \in Ids |-> NoApproval]
    /\ job = [i \in Ids |-> Stage("none")]
    /\ leg = [i \in Ids |-> [m \in Markets |-> "idle"]]
    /\ sent = [i \in Ids |-> [m \in Markets |-> 0]]
    /\ wire = {} /\ applied = {}
    /\ market \in [Markets -> Values]
    /\ audit = [i \in Ids |-> NoAudit]
    /\ now = 0
    /\ started = [i \in Ids |-> NoStart]
    /\ uses = [i \in Ids |-> 0]
    /\ cancelled = {}

-----------------------------------------------------------------------------
AllRead(reading) == \A m \in Markets : reading[m] # Unread
Agreeing(i, held) == {m \in Markets : held[m] = approval[i].seen[m]}
AllLegs(i, state) == leg' = [leg EXCEPT ![i] = [m \in Markets |-> state]]
GoTo(i, stage) == job' = [job EXCEPT ![i] = Stage(stage)]

\* grammY hands the bot one update at a time: the handlers of Telegram actors
\* never overlap.
Busy(i) == job[i].stage \in {"preview", "recheck", "writing", "recording"}
OnTelegram(i) == Busy(i) /\ KindOf[approval[i].by] = "telegram"
Free(a) == KindOf[a] = "telegram" => \A i \in Ids : ~OnTelegram(i)

(***************************************************************************)
(* The process dies and is started again.  loadPersisted keeps the entries *)
(* of the file that have not expired; every handler is lost, while PUTs    *)
(* that were sent may still land.                                          *)
(***************************************************************************)
Live(i) == approval[i].expires > now
Restart ==
    /\ file' = {i \in file : Live(i)}
    /\ pending' = file'
    /\ job' = [i \in Ids |->
            CASE job[i].stage = "preview" -> Stage("none")
              [] job[i].stage \in {"recheck", "writing", "recording"} -> Stage("gone")
              [] job[i].stage = "open" /\ i \notin file' -> Stage("gone")
              [] OTHER -> job[i]]
    /\ approval' = [i \in Ids |->
            IF job[i].stage = "preview" THEN NoApproval ELSE approval[i]]
    /\ leg' = [i \in Ids |-> [m \in Markets |-> "idle"]]
    /\ UNCHANGED <<sent, wire, applied, market, audit, now, historyVars>>

(***************************************************************************)
(* Preview: read every market in turn, then create the approval            *)
(***************************************************************************)
Preview(i, a, v) ==
    /\ job[i].stage = "none"
    /\ Free(a)
    /\ GoTo(i, "preview")
    /\ approval' = [approval EXCEPT ![i] = [NoApproval EXCEPT !.by = a, !.value = v]]
    /\ UNCHANGED <<pending, file, leg, sent, remoteVars, audit, now, historyVars>>

PreviewReads(i, m) ==
    /\ job[i].stage = "preview"
    /\ approval[i].seen[m] = Unread
    /\ approval' = [approval EXCEPT ![i].seen[m] = market[m]]
    /\ UNCHANGED <<pending, file, job, leg, sent, remoteVars, audit, now, historyVars>>

Create(i) ==
    /\ job[i].stage = "preview"
    /\ AllRead(approval[i].seen)
    /\ file' = file \union {i}
    /\ pending' = pending \union {i}
    /\ approval' = [approval EXCEPT ![i].expires = now + Ttl]
    /\ GoTo(i, "open")
    /\ UNCHANGED <<leg, sent, remoteVars, audit, now, historyVars>>

\* A market cannot be read, or create cannot persist: nothing is stored.
PreviewFails(i) ==
    /\ job[i].stage = "preview"
    /\ GoTo(i, "none")
    /\ approval' = [approval EXCEPT ![i] = NoApproval]
    /\ UNCHANGED <<pending, file, leg, sent, remoteVars, audit, now, historyVars>>

(***************************************************************************)
(* consume and cancel.  Both look the id up in memory, drop it when it has *)
(* expired (whoever asks), check the actor, and remove it from the file    *)
(* before they remove it from memory.                                      *)
(***************************************************************************)
Expired(i) == approval[i].expires < now

ForgetOnly(i) ==                   \* mutant: the removal is not persisted
    /\ pending' = pending \ {i}
    /\ UNCHANGED file
RemovePersistedFirst(i) ==
    /\ file' = pending \ {i}
    /\ pending' = pending \ {i}

Granted(i, a) == i \in pending /\ ~Expired(i) /\ approval[i].by = a

\* Anyone's approve or cancel of an expired id.
Expire(i, a) ==
    /\ i \in pending /\ Expired(i)
    /\ Free(a)
    /\ RemovePersistedFirst(i)
    /\ GoTo(i, "gone")
    /\ UNCHANGED <<approval, leg, sent, remoteVars, audit, now, historyVars>>

\* The web handler writes at once; the bot reads the markets again first.
\* (answerCallbackQuery, which the bot awaits before that, is part of the recheck.)
Approve(i, a) ==
    /\ Granted(i, a)
    /\ Free(a)
    /\ RemovePersistedFirst(i)
    /\ job' = [job EXCEPT ![i] =
            [Stage(IF KindOf[a] = "web" THEN "writing" ELSE "recheck")
                EXCEPT !.agreed = Agreeing(i, market)]]
    /\ IF KindOf[a] = "web" THEN AllLegs(i, "before") ELSE UNCHANGED leg
    /\ started' = [started EXCEPT ![i] = [by |-> a, at |-> now]]
    /\ uses' = [uses EXCEPT ![i] = @ + 1]
    /\ UNCHANGED <<approval, sent, remoteVars, audit, now, cancelled>>

Cancel(i, a) ==
    /\ Granted(i, a)
    /\ Free(a)
    /\ RemovePersistedFirst(i)
    /\ GoTo(i, "gone")
    /\ cancelled' = cancelled \union {i}
    /\ UNCHANGED <<approval, leg, sent, remoteVars, audit, now, started, uses>>

\* The removal cannot be persisted.  A web request ends with a 500 and nothing
\* has changed.  The bot has no error handler: grammY stops it and rethrows,
\* nothing catches the rejection of bot.start, and the process ends.
RemovalThrows(i, a) ==
    /\ Faults
    /\ i \in pending /\ (Expired(i) \/ Granted(i, a))
    /\ Free(a)
    /\ IF KindOf[a] = "web" THEN UNCHANGED vars ELSE Restart

(***************************************************************************)
(* executeApproved: read every market again, and compare                   *)
(***************************************************************************)
RecheckReads(i, m) ==
    /\ job[i].stage = "recheck"
    /\ job[i].fresh[m] = Unread
    /\ job' = [job EXCEPT ![i].fresh[m] = market[m]]
    /\ UNCHANGED <<storeVars, leg, sent, remoteVars, audit, now, historyVars>>

SameCount(approved, current) ==    \* mutant: only the lengths are compared
    AllRead(approved) /\ AllRead(current)
SameSnapshot(approved, current) == approved = current

\* The results of a refused execution: one failure per market, nothing sent.
Rechecked(i) ==
    /\ job[i].stage = "recheck"
    /\ AllRead(job[i].fresh)
    /\ IF SameSnapshot(approval[i].seen, job[i].fresh)
       THEN /\ job' = [job EXCEPT ![i].stage = "writing", ![i].fresh = NothingRead]
            /\ AllLegs(i, "before")
       ELSE GoTo(i, "recording") /\ AllLegs(i, "failed")
    /\ UNCHANGED <<storeVars, sent, remoteVars, audit, now, historyVars>>

\* A read throws (or the Telegram API does).  The bot handler catches nothing:
\* the process ends, with the approval spent.
RecheckThrows(i) == job[i].stage = "recheck" /\ Restart

(***************************************************************************)
(* execute: one adapter call per market, in parallel, each with its catch. *)
(* The adapter reads the market, sends a PUT (again after a timeout or a   *)
(* 429/502/503/504 answer), and reads the market once more.                *)
(***************************************************************************)
LastPut(i, m) == [id |-> i, market |-> m, value |-> approval[i].value, n |-> sent[i][m]]
SendPut(i, m) ==
    /\ sent' = [sent EXCEPT ![i][m] = @ + 1]
    /\ wire' = wire \union {[LastPut(i, m) EXCEPT !.n = @ + 1]}

BeforeRead(i, m) ==
    /\ leg[i][m] = "before"
    /\ leg' = [leg EXCEPT ![i][m] = "putting"]
    /\ SendPut(i, m)
    /\ UNCHANGED <<storeVars, job, applied, market, audit, now, historyVars>>

WaitForAnswer(i, m) ==             \* mutant: no AbortController
    leg[i][m] = "putting" /\ LastPut(i, m) \notin wire
\* The 15 s timer fires, or an answer arrives that is not a success.
Unanswered(i, m) == leg[i][m] = "putting"

AttemptsLeftInclusive(i, m) ==     \* mutant: off by one
    sent[i][m] <= MaxAttempts
AttemptsLeft(i, m) == sent[i][m] < MaxAttempts

Retry(i, m) ==
    /\ Unanswered(i, m)
    /\ AttemptsLeft(i, m)
    /\ SendPut(i, m)
    /\ UNCHANGED <<storeVars, job, leg, applied, market, audit, now, historyVars>>

AnyAnswerIsSuccess(i, m) ==        \* mutant: the answer's status and code are not looked at
    leg[i][m] = "putting" /\ LastPut(i, m) \notin wire
Succeeded(i, m) == leg[i][m] = "putting" /\ LastPut(i, m) \in applied

PutAnswered(i, m) ==
    /\ Succeeded(i, m)
    /\ leg' = [leg EXCEPT ![i][m] = "after"]
    /\ UNCHANGED <<storeVars, job, sent, remoteVars, audit, now, historyVars>>

AfterRead(i, m) ==
    /\ leg[i][m] = "after"
    /\ leg' = [leg EXCEPT ![i][m] = "ok"]
    /\ UNCHANGED <<storeVars, job, sent, remoteVars, audit, now, historyVars>>

\* A read fails, the command is invalid for the market, the PUT is refused, or
\* its last attempt is not answered.
LegFails(i, m) ==
    /\ leg[i][m] \in {"before", "after"} \/ Unanswered(i, m)
    /\ leg' = [leg EXCEPT ![i][m] = "failed"]
    /\ UNCHANGED <<storeVars, job, sent, remoteVars, audit, now, historyVars>>

AnyLegSettled(i) ==                \* mutant: Promise.race for Promise.all
    \E m \in Markets : leg[i][m] \in {"ok", "failed"}
LegsSettled(i) == \A m \in Markets : leg[i][m] \in {"ok", "failed"}

Executed(i) ==
    /\ job[i].stage = "writing"
    /\ LegsSettled(i)
    /\ GoTo(i, "recording")
    /\ UNCHANGED <<storeVars, leg, sent, remoteVars, audit, now, historyVars>>

Record(i) ==
    /\ job[i].stage = "recording"
    /\ audit' = [audit EXCEPT ![i] =
            [m \in Markets |-> IF leg[i][m] = "ok" THEN "ok" ELSE "failed"]]
    /\ GoTo(i, "done")
    /\ UNCHANGED <<storeVars, leg, sent, remoteVars, now, historyVars>>

\* appendFile throws: a 500 to the web client, the end of the process for the bot.
RecordThrows(i) ==
    /\ Faults
    /\ job[i].stage = "recording"
    /\ IF OnTelegram(i) THEN Restart
       ELSE /\ GoTo(i, "gone")
            /\ UNCHANGED <<storeVars, leg, sent, remoteVars, audit, now, historyVars>>

(***************************************************************************)
(* The marketplaces (external): a PUT takes effect, is refused, or stays   *)
(* on its way; the seller also edits the product there.                    *)
(***************************************************************************)
\* Every recheck in progress has now also met the new values.
Meet(held) == job' = [i \in Ids |-> IF job[i].stage = "recheck"
    THEN [job[i] EXCEPT !.agreed = @ \union Agreeing(i, held)] ELSE job[i]]

RemoteApplies(p) ==
    /\ wire' = wire \ {p}
    /\ applied' = applied \union {p}
    /\ market' = [market EXCEPT ![p.market] = p.value]
    /\ Meet(market')
    /\ UNCHANGED <<storeVars, leg, sent, audit, now, historyVars>>

RemoteRefuses(p) ==
    /\ wire' = wire \ {p}
    /\ UNCHANGED <<storeVars, job, leg, sent, applied, market, audit, now, historyVars>>

SellerEdits(m, v) ==
    /\ market' = [market EXCEPT ![m] = v]
    /\ Meet(market')
    /\ UNCHANGED <<storeVars, leg, sent, wire, applied, audit, now, historyVars>>

Tick ==
    /\ now < MaxTime
    /\ now' = now + 1
    /\ UNCHANGED <<storeVars, job, leg, sent, remoteVars, audit, historyVars>>

Crash == Faults /\ Restart

-----------------------------------------------------------------------------
Click(i, a) == Approve(i, a) \/ Cancel(i, a) \/ Expire(i, a) \/ RemovalThrows(i, a)
LegStep(i, m) ==
    BeforeRead(i, m) \/ Retry(i, m) \/ PutAnswered(i, m) \/ AfterRead(i, m) \/ LegFails(i, m)
JobStep(i) ==
    \/ \E m \in Markets : PreviewReads(i, m) \/ RecheckReads(i, m)
    \/ Create(i) \/ Rechecked(i) \/ Executed(i) \/ Record(i)
JobFails(i) == PreviewFails(i) \/ RecheckThrows(i) \/ RecordThrows(i)
Remote ==
    \/ \E p \in wire : RemoteApplies(p) \/ RemoteRefuses(p)
    \/ \E m \in Markets, v \in Values : SellerEdits(m, v)

Next ==
    \/ \E i \in Ids, a \in Actors, v \in Values : Preview(i, a, v)
    \/ \E i \in Ids, a \in Actors : Click(i, a)
    \/ \E i \in Ids : JobStep(i) \/ JobFails(i)
    \/ \E i \in Ids, m \in Markets : LegStep(i, m)
    \/ Remote
    \/ Tick
    \/ Crash

Spec == Init /\ [][Next]_vars

\* Timers bound every await of a handler (15 s per request, a bounded number of
\* attempts), so a handler that can step does.  Nothing makes users click, the
\* marketplaces answer, or the clock pass an expiry.
FairSpec ==
    /\ Spec
    /\ \A i \in Ids : WF_vars(JobStep(i))
    /\ \A i \in Ids, m \in Markets : WF_vars(LegStep(i, m))

-----------------------------------------------------------------------------
(***************************************************************************)
(* Properties                                                              *)
(***************************************************************************)
\* A PUT leaves only under an approval that its own actor gave, in time, and
\* whose cancel never returned true; and by then the approval is spent, on disk
\* as in memory, so that no crash, restart or failing write lets it authorise a
\* second execution (docs/PRD.md section 7; "pending approval survives
\* process-style store recreation and remains one-time",
\* test/approvalStore.test.ts).
WritesAreAuthorised ==
    \A i \in Ids :
        /\ uses[i] <= 1
        /\ (\E m \in Markets : sent[i][m] > 0) =>
            /\ started[i].by = approval[i].by
            /\ started[i].at <= approval[i].expires
            /\ i \notin cancelled \union pending \union file

\* The bot writes only if every market has held its previewed value at some
\* moment after the owner pressed the button (executeApproved).  The web handler
\* calls execute and promises nothing of the kind.
TelegramRevalidates ==
    \A i \in Ids : job[i].stage = "writing" /\ KindOf[approval[i].by] = "telegram"
        => job[i].agreed = Markets

\* The market has carried out a PUT of every leg reported as ok, although the
\* answer to one attempt may be lost and another attempt refused.
OkMeansApplied ==
    \A i \in Ids, m \in Markets : leg[i][m] = "ok" \/ audit[i][m] = "ok" =>
        \E p \in applied : p.id = i /\ p.market = m

\* The audit line of an execution comes after everything it sent, and is never
\* rewritten: one failing leg does not end the wait for the others.
AuditIsFinal ==
    [][\A i \in Ids : audit[i] # NoAudit =>
        audit'[i] = audit[i] /\ sent'[i] = sent[i]]_vars

\* Every approved command comes to an end: an audit line, or the death of its
\* handler.
ApprovedEnds ==
    \A i \in Ids : job[i].stage \in {"recheck", "writing", "recording"}
        ~> job[i].stage \in {"done", "gone"}
=============================================================================
