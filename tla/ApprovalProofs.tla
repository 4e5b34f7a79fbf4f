--------------------------- MODULE ApprovalProofs ---------------------------
(***************************************************************************)
(* Approval's safety properties, proved for any number of approvals,       *)
(* actors, markets and attempts.                                           *)
(***************************************************************************)
EXTENDS Approval, TLAPS

(***************************************************************************)
(* The inductive invariant                                                 *)
(***************************************************************************)
\* The file and the memory agree, and what they hold waits for a click.
StoreIsOpen == pending = file /\ \A i \in pending : job[i].stage = "open"

\* An id has an approval from its preview on.
KnownByStage == \A i \in Ids : job[i].stage # "none" => approval[i] \in PendingApproval

\* An approval passes once from not granted to granted, at the click of its own
\* actor and in time; what was cancelled is never granted.
GrantedOnce ==
    \A i \in Ids :
        /\ uses[i] <= 1
        /\ uses[i] = 1 =>
            /\ job[i].stage \in {"recheck", "writing", "recording", "done", "gone"}
            /\ started[i].by = approval[i].by
            /\ started[i].at <= approval[i].expires
            /\ i \notin cancelled
        /\ job[i].stage \in {"recheck", "writing", "recording", "done"} => uses[i] = 1
        /\ i \in cancelled => job[i].stage = "gone"

\* Legs are at work while their job waits for them only; nothing is sent before
\* they begin.
LegsInTheirJob ==
    \A i \in Ids, m \in Markets :
        /\ leg[i][m] \in {"before", "putting", "after"} => job[i].stage = "writing"
        /\ leg[i][m] = "before" \/ job[i].stage = "recheck" \/ uses[i] = 0 => sent[i][m] = 0

\* A leg whose PUT was answered with success has had one carried out.
AnsweredIsApplied ==
    \A i \in Ids, m \in Markets :
        leg[i][m] \in {"after", "ok"} \/ audit[i][m] = "ok" =>
            \E p \in applied : p.id = i /\ p.market = m

AuditedIsDone == \A i \in Ids : audit[i] # NoAudit => job[i].stage = "done"

\* A recheck knows of every market that holds, or was read with, its previewed
\* value that it has agreed.
AgreedIsMet ==
    \A i \in Ids : job[i].stage = "recheck" =>
        \A m \in Markets :
            \/ market[m] = approval[i].seen[m]
            \/ job[i].fresh[m] # Unread /\ job[i].fresh[m] = approval[i].seen[m]
            => m \in job[i].agreed

IInv ==
    /\ TypeOK
    /\ StoreIsOpen
    /\ KnownByStage
    /\ GrantedOnce
    /\ LegsInTheirJob
    /\ AnsweredIsApplied
    /\ AuditedIsDone
    /\ AgreedIsMet
    /\ TelegramRevalidates

-----------------------------------------------------------------------------
(***************************************************************************)
(* Lemmas                                                                  *)
(***************************************************************************)
LEMMA StagesAreJobs ==
    ASSUME NEW s \in {"none", "preview", "open", "recheck", "writing", "recording", "done", "gone"}
    PROVE  Stage(s) \in Job
BY DEF Stage, Job, Reading, NothingRead

LEMMA AllLegsType ==
    ASSUME TypeOK, NEW i \in Ids, NEW s \in LegStates, AllLegs(i, s)
    PROVE  /\ leg' \in [Ids -> [Markets -> LegStates]]
           /\ \A j \in Ids, n \in Markets : leg'[j][n] = IF j = i THEN s ELSE leg[j][n]
BY DEF TypeOK, AllLegs

\* One leg takes one step.
LEMMA OneLegType ==
    ASSUME TypeOK, NEW i \in Ids, NEW m \in Markets, NEW s \in LegStates,
           leg' = [leg EXCEPT ![i][m] = s]
    PROVE  /\ leg' \in [Ids -> [Markets -> LegStates]]
           /\ \A j \in Ids, n \in Markets :
                leg'[j][n] = IF j = i /\ n = m THEN s ELSE leg[j][n]
BY DEF TypeOK

LEMMA InitIInv == Init => IInv
BY ApprovalAssumption
DEF Init, IInv, TypeOK, StoreIsOpen, KnownByStage, GrantedOnce, LegsInTheirJob, AnsweredIsApplied,
    AuditedIsDone, AgreedIsMet, TelegramRevalidates, Stage, Job, Reading, NothingRead, NoApproval,
    LegStates, NoAudit, NoStart

LEMMA RestartType == TypeOK /\ Restart => TypeOK'
<1> SUFFICES ASSUME TypeOK, Restart PROVE TypeOK'
    OBVIOUS
<1>1. pending' \subseteq Ids /\ file' \subseteq Ids
    BY DEF Restart, TypeOK
<1>2. approval' \in [Ids -> PendingApproval \union {NoApproval}]
    BY DEF Restart, TypeOK
<1>3. job' \in [Ids -> Job]
    BY StagesAreJobs DEF Restart, TypeOK
<1>4. leg' \in [Ids -> [Markets -> LegStates]]
    BY DEF Restart, LegStates
<1>5. QED
    BY <1>1, <1>2, <1>3, <1>4 DEF Restart, TypeOK, historyVars

LEMMA TypeStep == IInv /\ [Next]_vars => TypeOK'
<1> SUFFICES ASSUME IInv, [Next]_vars PROVE TypeOK'
    OBVIOUS
<1> USE ApprovalAssumption DEF IInv, storeVars, remoteVars, historyVars, GoTo, AllLegs
<1>1. ASSUME NEW i \in Ids, NEW a \in Actors, NEW v \in Values, Preview(i, a, v) PROVE TypeOK'
    BY <1>1, StagesAreJobs DEF Preview, TypeOK, NoApproval, PendingApproval, NothingRead, Reading
<1>2. ASSUME NEW i \in Ids, NEW a \in Actors, Click(i, a) PROVE TypeOK'
    <2>1. CASE Approve(i, a)
        <3>1. job' \in [Ids -> Job]
            BY <2>1 DEF Approve, TypeOK, Stage, Job, Reading, NothingRead, Agreeing
        <3>2. leg' \in [Ids -> [Markets -> LegStates]]
            <4>1. CASE KindOf[a] = "web"
                BY <2>1, <4>1, AllLegsType DEF Approve, LegStates
            <4>2. CASE KindOf[a] # "web"
                BY <2>1, <4>2 DEF Approve, TypeOK
            <4>3. QED BY <4>1, <4>2
        <3>3. QED BY <2>1, <3>1, <3>2 DEF Approve, RemovePersistedFirst, TypeOK
    <2>2. CASE Cancel(i, a)
        BY <2>2, StagesAreJobs DEF Cancel, RemovePersistedFirst, TypeOK
    <2>3. CASE Expire(i, a)
        BY <2>3, StagesAreJobs DEF Expire, RemovePersistedFirst, TypeOK
    <2>4. CASE RemovalThrows(i, a)
        BY <2>4, RestartType DEF RemovalThrows, TypeOK, vars
    <2>5. QED BY <1>2, <2>1, <2>2, <2>3, <2>4 DEF Click
<1>3. ASSUME NEW i \in Ids, JobStep(i) PROVE TypeOK'
    <2>1. ASSUME NEW m \in Markets, PreviewReads(i, m) PROVE TypeOK'
        <3>1. approval[i] \in PendingApproval
            BY <2>1 DEF PreviewReads, KnownByStage
        <3>2. approval' \in [Ids -> PendingApproval \union {NoApproval}]
            BY <2>1, <3>1 DEF PreviewReads, TypeOK, PendingApproval, Reading
        <3>3. QED BY <2>1, <3>2 DEF PreviewReads, TypeOK
    <2>2. ASSUME NEW m \in Markets, RecheckReads(i, m) PROVE TypeOK'
        <3>1. job' \in [Ids -> Job]
            <4>1. market[m] \in Values /\ job[i] \in Job
                BY DEF TypeOK
            <4>2. [job[i] EXCEPT !.fresh[m] = market[m]] \in Job
                BY <4>1 DEF Job, Reading
            <4>3. job' = [job EXCEPT ![i] = [job[i] EXCEPT !.fresh[m] = market[m]]]
                BY <2>2 DEF RecheckReads, TypeOK
            <4>4. QED BY <4>2, <4>3 DEF TypeOK
        <3>2. QED BY <2>2, <3>1 DEF RecheckReads, TypeOK
    <2>3. CASE Create(i)
        <3>1. approval[i] \in PendingApproval
            BY <2>3 DEF Create, KnownByStage
        <3>2. approval' \in [Ids -> PendingApproval \union {NoApproval}]
            <4>1. [approval[i] EXCEPT !.expires = now + Ttl] \in PendingApproval
                <5>1. now + Ttl \in Nat
                    BY DEF TypeOK
                <5>2. QED BY <3>1, <5>1 DEF PendingApproval
            <4>2. approval' = [approval EXCEPT ![i] = [approval[i] EXCEPT !.expires = now + Ttl]]
                BY <2>3 DEF Create, TypeOK
            <4>3. QED BY <4>1, <4>2 DEF TypeOK
        <3>3. QED BY <2>3, <3>2, StagesAreJobs DEF Create, TypeOK
    <2>4. CASE Rechecked(i)
        <3>1. job' \in [Ids -> Job]
            <4>1. [job[i] EXCEPT !.stage = "writing", !.fresh = NothingRead] \in Job
                <5>1. job[i] \in Job
                    BY DEF TypeOK
                <5>2. QED BY <5>1 DEF Job, Reading, NothingRead
            <4>2. CASE SameSnapshot(approval[i].seen, job[i].fresh)
                <5>1. job' = [job EXCEPT ![i] =
                                [job[i] EXCEPT !.stage = "writing", !.fresh = NothingRead]]
                    BY <2>4, <4>2 DEF Rechecked, TypeOK
                <5>2. QED BY <4>1, <5>1 DEF TypeOK
            <4>3. CASE ~SameSnapshot(approval[i].seen, job[i].fresh)
                BY <2>4, <4>3, StagesAreJobs DEF Rechecked, TypeOK
            <4>4. QED BY <4>2, <4>3
        <3>2. leg' \in [Ids -> [Markets -> LegStates]]
            BY <2>4, AllLegsType DEF Rechecked, LegStates
        <3>3. QED BY <2>4, <3>1, <3>2 DEF Rechecked, TypeOK
    <2>5. CASE Executed(i)
        BY <2>5, StagesAreJobs DEF Executed, TypeOK
    <2>6. CASE Record(i)
        <3>1. audit' \in [Ids -> Results \union {NoAudit}]
            BY <2>6 DEF Record, TypeOK, Results
        <3>2. QED BY <2>6, <3>1, StagesAreJobs DEF Record, TypeOK
    <2>7. QED BY <1>3, <2>1, <2>2, <2>3, <2>4, <2>5, <2>6 DEF JobStep
<1>4. ASSUME NEW i \in Ids, JobFails(i) PROVE TypeOK'
    <2>1. CASE PreviewFails(i)
        BY <2>1, StagesAreJobs DEF PreviewFails, TypeOK
    <2>2. CASE RecheckThrows(i)
        BY <2>2, RestartType DEF RecheckThrows
    <2>3. CASE RecordThrows(i)
        <3>1. CASE OnTelegram(i)
            BY <2>3, <3>1, RestartType DEF RecordThrows
        <3>2. CASE ~OnTelegram(i)
            <4>1. job' \in [Ids -> Job]
                BY <2>3, <3>2, StagesAreJobs DEF RecordThrows, TypeOK
            <4>2. QED BY <2>3, <3>2, <4>1 DEF RecordThrows, TypeOK
        <3>3. QED BY <3>1, <3>2
    <2>4. QED BY <1>4, <2>1, <2>2, <2>3 DEF JobFails
<1>5. ASSUME NEW i \in Ids, NEW m \in Markets, LegStep(i, m) PROVE TypeOK'
    <2>1. ASSUME SendPut(i, m), leg[i][m] \in {"before", "putting"}, sent[i][m] < MaxAttempts
          PROVE  sent' \in [Ids -> [Markets -> 0..MaxAttempts]] /\ wire' \subseteq Put
        <3>1. sent[i][m] + 1 \in 0..MaxAttempts
            BY <2>1 DEF TypeOK
        <3>2. sent' \in [Ids -> [Markets -> 0..MaxAttempts]]
            BY <2>1, <3>1 DEF SendPut, TypeOK
        <3>3. approval[i].value \in Values
            BY <2>1 DEF LegsInTheirJob, KnownByStage, PendingApproval
        <3>4. [LastPut(i, m) EXCEPT !.n = @ + 1] \in Put
            BY <3>1, <3>3 DEF LastPut, Put
        <3>5. QED BY <2>1, <3>2, <3>4 DEF SendPut, TypeOK
    <2>2. CASE BeforeRead(i, m)
        <3>1. sent[i][m] < MaxAttempts
            BY <2>2 DEF BeforeRead, LegsInTheirJob
        <3>2. leg' \in [Ids -> [Markets -> LegStates]]
            BY <2>2, OneLegType DEF BeforeRead, LegStates
        <3>3. QED BY <2>1, <2>2, <3>1, <3>2 DEF BeforeRead, TypeOK
    <2>3. CASE Retry(i, m)
        BY <2>1, <2>3 DEF Retry, Unanswered, AttemptsLeft, TypeOK
    <2>4. CASE PutAnswered(i, m) \/ AfterRead(i, m) \/ LegFails(i, m)
        <3>1. leg' \in [Ids -> [Markets -> LegStates]]
            BY <2>4, OneLegType DEF PutAnswered, AfterRead, LegFails, LegStates
        <3>2. QED BY <2>4, <3>1 DEF PutAnswered, AfterRead, LegFails, TypeOK
    <2>5. QED BY <1>5, <2>2, <2>3, <2>4 DEF LegStep
<1>6. CASE Remote
    <2>1. ASSUME Meet(market') PROVE job' \in [Ids -> Job]
        <3> SUFFICES ASSUME NEW j \in Ids PROVE job'[j] \in Job
            BY <2>1 DEF Meet
        <3>1. [job[j] EXCEPT !.agreed = @ \union Agreeing(j, market')] \in Job
            <4>1. job[j] \in Job
                BY DEF TypeOK
            <4>2. QED BY <4>1 DEF Job, Agreeing
        <3>2. QED BY <2>1, <3>1 DEF Meet, TypeOK
    <2>2. ASSUME NEW p \in wire, RemoteApplies(p) PROVE TypeOK'
        <3>1. p \in Put BY DEF TypeOK
        <3>2. QED BY <2>1, <2>2, <3>1 DEF RemoteApplies, TypeOK, Put
    <2>3. ASSUME NEW p \in wire, RemoteRefuses(p) PROVE TypeOK'
        BY <2>3 DEF RemoteRefuses, TypeOK
    <2>4. ASSUME NEW m \in Markets, NEW v \in Values, SellerEdits(m, v) PROVE TypeOK'
        BY <2>1, <2>4 DEF SellerEdits, TypeOK
    <2>5. QED BY <1>6, <2>2, <2>3, <2>4 DEF Remote
<1>7. CASE Tick
    BY <1>7 DEF Tick, TypeOK
<1>8. CASE Crash
    BY <1>8, RestartType DEF Crash
<1>9. CASE UNCHANGED vars
    BY <1>9 DEF vars, TypeOK
<1>10. QED BY <1>1, <1>2, <1>3, <1>4, <1>5, <1>6, <1>7, <1>8, <1>9 DEF Next
\* The steps of legs, marketplaces and the clock, and the reads of a recheck, leave
\* every approval where it stands.
Aside ==
    \/ \E i \in Ids, m \in Markets : LegStep(i, m) \/ RecheckReads(i, m)
    \/ Remote \/ Tick \/ UNCHANGED vars

LEMMA AsideStands ==
    ASSUME TypeOK, Aside
    PROVE  /\ UNCHANGED <<storeVars, audit, historyVars>>
           /\ \A j \in Ids : job'[j].stage = job[j].stage
<1> USE DEF storeVars, remoteVars, historyVars
<1>1. ASSUME NEW i \in Ids, NEW m \in Markets, LegStep(i, m)
      PROVE  UNCHANGED <<storeVars, audit, historyVars>> /\ UNCHANGED job
    BY <1>1 DEF LegStep, BeforeRead, Retry, PutAnswered, AfterRead, LegFails
<1>2. ASSUME NEW i \in Ids, NEW m \in Markets, RecheckReads(i, m)
      PROVE  /\ UNCHANGED <<storeVars, audit, historyVars>>
             /\ \A j \in Ids : job'[j].stage = job[j].stage
    <2>1. job[i] \in Job
        BY DEF TypeOK
    <2>2. [job[i] EXCEPT !.fresh[m] = market[m]].stage = job[i].stage
        BY <2>1 DEF Job
    <2>3. QED BY <1>2, <2>2 DEF RecheckReads, TypeOK
<1>3. ASSUME Meet(market') PROVE \A j \in Ids : job'[j].stage = job[j].stage
    <2> SUFFICES ASSUME NEW j \in Ids PROVE job'[j].stage = job[j].stage
        OBVIOUS
    <2>1. job[j] \in Job
        BY DEF TypeOK
    <2>2. [job[j] EXCEPT !.agreed = @ \union Agreeing(j, market')].stage = job[j].stage
        BY <2>1 DEF Job
    <2>3. QED BY <1>3, <2>2 DEF Meet
<1>4. CASE Remote
    BY <1>3, <1>4 DEF Remote, RemoteApplies, RemoteRefuses, SellerEdits
<1>5. CASE Tick \/ UNCHANGED vars
    BY <1>5 DEF Tick, vars
<1>6. QED BY <1>1, <1>2, <1>4, <1>5 DEF Aside

\* A restart ends what was under way.
LEMMA RestartEnds ==
    ASSUME TypeOK, StoreIsOpen, Restart, NEW j \in Ids
    PROVE  /\ job[j].stage \in {"none", "preview"} => job'[j].stage = "none"
           /\ job[j].stage = "open" => job'[j].stage = IF j \in file' THEN "open" ELSE "gone"
           /\ job[j].stage \in {"recheck", "writing", "recording", "gone"} => job'[j].stage = "gone"
           /\ job[j].stage = "done" => job'[j].stage = "done"
           /\ job[j].stage # "preview" => approval'[j] = approval[j]
<1>1. job[j] \in Job
    BY DEF TypeOK
<1>2. approval'[j] = IF job[j].stage = "preview" THEN NoApproval ELSE approval[j]
    BY DEF Restart
<1>3. job'[j] = CASE job[j].stage = "preview" -> Stage("none")
                  [] job[j].stage \in {"recheck", "writing", "recording"} -> Stage("gone")
                  [] job[j].stage = "open" /\ j \notin file' -> Stage("gone")
                  [] OTHER -> job[j]
    BY DEF Restart
<1>4. CASE job[j].stage = "preview"
    BY <1>2, <1>3, <1>4 DEF Stage
<1>5. CASE job[j].stage = "open"
    BY <1>2, <1>3, <1>5 DEF Stage
<1>6. CASE job[j].stage \in {"none", "recheck", "writing", "recording", "gone", "done"}
    BY <1>2, <1>3, <1>6 DEF Stage
<1>7. QED BY <1>1, <1>4, <1>5, <1>6 DEF Job

LEMMA GrantRestart ==
    TypeOK /\ StoreIsOpen /\ KnownByStage /\ GrantedOnce /\ Restart
        => StoreIsOpen' /\ KnownByStage' /\ GrantedOnce'
<1> SUFFICES ASSUME TypeOK, StoreIsOpen, KnownByStage, GrantedOnce, Restart
             PROVE  StoreIsOpen' /\ KnownByStage' /\ GrantedOnce'
    OBVIOUS
<1>1. UNCHANGED <<started, uses, cancelled>>
    BY DEF Restart, historyVars
<1>2. StoreIsOpen'
    BY RestartEnds DEF StoreIsOpen, Restart, TypeOK
<1>3. KnownByStage'
    BY RestartEnds DEF KnownByStage, TypeOK, Job
<1>4. GrantedOnce'
    <2> SUFFICES ASSUME NEW j \in Ids
                 PROVE  /\ uses[j] <= 1
                        /\ uses[j] = 1 =>
                            /\ job'[j].stage \in {"recheck", "writing", "recording", "done", "gone"}
                            /\ started[j].by = approval'[j].by
                            /\ started[j].at <= approval'[j].expires
                            /\ j \notin cancelled
                        /\ job'[j].stage \in {"recheck", "writing", "recording", "done"} => uses[j] = 1
                        /\ j \in cancelled => job'[j].stage = "gone"
        BY <1>1 DEF GrantedOnce
    <2>1. job[j] \in Job
        BY DEF TypeOK
    <2>2. QED BY <2>1, RestartEnds DEF GrantedOnce, Job
<1>5. QED BY <1>2, <1>3, <1>4

LEMMA GrantStep == IInv /\ [Next]_vars => StoreIsOpen' /\ KnownByStage' /\ GrantedOnce'
<1> DEFINE Goal == StoreIsOpen' /\ KnownByStage' /\ GrantedOnce'
<1> SUFFICES ASSUME IInv, [Next]_vars PROVE Goal
    OBVIOUS
<1>0. TypeOK /\ StoreIsOpen /\ KnownByStage /\ GrantedOnce
    BY DEF IInv
<1> USE ApprovalAssumption DEF StoreIsOpen, KnownByStage, GrantedOnce, storeVars, historyVars, GoTo
<1>1. ASSUME NEW i \in Ids, NEW a \in Actors, NEW v \in Values, Preview(i, a, v) PROVE Goal
    <2>1. approval'[i] \in PendingApproval
        BY <1>0, <1>1 DEF Preview, TypeOK, NoApproval, PendingApproval, NothingRead, Reading
    <2>2. QED BY <1>0, <1>1, <2>1 DEF Preview, TypeOK, Stage
<1>2. ASSUME NEW i \in Ids, NEW a \in Actors, Click(i, a) PROVE Goal
    <2>1. CASE Approve(i, a)
        <3>1. started'[i].by = approval[i].by /\ started'[i].at <= approval[i].expires
            <4>1. approval[i] \in PendingApproval
                BY <1>0, <2>1 DEF Approve, Granted
            <4>2. approval[i].by = a /\ ~(approval[i].expires < now)
                BY <2>1 DEF Approve, Granted, Expired
            <4>3. approval[i].expires \in Nat /\ now \in Nat
                BY <1>0, <4>1 DEF TypeOK, PendingApproval
            <4>4. QED BY <1>0, <2>1, <4>2, <4>3 DEF Approve, TypeOK
        <3>2. job'[i].stage \in {"recheck", "writing"} /\ \A j \in Ids \ {i} : job'[j] = job[j]
            BY <1>0, <2>1 DEF Approve, TypeOK, Stage
        <3>3. job[i].stage = "open" /\ uses[i] = 0 /\ uses'[i] = 1 /\ i \notin cancelled
            <4>1. job[i].stage = "open"
                BY <1>0, <2>1 DEF Approve, Granted
            <4>2. uses[i] \in Nat /\ uses[i] <= 1 /\ uses[i] # 1 /\ i \notin cancelled
                BY <1>0, <4>1 DEF TypeOK
            <4>3. uses' = [uses EXCEPT ![i] = uses[i] + 1]
                BY <2>1 DEF Approve
            <4>4. uses[i] = 0
                BY <4>2
            <4>5. uses'[i] = uses[i] + 1
                BY <1>0, <4>3 DEF TypeOK
            <4>6. QED BY <4>1, <4>2, <4>4, <4>5
        <3>4. \A j \in Ids \ {i} : uses'[j] = uses[j] /\ started'[j] = started[j]
            BY <1>0, <2>1 DEF Approve, TypeOK
        <3>5. StoreIsOpen'
            BY <1>0, <2>1, <3>2 DEF Approve, RemovePersistedFirst, TypeOK
        <3>6. KnownByStage'
            BY <1>0, <2>1, <3>2, <3>3 DEF Approve
        <3>7. GrantedOnce'
            BY <1>0, <2>1, <3>1, <3>2, <3>3, <3>4 DEF Approve
        <3>8. QED BY <3>5, <3>6, <3>7
    <2>2. CASE Cancel(i, a)
        BY <1>0, <2>2 DEF Cancel, Granted, RemovePersistedFirst, TypeOK, Stage
    <2>3. CASE Expire(i, a)
        BY <1>0, <2>3 DEF Expire, RemovePersistedFirst, TypeOK, Stage
    <2>4. CASE RemovalThrows(i, a)
        BY <1>0, <2>4, GrantRestart DEF RemovalThrows, vars
    <2>5. QED BY <1>2, <2>1, <2>2, <2>3, <2>4 DEF Click
<1>3. ASSUME NEW i \in Ids, PreviewFails(i) \/ Create(i) \/ \E m \in Markets : PreviewReads(i, m)
      PROVE  Goal
    <2>1. approval[i] \in PendingApproval /\ job[i].stage = "preview"
        BY <1>0, <1>3 DEF PreviewFails, Create, PreviewReads
    <2>2. ASSUME NEW m \in Markets, PreviewReads(i, m) PROVE Goal
        <3>1. market[m] \in Values
            BY <1>0 DEF TypeOK
        <3>2. [approval[i] EXCEPT !.seen[m] = market[m]] \in PendingApproval
            BY <2>1, <3>1 DEF PendingApproval, Reading
        <3>3. approval' = [approval EXCEPT ![i] = [approval[i] EXCEPT !.seen[m] = market[m]]]
            BY <1>0, <2>2 DEF PreviewReads, TypeOK
        <3>4. QED BY <1>0, <2>1, <2>2, <3>2, <3>3 DEF PreviewReads, TypeOK
    <2>3. CASE Create(i)
        <3>1. now + Ttl \in Nat
            BY <1>0 DEF TypeOK
        <3>2. [approval[i] EXCEPT !.expires = now + Ttl] \in PendingApproval
            BY <2>1, <3>1 DEF PendingApproval
        <3>3. approval' = [approval EXCEPT ![i] = [approval[i] EXCEPT !.expires = now + Ttl]]
            BY <1>0, <2>3 DEF Create, TypeOK
        <3>4. QED BY <1>0, <2>1, <2>3, <3>2, <3>3 DEF Create, TypeOK, Stage
    <2>4. CASE PreviewFails(i)
        BY <1>0, <2>1, <2>4 DEF PreviewFails, TypeOK, Stage
    <2>5. QED BY <1>3, <2>2, <2>3, <2>4
<1>4. ASSUME NEW i \in Ids, Rechecked(i) \/ Executed(i) \/ Record(i) PROVE Goal
    <2>1. job[i].stage \in {"recheck", "writing", "recording"}
        BY <1>4 DEF Rechecked, Executed, Record
    <2>2. job'[i].stage \in {"writing", "recording", "done"} /\ \A j \in Ids \ {i} : job'[j] = job[j]
        <3>1. job[i] \in Job BY <1>0 DEF TypeOK
        <3>2. CASE Rechecked(i)
            BY <1>0, <3>1, <3>2 DEF Rechecked, TypeOK, Stage, Job
        <3>3. CASE Executed(i) \/ Record(i)
            BY <1>0, <3>3 DEF Executed, Record, TypeOK, Stage
        <3>4. QED BY <1>4, <3>2, <3>3
    <2>3. UNCHANGED <<pending, file, approval, started, uses, cancelled>>
        BY <1>4 DEF Rechecked, Executed, Record
    <2>4. QED BY <1>0, <2>1, <2>2, <2>3 DEF TypeOK
<1>5. ASSUME NEW i \in Ids, RecheckThrows(i) \/ RecordThrows(i) PROVE Goal
    <2>1. CASE Restart
        BY <1>0, <2>1, GrantRestart
    <2>2. CASE RecordThrows(i) /\ ~OnTelegram(i)
        <3>1. job[i].stage = "recording" /\ job'[i].stage = "gone"
              /\ \A j \in Ids \ {i} : job'[j] = job[j]
            BY <1>0, <2>2 DEF RecordThrows, TypeOK, Stage
        <3>2. UNCHANGED <<pending, file, approval, started, uses, cancelled>>
            BY <2>2 DEF RecordThrows
        <3>3. QED BY <1>0, <3>1, <3>2 DEF TypeOK
    <2>3. QED BY <1>5, <2>1, <2>2 DEF RecheckThrows, RecordThrows
<1>6. CASE Aside
    BY <1>0, <1>6, AsideStands DEF TypeOK
<1>7. CASE Crash
    BY <1>0, <1>7, GrantRestart DEF Crash
<1>8. QED BY <1>1, <1>2, <1>3, <1>4, <1>5, <1>6, <1>7 DEF Next, JobStep, JobFails, Aside
LEMMA LegsRestart == TypeOK /\ StoreIsOpen /\ LegsInTheirJob /\ Restart => LegsInTheirJob'
<1> SUFFICES ASSUME TypeOK, StoreIsOpen, LegsInTheirJob, Restart, NEW j \in Ids, NEW n \in Markets
             PROVE  /\ leg'[j][n] \notin {"before", "putting", "after"}
                    /\ job'[j].stage # "recheck"
                    /\ uses[j] = 0 => sent[j][n] = 0
                    /\ UNCHANGED <<uses, sent>>
    BY DEF LegsInTheirJob
<1>1. job[j] \in Job
    BY DEF TypeOK
<1>2. job'[j].stage # "recheck"
    BY <1>1, RestartEnds DEF Job
<1>3. QED BY <1>2 DEF Restart, LegsInTheirJob, historyVars

LEMMA LegsStep == IInv /\ [Next]_vars => LegsInTheirJob'
<1> SUFFICES ASSUME IInv, [Next]_vars PROVE LegsInTheirJob'
    OBVIOUS
<1>0. TypeOK /\ StoreIsOpen /\ GrantedOnce /\ LegsInTheirJob
    BY DEF IInv
<1> USE DEF LegsInTheirJob, storeVars, remoteVars, historyVars, GoTo
<1>1. ASSUME NEW i \in Ids, NEW a \in Actors, NEW v \in Values, Preview(i, a, v)
      PROVE  LegsInTheirJob'
    BY <1>0, <1>1 DEF Preview, TypeOK, Stage
<1>2. ASSUME NEW i \in Ids, NEW a \in Actors, Click(i, a) PROVE LegsInTheirJob'
    <2>1. CASE Approve(i, a)
        <3>1. uses[i] = 0
            <4>1. job[i].stage = "open"
                BY <1>0, <2>1 DEF Approve, Granted, StoreIsOpen
            <4>2. uses[i] \in Nat /\ uses[i] <= 1 /\ uses[i] # 1
                BY <1>0, <4>1 DEF GrantedOnce, TypeOK
            <4>3. QED BY <4>2
        <3>2. job[i].stage = "open"
            BY <1>0, <2>1 DEF Approve, Granted, StoreIsOpen
        <3>3. sent' = sent /\ \A m \in Markets : sent[i][m] = 0
            BY <1>0, <2>1, <3>1 DEF Approve
        <3>4. /\ job'[i].stage = IF KindOf[a] = "web" THEN "writing" ELSE "recheck"
              /\ \A j \in Ids \ {i} : job'[j] = job[j] /\ uses'[j] = uses[j] /\ leg'[j] = leg[j]
              /\ leg'[i] = IF KindOf[a] = "web" THEN [m \in Markets |-> "before"] ELSE leg[i]
            BY <1>0, <2>1 DEF Approve, TypeOK, Stage, AllLegs
        <3>5. QED BY <1>0, <3>2, <3>3, <3>4
    <2>2. CASE Cancel(i, a)
        BY <1>0, <2>2 DEF Cancel, Granted, StoreIsOpen, TypeOK, Stage
    <2>3. CASE Expire(i, a)
        BY <1>0, <2>3 DEF Expire, StoreIsOpen, TypeOK, Stage
    <2>4. CASE RemovalThrows(i, a)
        BY <1>0, <2>4, LegsRestart DEF RemovalThrows, vars
    <2>5. QED BY <1>2, <2>1, <2>2, <2>3, <2>4 DEF Click
<1>3. ASSUME NEW i \in Ids, JobStep(i) PROVE LegsInTheirJob'
    <2>1. ASSUME NEW m \in Markets, PreviewReads(i, m) PROVE LegsInTheirJob'
        BY <1>0, <2>1 DEF PreviewReads
    <2>2. ASSUME NEW m \in Markets, RecheckReads(i, m) PROVE LegsInTheirJob'
        <3>1. \A j \in Ids : job'[j].stage = job[j].stage
            BY <1>0, <2>2, AsideStands DEF Aside
        <3>2. QED BY <1>0, <2>2, <3>1 DEF RecheckReads
    <2>3. CASE Create(i)
        BY <1>0, <2>3 DEF Create, TypeOK, Stage
    <2>4. CASE Rechecked(i)
        <3>1. job[i] \in Job /\ job[i].stage = "recheck"
            BY <1>0, <2>4 DEF Rechecked, TypeOK
        <3>2. uses[i] = 1 /\ \A m \in Markets : sent[i][m] = 0
            BY <1>0, <3>1 DEF GrantedOnce
        <3>3. \A j \in Ids \ {i} : job'[j] = job[j] /\ leg'[j] = leg[j]
            BY <1>0, <2>4 DEF Rechecked, TypeOK, AllLegs
        <3>4. CASE SameSnapshot(approval[i].seen, job[i].fresh)
            <4>1. job'[i].stage = "writing" /\ leg'[i] = [m \in Markets |-> "before"]
                BY <1>0, <2>4, <3>1, <3>4 DEF Rechecked, TypeOK, AllLegs, Job
            <4>2. QED BY <1>0, <2>4, <3>2, <3>3, <4>1 DEF Rechecked
        <3>5. CASE ~SameSnapshot(approval[i].seen, job[i].fresh)
            <4>1. job'[i].stage = "recording" /\ leg'[i] = [m \in Markets |-> "failed"]
                BY <1>0, <2>4, <3>5 DEF Rechecked, TypeOK, AllLegs, Stage
            <4>2. QED BY <1>0, <2>4, <3>2, <3>3, <4>1 DEF Rechecked
        <3>6. QED BY <3>4, <3>5
    <2>5. CASE Executed(i)
        <3>1. \A m \in Markets : leg[i][m] \in {"ok", "failed"}
            BY <2>5 DEF Executed, LegsSettled
        <3>2. QED BY <1>0, <2>5, <3>1 DEF Executed, TypeOK, Stage
    <2>6. CASE Record(i)
        BY <1>0, <2>6 DEF Record, TypeOK, Stage
    <2>7. QED BY <1>3, <2>1, <2>2, <2>3, <2>4, <2>5, <2>6 DEF JobStep
<1>4. ASSUME NEW i \in Ids, JobFails(i) PROVE LegsInTheirJob'
    <2>1. CASE PreviewFails(i)
        BY <1>0, <2>1 DEF PreviewFails, TypeOK, Stage
    <2>2. CASE Restart
        BY <1>0, <2>2, LegsRestart
    <2>3. CASE RecordThrows(i) /\ ~OnTelegram(i)
        <3>1. job[i].stage = "recording" /\ job'[i].stage = "gone"
              /\ \A j \in Ids \ {i} : job'[j] = job[j]
            BY <1>0, <2>3 DEF RecordThrows, TypeOK, Stage
        <3>2. UNCHANGED <<leg, sent, uses>>
            BY <2>3 DEF RecordThrows
        <3>3. QED BY <1>0, <3>1, <3>2
    <2>4. QED BY <1>4, <2>1, <2>2, <2>3 DEF JobFails, RecheckThrows, RecordThrows
<1>5. ASSUME NEW i \in Ids, NEW m \in Markets, LegStep(i, m) PROVE LegsInTheirJob'
    <2>1. leg[i][m] \in {"before", "putting", "after"} /\ job[i].stage = "writing" /\ uses[i] # 0
        BY <1>0, <1>5 DEF LegStep, BeforeRead, Retry, PutAnswered, AfterRead, LegFails, Unanswered,
                          Succeeded, GrantedOnce
    <2>2. UNCHANGED <<job, uses>>
        BY <1>5 DEF LegStep, BeforeRead, Retry, PutAnswered, AfterRead, LegFails
    <2>3. CASE BeforeRead(i, m)
        BY <1>0, <2>1, <2>2, <2>3 DEF BeforeRead, SendPut, TypeOK
    <2>4. CASE Retry(i, m)
        BY <1>0, <2>1, <2>2, <2>4 DEF Retry, Unanswered, SendPut, TypeOK
    <2>5. CASE PutAnswered(i, m) \/ AfterRead(i, m) \/ LegFails(i, m)
        <3>1. PICK s \in {"after", "ok", "failed"} : leg' = [leg EXCEPT ![i][m] = s]
            BY <2>5 DEF PutAnswered, AfterRead, LegFails
        <3>2. \A j \in Ids, n \in Markets :
                leg'[j][n] = IF j = i /\ n = m THEN s ELSE leg[j][n]
            <4>1. s \in LegStates
                BY DEF LegStates
            <4>2. QED BY <1>0, <3>1, <4>1, OneLegType
        <3>3. sent' = sent
            BY <2>5 DEF PutAnswered, AfterRead, LegFails
        <3>4. QED BY <1>0, <2>1, <2>2, <3>2, <3>3
    <2>6. QED BY <1>5, <2>3, <2>4, <2>5 DEF LegStep
<1>6. CASE Remote \/ Tick \/ UNCHANGED vars
    <2>1. \A j \in Ids : job'[j].stage = job[j].stage
        BY <1>0, <1>6, AsideStands DEF Aside
    <2>2. UNCHANGED <<leg, sent, uses>>
        BY <1>6 DEF Remote, RemoteApplies, RemoteRefuses, SellerEdits, Tick, vars
    <2>3. QED BY <1>0, <2>1, <2>2
<1>7. CASE Crash
    BY <1>0, <1>7, LegsRestart DEF Crash
<1>8. QED BY <1>1, <1>2, <1>3, <1>4, <1>5, <1>6, <1>7 DEF Next

\* What the marketplaces have carried out stays carried out.
LEMMA AppliedGrows ==
    ASSUME [Next]_vars
    PROVE  applied \subseteq applied'
BY DEF Next, Preview, Click, Approve, Cancel, Expire, RemovalThrows, JobStep, PreviewReads,
       RecheckReads, Create, Rechecked, Executed, Record, JobFails, PreviewFails, RecheckThrows,
       RecordThrows, LegStep, BeforeRead, Retry, PutAnswered, AfterRead, LegFails, Remote,
       RemoteApplies, RemoteRefuses, SellerEdits, Tick, Crash, Restart, vars, remoteVars

LEMMA AppliedStep == IInv /\ [Next]_vars => AnsweredIsApplied'
<1> SUFFICES ASSUME IInv, [Next]_vars PROVE AnsweredIsApplied'
    OBVIOUS
<1>0. TypeOK /\ AnsweredIsApplied /\ applied \subseteq applied'
    BY AppliedGrows DEF IInv
<1> SUFFICES ASSUME NEW j \in Ids, NEW n \in Markets,
                    leg'[j][n] \in {"after", "ok"} \/ audit'[j][n] = "ok"
             PROVE  \E p \in applied : p.id = j /\ p.market = n
    BY <1>0 DEF AnsweredIsApplied
<1>1. CASE leg[j][n] \in {"after", "ok"} \/ audit[j][n] = "ok"
    BY <1>0, <1>1 DEF AnsweredIsApplied
<1>2. CASE leg[j][n] \notin {"after", "ok"} /\ audit[j][n] # "ok"
    <2>1. ASSUME Restart PROVE FALSE
        BY <1>2, <2>1 DEF Restart
    <2>2. ASSUME NEW i \in Ids, Record(i) PROVE FALSE
        BY <1>0, <1>2, <2>2 DEF Record, TypeOK
    <2>3. ASSUME NEW i \in Ids, Rechecked(i) PROVE FALSE
        <3>1. audit' = audit /\ (AllLegs(i, "before") \/ AllLegs(i, "failed"))
            BY <2>3 DEF Rechecked
        <3>2. QED BY <1>0, <1>2, <3>1, AllLegsType DEF LegStates
    <2>4. ASSUME NEW i \in Ids, NEW a \in Actors, Approve(i, a) PROVE FALSE
        <3>1. audit' = audit /\ (AllLegs(i, "before") \/ UNCHANGED leg)
            BY <2>4 DEF Approve
        <3>2. QED BY <1>0, <1>2, <3>1, AllLegsType DEF LegStates
    <2>5. ASSUME NEW i \in Ids, NEW m \in Markets, BeforeRead(i, m) \/ LegFails(i, m) PROVE FALSE
        <3>1. /\ audit' = audit
              /\ leg' = [leg EXCEPT ![i][m] = "putting"] \/ leg' = [leg EXCEPT ![i][m] = "failed"]
            BY <2>5 DEF BeforeRead, LegFails
        <3>2. QED BY <1>0, <1>2, <3>1, OneLegType DEF LegStates
    <2>6. ASSUME NEW i \in Ids, NEW m \in Markets, AfterRead(i, m) PROVE FALSE
        BY <1>0, <1>2, <2>6 DEF AfterRead, TypeOK
    <2>7. ASSUME NEW i \in Ids, NEW m \in Markets, PutAnswered(i, m)
          PROVE  \E p \in applied : p.id = j /\ p.market = n
        <3>1. i = j /\ m = n
            BY <1>0, <1>2, <2>7 DEF PutAnswered, TypeOK
        <3>2. LastPut(i, m) \in applied /\ LastPut(i, m).id = i /\ LastPut(i, m).market = m
            BY <2>7 DEF PutAnswered, Succeeded, LastPut
        <3>3. QED BY <3>1, <3>2
    <2>8. CASE UNCHANGED <<leg, audit>>
        BY <1>2, <2>8
    <2>9. QED
        BY <2>1, <2>2, <2>3, <2>4, <2>5, <2>6, <2>7, <2>8
        DEF Next, Preview, Click, Cancel, Expire, RemovalThrows, JobStep, PreviewReads, RecheckReads,
            Create, Executed, JobFails, PreviewFails, RecheckThrows, RecordThrows, LegStep, Retry,
            Remote, RemoteApplies, RemoteRefuses, SellerEdits, Tick, Crash, vars
<1>3. QED BY <1>1, <1>2
LEMMA AuditStep == IInv /\ [Next]_vars => AuditedIsDone'
<1> SUFFICES ASSUME IInv, [Next]_vars, NEW j \in Ids, audit'[j] # NoAudit
             PROVE  job'[j].stage = "done"
    BY DEF AuditedIsDone
<1>0. TypeOK /\ StoreIsOpen /\ AuditedIsDone
    BY DEF IInv
<1> USE DEF GoTo
<1>1. ASSUME NEW i \in Ids, Record(i) PROVE job'[j].stage = "done"
    BY <1>0, <1>1 DEF Record, TypeOK, Stage, AuditedIsDone
<1>2. CASE \A i \in Ids : ~Record(i)
    <2>1. audit' = audit
        BY <1>2 DEF Next, Preview, Click, Approve, Cancel, Expire, RemovalThrows, JobStep,
            PreviewReads, RecheckReads, Create, Rechecked, Executed, JobFails, PreviewFails,
            RecheckThrows, RecordThrows, LegStep, BeforeRead, Retry, PutAnswered, AfterRead, LegFails,
            Remote, RemoteApplies, RemoteRefuses, SellerEdits, Tick, Crash, Restart, vars
    <2>2. job[j].stage = "done"
        BY <1>0, <2>1 DEF AuditedIsDone
    <2>3. CASE Restart
        BY <1>0, <2>2, <2>3, RestartEnds
    <2>4. CASE Aside
        BY <1>0, <2>2, <2>4, AsideStands
    <2>5. ASSUME NEW i \in Ids, job[i].stage # "done", \A k \in Ids \ {i} : job'[k] = job[k]
          PROVE  job'[j].stage = "done"
        BY <2>2, <2>5
    <2>6. ASSUME NEW i \in Ids, NEW a \in Actors, NEW v \in Values, Preview(i, a, v)
          PROVE  job'[j].stage = "done"
        BY <1>0, <2>5, <2>6 DEF Preview, TypeOK
    <2>7. ASSUME NEW i \in Ids, NEW a \in Actors, Approve(i, a) \/ Cancel(i, a) \/ Expire(i, a)
          PROVE  job'[j].stage = "done"
        <3>1. job[i].stage = "open"
            BY <1>0, <2>7 DEF Approve, Cancel, Expire, Granted, StoreIsOpen
        <3>2. QED BY <1>0, <2>5, <2>7, <3>1 DEF Approve, Cancel, Expire, TypeOK
    <2>8. ASSUME NEW i \in Ids, Create(i) \/ Rechecked(i) \/ Executed(i) \/ PreviewFails(i)
                                \/ (RecordThrows(i) /\ ~OnTelegram(i))
                                \/ \E m \in Markets : PreviewReads(i, m)
          PROVE  job'[j].stage = "done"
        <3>1. job[i].stage # "done"
            BY <2>8 DEF Create, Rechecked, Executed, PreviewFails, RecordThrows, PreviewReads
        <3>2. \A k \in Ids \ {i} : job'[k] = job[k]
            BY <1>0, <2>8 DEF Create, Rechecked, Executed, PreviewFails, RecordThrows, PreviewReads,
                              TypeOK
        <3>3. QED BY <2>5, <3>1, <3>2
    <2>9. QED
        BY <1>2, <2>3, <2>4, <2>6, <2>7, <2>8
        DEF Next, Click, RemovalThrows, JobStep, JobFails, RecheckThrows, RecordThrows, Aside, Crash
<1>3. QED BY <1>1, <1>2

\* A market that holds the previewed value when a recheck begins or reads is one that
\* has agreed, and stays so.
LEMMA AgreedStep == IInv /\ [Next]_vars => AgreedIsMet' /\ TelegramRevalidates'
<1> DEFINE Goal == AgreedIsMet' /\ TelegramRevalidates'
<1> SUFFICES ASSUME IInv, [Next]_vars PROVE Goal
    OBVIOUS
<1>0. TypeOK /\ StoreIsOpen /\ KnownByStage /\ AgreedIsMet /\ TelegramRevalidates
    BY DEF IInv
<1> USE DEF GoTo, storeVars, remoteVars, historyVars
\* Steps that neither begin a recheck or an execution nor change the markets.
<1>1. ASSUME market' = market,
             \A j \in Ids : job'[j].stage \in {"recheck", "writing"} =>
                job'[j] = job[j] /\ approval'[j] = approval[j]
      PROVE  Goal
    BY <1>0, <1>1 DEF AgreedIsMet, TelegramRevalidates
<1>2. CASE Restart
    <2>1. market' = market
        BY <1>2 DEF Restart
    <2>2. \A j \in Ids : job[j] \in Job
        BY <1>0 DEF TypeOK
    <2>3. \A j \in Ids : job'[j].stage \notin {"recheck", "writing"}
        BY <1>0, <1>2, <2>2, RestartEnds DEF Job
    <2>4. QED BY <1>1, <2>1, <2>3
<1>3. ASSUME NEW i \in Ids, NEW a \in Actors, NEW v \in Values, Preview(i, a, v) PROVE Goal
    BY <1>0, <1>1, <1>3 DEF Preview, TypeOK, Stage
<1>4. ASSUME NEW i \in Ids, NEW a \in Actors, Approve(i, a) PROVE Goal
    <2>1. /\ \A j \in Ids \ {i} : job'[j] = job[j]
          /\ job'[i].stage = IF KindOf[a] = "web" THEN "writing" ELSE "recheck"
          /\ job'[i].fresh = NothingRead
          /\ job'[i].agreed = Agreeing(i, market)
        BY <1>0, <1>4 DEF Approve, TypeOK, Stage
    <2>2. UNCHANGED <<approval, market>> /\ approval[i].by = a
        BY <1>4 DEF Approve, Granted
    <2>3. AgreedIsMet'
        BY <1>0, <2>1, <2>2 DEF AgreedIsMet, NothingRead, Agreeing
    <2>4. TelegramRevalidates'
        BY <1>0, <2>1, <2>2 DEF TelegramRevalidates
    <2>5. QED BY <2>3, <2>4
<1>5. ASSUME NEW i \in Ids, NEW a \in Actors, Cancel(i, a) \/ Expire(i, a) PROVE Goal
    BY <1>0, <1>1, <1>5 DEF Cancel, Expire, TypeOK, Stage
<1>6. ASSUME NEW i \in Ids, NEW m \in Markets, PreviewReads(i, m) PROVE Goal
    BY <1>0, <1>1, <1>6 DEF PreviewReads, TypeOK
<1>7. ASSUME NEW i \in Ids, NEW m \in Markets, RecheckReads(i, m) PROVE Goal
    <2>1. job[i] \in Job /\ job[i].stage = "recheck"
        BY <1>0, <1>7 DEF RecheckReads, TypeOK
    <2>2. /\ \A j \in Ids \ {i} : job'[j] = job[j]
          /\ job'[i] = [job[i] EXCEPT !.fresh[m] = market[m]]
        BY <1>0, <1>7 DEF RecheckReads, TypeOK
    <2>3. /\ job'[i].stage = "recheck" /\ job'[i].agreed = job[i].agreed
          /\ \A n \in Markets : job'[i].fresh[n] = IF n = m THEN market[m] ELSE job[i].fresh[n]
        BY <2>1, <2>2 DEF Job, Reading
    <2>4. UNCHANGED <<approval, market>>
        BY <1>7 DEF RecheckReads
    <2>5. ASSUME NEW j \in Ids, job'[j].stage = "recheck", NEW n \in Markets,
                 \/ market[n] = approval[j].seen[n]
                 \/ job'[j].fresh[n] # Unread /\ job'[j].fresh[n] = approval[j].seen[n]
          PROVE  n \in job'[j].agreed
        <3>1. CASE j = i
            BY <1>0, <2>1, <2>3, <2>5, <3>1 DEF AgreedIsMet
        <3>2. CASE j # i
            BY <1>0, <2>2, <2>5, <3>2 DEF AgreedIsMet
        <3>3. QED BY <3>1, <3>2
    <2>6. AgreedIsMet'
        BY <2>4, <2>5 DEF AgreedIsMet
    <2>7. TelegramRevalidates'
        BY <1>0, <2>2, <2>3, <2>4 DEF TelegramRevalidates
    <2>8. QED BY <2>6, <2>7
<1>8. ASSUME NEW i \in Ids, Create(i) PROVE Goal
    BY <1>0, <1>1, <1>8 DEF Create, TypeOK, Stage
<1>9. ASSUME NEW i \in Ids, Rechecked(i) PROVE Goal
    <2>1. job[i] \in Job /\ job[i].stage = "recheck"
        BY <1>0, <1>9 DEF Rechecked, TypeOK
    <2>2. UNCHANGED <<approval, market>> /\ \A j \in Ids \ {i} : job'[j] = job[j]
        BY <1>0, <1>9 DEF Rechecked, TypeOK
    <2>3. CASE SameSnapshot(approval[i].seen, job[i].fresh)
        <3>1. job'[i].stage = "writing" /\ job'[i].agreed = job[i].agreed
            BY <1>0, <1>9, <2>1, <2>3 DEF Rechecked, TypeOK, Job
        <3>2. \A m \in Markets : m \in job[i].agreed
            BY <1>0, <1>9, <2>1, <2>3 DEF Rechecked, AllRead, SameSnapshot, AgreedIsMet
        <3>3. job[i].agreed = Markets
            BY <2>1, <3>2 DEF Job
        <3>4. QED BY <1>0, <2>2, <3>1, <3>3 DEF AgreedIsMet, TelegramRevalidates
    <2>4. CASE ~SameSnapshot(approval[i].seen, job[i].fresh)
        <3>1. job'[i].stage = "recording"
            BY <1>0, <1>9, <2>4 DEF Rechecked, TypeOK, Stage
        <3>2. QED BY <1>0, <2>2, <3>1 DEF AgreedIsMet, TelegramRevalidates
    <2>5. QED BY <2>3, <2>4
<1>10. ASSUME NEW i \in Ids, Executed(i) \/ Record(i) \/ PreviewFails(i)
                             \/ (RecordThrows(i) /\ ~OnTelegram(i))
       PROVE  Goal
    <2>1. market' = market
        BY <1>10 DEF Executed, Record, PreviewFails, RecordThrows
    <2>2. /\ \A j \in Ids \ {i} : job'[j] = job[j] /\ approval'[j] = approval[j]
          /\ job'[i].stage \in {"recording", "done", "none", "gone"}
        BY <1>0, <1>10 DEF Executed, Record, PreviewFails, RecordThrows, TypeOK, Stage
    <2>3. QED BY <1>1, <2>1, <2>2
<1>11. ASSUME Meet(market'), UNCHANGED approval PROVE Goal
    <2>1. ASSUME NEW j \in Ids, job[j].stage = "recheck"
          PROVE  /\ job'[j].stage = "recheck" /\ job'[j].fresh = job[j].fresh
                 /\ job'[j].agreed = job[j].agreed \union Agreeing(j, market')
        <3>1. job[j] \in Job
            BY <1>0 DEF TypeOK
        <3>2. job'[j] = [job[j] EXCEPT !.agreed = @ \union Agreeing(j, market')]
            BY <1>11, <2>1 DEF Meet
        <3>3. QED BY <2>1, <3>1, <3>2 DEF Job
    <2>2. \A j \in Ids : job[j].stage # "recheck" => job'[j] = job[j]
        BY <1>11 DEF Meet
    <2>3. AgreedIsMet'
        BY <1>0, <1>11, <2>1, <2>2 DEF AgreedIsMet, Agreeing
    <2>4. TelegramRevalidates'
        BY <1>0, <1>11, <2>1, <2>2 DEF TelegramRevalidates
    <2>5. QED BY <2>3, <2>4
<1>12. CASE Remote
    BY <1>0, <1>1, <1>11, <1>12 DEF Remote, RemoteApplies, RemoteRefuses, SellerEdits
<1>13. CASE Tick \/ UNCHANGED vars \/ \E i \in Ids, m \in Markets : LegStep(i, m)
    BY <1>1, <1>13 DEF Tick, vars, LegStep, BeforeRead, Retry, PutAnswered, AfterRead, LegFails
<1>14. QED
    BY <1>0, <1>1, <1>2, <1>3, <1>4, <1>5, <1>6, <1>7, <1>8, <1>9, <1>10, <1>12, <1>13
    DEF Next, Click, RemovalThrows, JobStep, JobFails, RecheckThrows, RecordThrows, Crash, vars

THEOREM Inductive == Spec => []IInv
<1>1. IInv /\ [Next]_vars => IInv'
    BY TypeStep, GrantStep, LegsStep, AppliedStep, AuditStep, AgreedStep DEF IInv
<1>2. QED BY InitIInv, <1>1, PTL DEF Spec

-----------------------------------------------------------------------------
(***************************************************************************)
(* Theorems                                                                *)
(***************************************************************************)
\* Every variable keeps its type; no leg sends more PUTs than it has attempts.
THEOREM TypeCorrect == Spec => []TypeOK
<1>1. IInv => TypeOK
    BY DEF IInv
<1>2. QED BY <1>1, Inductive, PTL

\* Whatever was sent was approved, once, by its own actor and in time, was not
\* cancelled, and its approval is gone from memory and file.
THEOREM OnlyApprovedWrites == Spec => []WritesAreAuthorised
<1>1. IInv => WritesAreAuthorised
    <2> SUFFICES ASSUME IInv, NEW i \in Ids
                 PROVE  /\ uses[i] <= 1
                        /\ (\E m \in Markets : sent[i][m] > 0) =>
                            /\ started[i].by = approval[i].by
                            /\ started[i].at <= approval[i].expires
                            /\ i \notin cancelled \union pending \union file
        BY DEF WritesAreAuthorised
    <2>1. uses[i] \in Nat /\ uses[i] <= 1
        BY DEF IInv, TypeOK, GrantedOnce
    <2>2. ASSUME NEW m \in Markets, sent[i][m] > 0 PROVE uses[i] = 1
        BY <2>1, <2>2 DEF IInv, LegsInTheirJob
    <2>3. QED BY <2>1, <2>2 DEF IInv, GrantedOnce, StoreIsOpen
<1>2. QED BY <1>1, Inductive, PTL

\* The bot writes only where every market was met with its previewed value.
THEOREM BotRevalidates == Spec => []TelegramRevalidates
<1>1. IInv => TelegramRevalidates
    BY DEF IInv
<1>2. QED BY <1>1, Inductive, PTL

\* What is reported as ok was carried out.
THEOREM ReportedIsApplied == Spec => []OkMeansApplied
<1>1. IInv => OkMeansApplied
    BY DEF IInv, AnsweredIsApplied, OkMeansApplied
<1>2. QED BY <1>1, Inductive, PTL

\* An audit line is the end of its execution, and is never rewritten.
THEOREM AuditEnds == Spec => AuditIsFinal
<1> DEFINE Final == \A i \in Ids : audit[i] # NoAudit => audit'[i] = audit[i] /\ sent'[i] = sent[i]
<1>1. IInv /\ [Next]_vars => Final
    <2> SUFFICES ASSUME IInv, [Next]_vars, NEW j \in Ids, audit[j] # NoAudit
                 PROVE  audit'[j] = audit[j] /\ sent'[j] = sent[j]
        OBVIOUS
    <2>0. TypeOK /\ LegsInTheirJob /\ job[j].stage = "done"
        BY DEF IInv, AuditedIsDone
    <2>1. ASSUME NEW i \in Ids, Record(i) PROVE audit'[j] = audit[j] /\ sent'[j] = sent[j]
        BY <2>0, <2>1 DEF Record, TypeOK
    <2>2. ASSUME NEW i \in Ids, NEW m \in Markets, BeforeRead(i, m) \/ Retry(i, m)
          PROVE  audit'[j] = audit[j] /\ sent'[j] = sent[j]
        <3>1. i # j
            BY <2>0, <2>2 DEF BeforeRead, Retry, Unanswered, LegsInTheirJob
        <3>2. QED BY <2>0, <2>2, <3>1 DEF BeforeRead, Retry, SendPut, TypeOK
    <2>3. CASE UNCHANGED <<audit, sent>>
        BY <2>3
    <2>4. QED
        BY <2>1, <2>2, <2>3
        DEF Next, Preview, Click, Approve, Cancel, Expire, RemovalThrows, JobStep, PreviewReads,
            RecheckReads, Create, Rechecked, Executed, JobFails, PreviewFails, RecheckThrows,
            RecordThrows, LegStep, PutAnswered, AfterRead, LegFails, Remote, RemoteApplies,
            RemoteRefuses, SellerEdits, Tick, Crash, Restart, vars
<1>2. QED BY <1>1, Inductive, PTL DEF Spec, AuditIsFinal
=============================================================================
