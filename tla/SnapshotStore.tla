---------------------------- MODULE SnapshotStore ----------------------------
(***************************************************************************)
(* The persistence protocol that registrationLedger.ts,                    *)
(* orderSnapshotStore.ts, credentialStore.ts, marketLinkStore.ts and       *)
(* accountStore.ts share: a queue of mutations, a snapshot file replaced   *)
(* by rename, a backup of the previous snapshot, and a start that reads    *)
(* the snapshot, else the backup, else refuses.                            *)
(*                                                                         *)
(* A snapshot is the set of the mutations applied to it: enough to tell a  *)
(* lost, an invented or an undone mutation from a kept one.  rename is     *)
(* atomic, and what is renamed survives the process (a loss of power is    *)
(* not modelled).  Temporary files have names of their own and are not     *)
(* read, so that only the two rename steps of a write appear.              *)
(***************************************************************************)
EXTENDS Naturals, Sequences

CONSTANTS
    Ops,        \* mutations callers may ask for
    None,       \* no mutation
    Faults      \* TRUE: crashes, failing writes and damaged files

ASSUME SnapshotAssumption ==
    /\ None \notin Ops
    /\ Faults \in BOOLEAN

VARIABLES
    phase,      \* where the process is
    queue,      \* writeQueue, callers waiting; the head is being served
    memory,     \* this.rows, what every reader sees
    draft,      \* mutation.rows
    copy,       \* current, the text read for the backup
    primary,    \* the file
    backup,     \* the file with suffix .bak
    blocked,    \* reading the primary fails for a reason other than its content
    answered,   \* history: mutations reported as done
    last,       \* history: the content the store stands for
    past,       \* history: all contents it has stood for
    skipped,    \* history: the backup was not refreshed by the latest attempt
    deleted     \* history: a file was deleted from outside

processVars == <<phase, queue, memory, draft, copy>>
diskVars == <<primary, backup>>
historyVars == <<answered, last, past, skipped, deleted>>
vars == <<phase, queue, memory, draft, copy, primary, backup, blocked,
          answered, last, past, skipped, deleted>>

(***************************************************************************)
(* loading, recovering: load or create has not returned; down: it has      *)
(* thrown.  free: between mutations.  The others are the awaits of a       *)
(* mutation: reading the file for the backup, copying it there, writing    *)
(* the snapshot, and publishing, between the rename and the continuation.  *)
(***************************************************************************)
Writing == {"reading", "copying", "writing", "publishing"}
Serving == {"free"} \union Writing
Phase == {"loading", "recovering", "down"} \union Serving

Content == SUBSET Ops

\* Mutant: a row that is undefined, which JSON.stringify writes as null.
SnapshotWithNull(c) == [is |-> "whole", rows |-> c \union {None}]

\* A file that parses, one that does not, and ENOENT.
Snapshot(c) == [is |-> "whole", rows |-> c]
Broken == [is |-> "broken", rows |-> {}]
Missing == [is |-> "missing", rows |-> {}]
File == [is : {"whole"}, rows : Content] \union {Broken, Missing}
Whole(f) == f.is = "whole"

TypeOK ==
    /\ phase \in Phase
    /\ queue \in Seq(Ops)
    /\ memory \in Content
    /\ draft \in Content
    /\ copy \in Content
    /\ primary \in File
    /\ backup \in File
    /\ blocked \in BOOLEAN
    /\ answered \in Content
    /\ last \in Content
    /\ past \subseteq Content
    /\ skipped \in BOOLEAN
    /\ deleted \in BOOLEAN

\* The first start: no file exists.
Init ==
    /\ phase = "loading"
    /\ queue = <<>>
    /\ memory = {} /\ draft = {} /\ copy = {}
    /\ primary = Missing /\ backup = Missing
    /\ blocked = FALSE
    /\ answered = {}
    /\ last = {}
    /\ past = {{}}
    /\ skipped = FALSE /\ deleted = FALSE

-----------------------------------------------------------------------------
Readable == Whole(primary) /\ ~blocked

StandsFor(c) ==
    /\ last' = c
    /\ past' = past \union {c}

\* The operation of the head has settled and its locals are gone; the chain goes on
\* whatever the outcome.
Settled ==
    /\ queue' = Tail(queue)
    /\ phase' = "free"
    /\ draft' = {} /\ copy' = {}

(***************************************************************************)
(* Mutations                                                               *)
(***************************************************************************)
\* enqueueMutation.  A caller does not ask again before it has its answer.
Call(o) ==
    /\ phase \in Serving
    /\ \A i \in 1..Len(queue) : queue[i] # o
    /\ queue' = Append(queue, o)
    /\ UNCHANGED <<phase, memory, draft, copy, diskVars, blocked, historyVars>>

\* Mutant: mutates what the file holds.
DraftFromFile(o) == (IF Whole(primary) THEN primary.rows ELSE {}) \union {o}

\* mutate(this.rows), on the rows as they are when its turn comes.
Draft(o) == memory \union {o}

Turn ==
    /\ phase = "free" /\ queue # <<>>
    /\ Head(queue) \notin memory
    /\ draft' = Draft(Head(queue))
    /\ phase' = "reading"
    /\ UNCHANGED <<queue, memory, copy, diskVars, blocked, historyVars>>

\* persist === false: there is nothing to change.
NothingToDo ==
    /\ phase = "free" /\ queue # <<>>
    /\ Head(queue) \in memory
    /\ answered' = answered \union {Head(queue)}
    /\ Settled
    /\ UNCHANGED <<memory, diskVars, blocked, last, past, skipped, deleted>>

ReadCurrent ==
    /\ phase = "reading" /\ Readable
    /\ copy' = primary.rows
    /\ phase' = "copying"
    /\ UNCHANGED <<queue, memory, draft, diskVars, blocked, historyVars>>

\* Whatever fails here is caught: the backup stays as it was.
SkipBackup ==
    /\ \/ phase = "reading" /\ ~Readable
       \/ Faults /\ phase = "copying"
    /\ skipped' = TRUE
    /\ copy' = {}
    /\ phase' = "writing"
    /\ UNCHANGED <<queue, memory, draft, diskVars, blocked, answered, last, past, deleted>>

\* Mutant: the backup is made once.
RefreshOnce ==
    /\ phase = "copying"
    /\ backup' = (IF backup = Missing THEN Snapshot(copy) ELSE backup)
    /\ skipped' = FALSE
    /\ copy' = {}
    /\ phase' = "writing"
    /\ UNCHANGED <<queue, memory, draft, primary, blocked, answered, last, past, deleted>>

RefreshBackup ==
    /\ phase = "copying"
    /\ backup' = Snapshot(copy)
    /\ skipped' = FALSE
    /\ copy' = {}
    /\ phase' = "writing"
    /\ UNCHANGED <<queue, memory, draft, primary, blocked, answered, last, past, deleted>>

RenameSnapshot ==
    /\ phase = "writing"
    /\ primary' = Snapshot(draft)
    /\ phase' = "publishing"
    /\ UNCHANGED <<queue, memory, draft, copy, backup, blocked, historyVars>>

\* this.rows = mutation.rows, and the caller's promise resolves.
Publish ==
    /\ phase = "publishing"
    /\ memory' = draft
    /\ StandsFor(draft)
    /\ answered' = answered \union {Head(queue)}
    /\ Settled
    /\ UNCHANGED <<diskVars, blocked, skipped, deleted>>

\* mkdir, writeFile or rename fails: the caller's promise rejects.
WriteFails ==
    /\ Faults
    /\ phase \in {"reading", "writing"}
    /\ Settled
    /\ UNCHANGED <<memory, diskVars, blocked, historyVars>>

-----------------------------------------------------------------------------
(***************************************************************************)
(* Starting                                                                *)
(***************************************************************************)
LoadPrimary ==
    /\ phase = "loading" /\ Readable
    /\ memory' = primary.rows
    /\ StandsFor(primary.rows)
    /\ phase' = "free"
    /\ UNCHANGED <<queue, draft, copy, diskVars, blocked, answered, skipped, deleted>>

LoadBackup ==
    /\ phase = "loading" /\ ~Readable
    /\ Whole(backup)
    /\ memory' = backup.rows
    /\ phase' = "recovering"
    /\ UNCHANGED <<queue, draft, copy, diskVars, blocked, historyVars>>

\* The recovered rows are written back before anyone is served.
Recover ==
    /\ phase = "recovering"
    /\ primary' = Snapshot(memory)
    /\ StandsFor(memory)
    /\ phase' = "free"
    /\ UNCHANGED <<queue, memory, draft, copy, backup, blocked, answered, skipped, deleted>>

\* Mutant: files that do not parse count as absent.
NothingWrittenOrBroken == ~Whole(primary) /\ ~blocked /\ ~Whole(backup)

\* primaryCode and errorCode(backupError) are both ENOENT.
NothingWritten == primary = Missing /\ ~blocked /\ backup = Missing

StartEmpty ==
    /\ phase = "loading" /\ ~Readable /\ ~Whole(backup)
    /\ NothingWritten
    /\ memory' = {}
    /\ StandsFor({})
    /\ phase' = "free"
    /\ UNCHANGED <<queue, draft, copy, diskVars, blocked, answered, skipped, deleted>>

\* throw primaryError
Refuse ==
    /\ \/ phase = "loading" /\ ~Readable /\ ~Whole(backup) /\ ~NothingWritten
       \/ Faults /\ phase = "recovering"
    /\ phase' = "down"
    /\ memory' = {}
    /\ UNCHANGED <<queue, draft, copy, diskVars, blocked, historyVars>>

\* restart: unless-stopped
Restart ==
    /\ phase = "down"
    /\ phase' = "loading"
    /\ UNCHANGED <<queue, memory, draft, copy, diskVars, blocked, historyVars>>

-----------------------------------------------------------------------------
(***************************************************************************)
(* Faults                                                                  *)
(***************************************************************************)
\* Nothing but the files is left, and they decide what the store stands for.
Crash ==
    /\ Faults
    /\ phase \in Serving \union {"recovering"}
    /\ phase' = "loading"
    /\ queue' = <<>>
    /\ memory' = {} /\ draft' = {} /\ copy' = {}
    /\ IF Whole(primary) THEN StandsFor(primary.rows) ELSE UNCHANGED <<last, past>>
    /\ UNCHANGED <<diskVars, blocked, answered, skipped, deleted>>

\* Someone truncates or deletes a file.
Damage ==
    /\ Faults
    /\ \E f \in {Missing, Broken} :
        /\ \/ primary # Missing /\ primary' = f /\ UNCHANGED backup
           \/ backup # Missing /\ backup' = f /\ UNCHANGED primary
        /\ deleted' = (deleted \/ f = Missing)
    /\ UNCHANGED <<processVars, blocked, answered, last, past, skipped>>

\* EIO, EMFILE, EACCES: the file is whole and cannot be read, for a while.
ReadErrors ==
    /\ Faults
    /\ blocked' = ~blocked
    /\ UNCHANGED <<processVars, diskVars, historyVars>>

-----------------------------------------------------------------------------
Serve ==
    \/ Turn \/ NothingToDo \/ ReadCurrent \/ SkipBackup \/ RefreshBackup
    \/ RenameSnapshot \/ Publish \/ WriteFails
Start == LoadPrimary \/ LoadBackup \/ Recover \/ StartEmpty \/ Refuse \/ Restart
Disturb == Crash \/ Damage \/ ReadErrors

Next == (\E o \in Ops : Call(o)) \/ Serve \/ Start \/ Disturb

Spec == Init /\ [][Next]_vars

-----------------------------------------------------------------------------
(***************************************************************************)
(* Properties                                                              *)
(***************************************************************************)
\* The protocol implements a register whose value outlives the process.  The
\* medium has failed it when the snapshot cannot be read, and has done so for good
\* once a start has turned to the backup.
Register == INSTANCE DurableRegister WITH
    value <- last,
    open <- IF phase \in Writing THEN Head(queue) ELSE None,
    answered <- answered,
    past <- past,
    sound <- Readable /\ phase # "recovering"

\* What callers, crashes and restarts see is a durable register: a mutation is
\* there completely or not at all, an answered one is only lost by a start that
\* could not read the snapshot, and such a start finds a content of the past
\* (test/registrationLedgerRecovery.test.ts:26, "restores last-known-good").
Refines == Register!Spec

\* The backup is one mutation behind the snapshot at most, as long as refreshing
\* it has not failed (persistRows catches that failure and goes on).
LosesAtMostOne ==
    ~skipped /\ Whole(backup) => \A o, p \in last \ backup.rows : o = p

\* Once a mutation was answered, the store never serves an empty content unless
\* files were deleted: damaged files make it refuse to start
\* (test/registrationLedgerRecovery.test.ts:45, "fails closed").
NeverStartsEmpty ==
    phase \in Serving /\ answered # {} /\ ~deleted => memory # {}

=============================================================================
