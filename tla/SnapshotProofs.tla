--------------------------- MODULE SnapshotProofs ---------------------------
(***************************************************************************)
(* SnapshotStore implements DurableRegister, and its safety invariants,    *)
(* for any set of mutations and any number of crashes and damaged files.   *)
(***************************************************************************)
EXTENDS SnapshotStore, TLAPS

(***************************************************************************)
(* The inductive invariant                                                 *)
(***************************************************************************)
\* A mutation being written is the head of the queue on top of what readers see.
DraftIsNext ==
    phase \in Writing =>
        /\ queue # <<>>
        /\ Head(queue) \notin memory
        /\ draft = memory \union {Head(queue)}

\* Readers see what the store stands for, the copy for the backup is the same,
\* and a snapshot that parses is that too, until it is replaced.
FilesAgree ==
    /\ phase \in Serving => memory = last
    /\ phase = "copying" => copy = last
    /\ Whole(primary) => primary.rows = (IF phase = "publishing" THEN draft ELSE last)

\* Only contents the store has had are in reach of a start.
OnlyThePast ==
    /\ {} \in past
    /\ last \in past
    /\ Whole(backup) => backup.rows \in past
    /\ phase = "recovering" => memory \in past

\* How far the backup is behind at each point of a write and of a start.
BackupLag ==
    ~skipped /\ Whole(backup) =>
        /\ \A o, p \in last \ backup.rows : o = p
        /\ phase \in {"writing", "publishing"} => last \subseteq backup.rows
        /\ phase = "recovering" => memory \subseteq backup.rows

\* Snapshots and backups are written by mutations, so none of them is empty.
NoEmptyFile ==
    /\ Whole(primary) => primary.rows # {}
    /\ Whole(backup) => backup.rows # {}
    /\ phase = "copying" => copy # {}
    /\ phase = "recovering" => memory # {}

\* The first snapshot is there before the first answer, and stays.
SnapshotExists ==
    ~deleted =>
        /\ answered # {} => primary # Missing
        /\ phase \in Serving /\ memory # {} => primary # Missing
        /\ phase = "publishing" => primary # Missing

IInv ==
    /\ TypeOK
    /\ DraftIsNext
    /\ FilesAgree
    /\ OnlyThePast
    /\ BackupLag
    /\ NoEmptyFile
    /\ SnapshotExists
    /\ NeverStartsEmpty

-----------------------------------------------------------------------------
(***************************************************************************)
(* Lemmas                                                                  *)
(***************************************************************************)
\* A first start, without files, satisfies the invariant.
LEMMA InitIInv == Init => IInv
<1> SUFFICES ASSUME Init PROVE IInv
    OBVIOUS
<1>1. TypeOK
    <2>1. primary \in File /\ backup \in File
        <3>1. Missing \in File
            BY Zenon DEF File
        <3>2. QED BY <3>1 DEF Init
    <2>2. /\ memory \in Content /\ draft \in Content /\ copy \in Content
          /\ answered \in Content /\ last \in Content /\ past \subseteq Content
        <3>1. {} \in Content
            BY DEF Content
        <3>2. QED BY <3>1 DEF Init
    <2>3. phase \in Phase /\ blocked \in BOOLEAN /\ skipped \in BOOLEAN /\ deleted \in BOOLEAN
        BY DEF Init, Phase
    <2>4. queue \in Seq(Ops)
        <3>1. <<>> \in Seq(Ops)
            OBVIOUS
        <3>2. QED BY <3>1 DEF Init
    <2>5. QED
        BY <2>1, <2>2, <2>3, <2>4 DEF TypeOK
<1> USE DEF Init, Writing, Serving, Whole, Missing
<1>2. DraftIsNext /\ FilesAgree /\ OnlyThePast
    BY DEF DraftIsNext, FilesAgree, OnlyThePast
<1>3. BackupLag /\ NoEmptyFile /\ SnapshotExists /\ NeverStartsEmpty
    BY DEF BackupLag, NoEmptyFile, SnapshotExists, NeverStartsEmpty
<1>4. QED
    BY <1>1, <1>2, <1>3 DEF IInv

\* Steps keep types; a queue being served is not empty, so that it has a tail.
LEMMA TypeStep == TypeOK /\ DraftIsNext /\ [Next]_vars => TypeOK'
<1> SUFFICES ASSUME TypeOK, DraftIsNext, [Next]_vars PROVE TypeOK'
    OBVIOUS
<1> USE SnapshotAssumption DEF TypeOK, Phase, Serving, Writing, Content, File, Whole, Broken, Missing, Snapshot, Draft
<1>1. ASSUME NEW o \in Ops, Call(o) PROVE TypeOK'
    BY <1>1 DEF Call, processVars, diskVars, historyVars
<1>2. CASE Turn
    BY <1>2 DEF Turn, processVars, diskVars, historyVars, Settled, StandsFor, Readable
<1>3. CASE NothingToDo
    BY <1>3 DEF NothingToDo, processVars, diskVars, historyVars, Settled, StandsFor, Readable
<1>4. CASE ReadCurrent
    BY <1>4 DEF ReadCurrent, processVars, diskVars, historyVars, Settled, StandsFor, Readable
<1>5. CASE SkipBackup
    BY <1>5 DEF SkipBackup, processVars, diskVars, historyVars, Settled, StandsFor, Readable
<1>6. CASE RefreshBackup
    BY <1>6 DEF RefreshBackup, processVars, diskVars, historyVars, Settled, StandsFor, Readable
<1>7. CASE RenameSnapshot
    BY <1>7 DEF RenameSnapshot, processVars, diskVars, historyVars, Settled, StandsFor, Readable
<1>8. CASE Publish
    BY <1>8 DEF Publish, DraftIsNext, processVars, diskVars, historyVars, Settled, StandsFor, Readable
<1>9. CASE WriteFails
    BY <1>9 DEF WriteFails, DraftIsNext, processVars, diskVars, historyVars, Settled, StandsFor, Readable
<1>10. CASE LoadPrimary
    BY <1>10 DEF LoadPrimary, processVars, diskVars, historyVars, Settled, StandsFor, Readable
<1>11. CASE LoadBackup
    BY <1>11 DEF LoadBackup, processVars, diskVars, historyVars, Settled, StandsFor, Readable
<1>12. CASE Recover
    BY <1>12 DEF Recover, processVars, diskVars, historyVars, Settled, StandsFor, Readable
<1>13. CASE StartEmpty
    BY <1>13 DEF StartEmpty, processVars, diskVars, historyVars, Settled, StandsFor, Readable
<1>14. CASE Refuse
    BY <1>14 DEF Refuse, processVars, diskVars, historyVars, Settled, StandsFor, Readable
<1>15. CASE Restart
    BY <1>15 DEF Restart, processVars, diskVars, historyVars, Settled, StandsFor, Readable
<1>16. CASE Crash
    BY <1>16 DEF Crash, processVars, diskVars, historyVars, Settled, StandsFor, Readable
<1>17. CASE Damage
    BY <1>17 DEF Damage, processVars, diskVars, historyVars, Settled, StandsFor, Readable
<1>18. CASE ReadErrors
    BY <1>18 DEF ReadErrors, processVars, diskVars, historyVars, Settled, StandsFor, Readable
<1>19. CASE UNCHANGED vars
    BY <1>19 DEF vars
<1>20. QED
    BY <1>1, <1>2, <1>3, <1>4, <1>5, <1>6, <1>7, <1>8, <1>9, <1>10, <1>11, <1>12, <1>13, <1>14, <1>15, <1>16, <1>17, <1>18, <1>19 DEF Next, Serve, Start, Disturb

\* Calls append, so the head stays the mutation being written.
LEMMA DraftStep == TypeOK /\ DraftIsNext /\ [Next]_vars => DraftIsNext'
<1> SUFFICES ASSUME TypeOK, DraftIsNext, [Next]_vars PROVE DraftIsNext'
    OBVIOUS
<1> USE SnapshotAssumption DEF TypeOK, DraftIsNext, Serving, Writing, Draft
<1>1. ASSUME NEW o \in Ops, Call(o) PROVE DraftIsNext'
    BY <1>1 DEF Call, processVars, diskVars, historyVars
<1>2. CASE Turn
    BY <1>2 DEF Turn, processVars, diskVars, historyVars, Settled, StandsFor, Readable
<1>3. CASE NothingToDo
    BY <1>3 DEF NothingToDo, processVars, diskVars, historyVars, Settled, StandsFor, Readable
<1>4. CASE ReadCurrent
    BY <1>4 DEF ReadCurrent, processVars, diskVars, historyVars, Settled, StandsFor, Readable
<1>5. CASE SkipBackup
    BY <1>5 DEF SkipBackup, processVars, diskVars, historyVars, Settled, StandsFor, Readable
<1>6. CASE RefreshBackup
    BY <1>6 DEF RefreshBackup, processVars, diskVars, historyVars, Settled, StandsFor, Readable
<1>7. CASE RenameSnapshot
    BY <1>7 DEF RenameSnapshot, processVars, diskVars, historyVars, Settled, StandsFor, Readable
<1>8. CASE Publish
    BY <1>8 DEF Publish, processVars, diskVars, historyVars, Settled, StandsFor, Readable
<1>9. CASE WriteFails
    BY <1>9 DEF WriteFails, processVars, diskVars, historyVars, Settled, StandsFor, Readable
<1>10. CASE LoadPrimary
    BY <1>10 DEF LoadPrimary, processVars, diskVars, historyVars, Settled, StandsFor, Readable
<1>11. CASE LoadBackup
    BY <1>11 DEF LoadBackup, processVars, diskVars, historyVars, Settled, StandsFor, Readable
<1>12. CASE Recover
    BY <1>12 DEF Recover, processVars, diskVars, historyVars, Settled, StandsFor, Readable
<1>13. CASE StartEmpty
    BY <1>13 DEF StartEmpty, processVars, diskVars, historyVars, Settled, StandsFor, Readable
<1>14. CASE Refuse
    BY <1>14 DEF Refuse, processVars, diskVars, historyVars, Settled, StandsFor, Readable
<1>15. CASE Restart
    BY <1>15 DEF Restart, processVars, diskVars, historyVars, Settled, StandsFor, Readable
<1>16. CASE Crash
    BY <1>16 DEF Crash, processVars, diskVars, historyVars, Settled, StandsFor, Readable
<1>17. CASE Damage
    BY <1>17 DEF Damage, processVars, diskVars, historyVars, Settled, StandsFor, Readable
<1>18. CASE ReadErrors
    BY <1>18 DEF ReadErrors, processVars, diskVars, historyVars, Settled, StandsFor, Readable
<1>19. CASE UNCHANGED vars
    BY <1>19 DEF vars
<1>20. QED
    BY <1>1, <1>2, <1>3, <1>4, <1>5, <1>6, <1>7, <1>8, <1>9, <1>10, <1>11, <1>12, <1>13, <1>14, <1>15, <1>16, <1>17, <1>18, <1>19 DEF Next, Serve, Start, Disturb

\* Memory, snapshot and what the store stands for change together.
LEMMA FilesStep == TypeOK /\ FilesAgree /\ [Next]_vars => FilesAgree'
<1> SUFFICES ASSUME TypeOK, FilesAgree, [Next]_vars PROVE FilesAgree'
    OBVIOUS
<1> USE SnapshotAssumption DEF FilesAgree, Serving, Writing, Whole, Broken, Missing, Snapshot, Draft
<1>1. ASSUME NEW o \in Ops, Call(o) PROVE FilesAgree'
    BY <1>1 DEF Call, processVars, diskVars, historyVars
<1>2. CASE Turn
    BY <1>2 DEF Turn, processVars, diskVars, historyVars, Settled, StandsFor, Readable
<1>3. CASE NothingToDo
    BY <1>3 DEF NothingToDo, processVars, diskVars, historyVars, Settled, StandsFor, Readable
<1>4. CASE ReadCurrent
    BY <1>4 DEF ReadCurrent, processVars, diskVars, historyVars, Settled, StandsFor, Readable
<1>5. CASE SkipBackup
    BY <1>5 DEF SkipBackup, processVars, diskVars, historyVars, Settled, StandsFor, Readable
<1>6. CASE RefreshBackup
    BY <1>6 DEF RefreshBackup, processVars, diskVars, historyVars, Settled, StandsFor, Readable
<1>7. CASE RenameSnapshot
    BY <1>7 DEF RenameSnapshot, processVars, diskVars, historyVars, Settled, StandsFor, Readable
<1>8. CASE Publish
    BY <1>8 DEF Publish, processVars, diskVars, historyVars, Settled, StandsFor, Readable
<1>9. CASE WriteFails
    BY <1>9 DEF WriteFails, processVars, diskVars, historyVars, Settled, StandsFor, Readable
<1>10. CASE LoadPrimary
    BY <1>10 DEF LoadPrimary, processVars, diskVars, historyVars, Settled, StandsFor, Readable
<1>11. CASE LoadBackup
    BY <1>11 DEF LoadBackup, processVars, diskVars, historyVars, Settled, StandsFor, Readable
<1>12. CASE Recover
    BY <1>12 DEF Recover, processVars, diskVars, historyVars, Settled, StandsFor, Readable
<1>13. CASE StartEmpty
    BY <1>13 DEF StartEmpty, NothingWritten, processVars, diskVars, historyVars, Settled, StandsFor, Readable
<1>14. CASE Refuse
    BY <1>14 DEF Refuse, processVars, diskVars, historyVars, Settled, StandsFor, Readable
<1>15. CASE Restart
    BY <1>15 DEF Restart, processVars, diskVars, historyVars, Settled, StandsFor, Readable
<1>16. CASE Crash
    BY <1>16 DEF Crash, processVars, diskVars, historyVars, Settled, StandsFor, Readable
<1>17. CASE Damage
    BY <1>17 DEF Damage, processVars, diskVars, historyVars, Settled, StandsFor, Readable
<1>18. CASE ReadErrors
    BY <1>18 DEF ReadErrors, processVars, diskVars, historyVars, Settled, StandsFor, Readable
<1>19. CASE UNCHANGED vars
    BY <1>19 DEF vars
<1>20. QED
    BY <1>1, <1>2, <1>3, <1>4, <1>5, <1>6, <1>7, <1>8, <1>9, <1>10, <1>11, <1>12, <1>13, <1>14, <1>15, <1>16, <1>17, <1>18, <1>19 DEF Next, Serve, Start, Disturb

\* Starts read snapshots and backups only, and both hold earlier contents.
LEMMA PastStep == TypeOK /\ FilesAgree /\ OnlyThePast /\ [Next]_vars => OnlyThePast'
<1> SUFFICES ASSUME TypeOK, FilesAgree, OnlyThePast, [Next]_vars PROVE OnlyThePast'
    OBVIOUS
<1> USE SnapshotAssumption DEF FilesAgree, OnlyThePast, Serving, Writing, Whole, Broken, Missing, Snapshot
<1>1. ASSUME NEW o \in Ops, Call(o) PROVE OnlyThePast'
    BY <1>1 DEF Call, processVars, diskVars, historyVars
<1>2. CASE Turn
    BY <1>2 DEF Turn, processVars, diskVars, historyVars, Settled, StandsFor, Readable
<1>3. CASE NothingToDo
    BY <1>3 DEF NothingToDo, processVars, diskVars, historyVars, Settled, StandsFor, Readable
<1>4. CASE ReadCurrent
    BY <1>4 DEF ReadCurrent, processVars, diskVars, historyVars, Settled, StandsFor, Readable
<1>5. CASE SkipBackup
    BY <1>5 DEF SkipBackup, processVars, diskVars, historyVars, Settled, StandsFor, Readable
<1>6. CASE RefreshBackup
    BY <1>6 DEF RefreshBackup, processVars, diskVars, historyVars, Settled, StandsFor, Readable
<1>7. CASE RenameSnapshot
    BY <1>7 DEF RenameSnapshot, processVars, diskVars, historyVars, Settled, StandsFor, Readable
<1>8. CASE Publish
    BY <1>8 DEF Publish, processVars, diskVars, historyVars, Settled, StandsFor, Readable
<1>9. CASE WriteFails
    BY <1>9 DEF WriteFails, processVars, diskVars, historyVars, Settled, StandsFor, Readable
<1>10. CASE LoadPrimary
    BY <1>10 DEF LoadPrimary, processVars, diskVars, historyVars, Settled, StandsFor, Readable
<1>11. CASE LoadBackup
    BY <1>11 DEF LoadBackup, processVars, diskVars, historyVars, Settled, StandsFor, Readable
<1>12. CASE Recover
    BY <1>12 DEF Recover, processVars, diskVars, historyVars, Settled, StandsFor, Readable
<1>13. CASE StartEmpty
    BY <1>13 DEF StartEmpty, processVars, diskVars, historyVars, Settled, StandsFor, Readable
<1>14. CASE Refuse
    BY <1>14 DEF Refuse, processVars, diskVars, historyVars, Settled, StandsFor, Readable
<1>15. CASE Restart
    BY <1>15 DEF Restart, processVars, diskVars, historyVars, Settled, StandsFor, Readable
<1>16. CASE Crash
    BY <1>16 DEF Crash, processVars, diskVars, historyVars, Settled, StandsFor, Readable
<1>17. CASE Damage
    BY <1>17 DEF Damage, processVars, diskVars, historyVars, Settled, StandsFor, Readable
<1>18. CASE ReadErrors
    BY <1>18 DEF ReadErrors, processVars, diskVars, historyVars, Settled, StandsFor, Readable
<1>19. CASE UNCHANGED vars
    BY <1>19 DEF vars
<1>20. QED
    BY <1>1, <1>2, <1>3, <1>4, <1>5, <1>6, <1>7, <1>8, <1>9, <1>10, <1>11, <1>12, <1>13, <1>14, <1>15, <1>16, <1>17, <1>18, <1>19 DEF Next, Serve, Start, Disturb

\* A write refreshes the backup before it replaces the snapshot, or says it did not.
LEMMA LagStep == TypeOK /\ DraftIsNext /\ FilesAgree /\ BackupLag /\ [Next]_vars => BackupLag'
<1> SUFFICES ASSUME TypeOK, DraftIsNext, FilesAgree, BackupLag, [Next]_vars PROVE BackupLag'
    OBVIOUS
<1> USE SnapshotAssumption DEF DraftIsNext, FilesAgree, BackupLag, Serving, Writing, Whole, Broken, Missing, Snapshot
<1>1. ASSUME NEW o \in Ops, Call(o) PROVE BackupLag'
    BY <1>1 DEF Call, processVars, diskVars, historyVars
<1>2. CASE Turn
    BY <1>2 DEF Turn, processVars, diskVars, historyVars, Settled, StandsFor, Readable
<1>3. CASE NothingToDo
    BY <1>3 DEF NothingToDo, processVars, diskVars, historyVars, Settled, StandsFor, Readable
<1>4. CASE ReadCurrent
    BY <1>4 DEF ReadCurrent, processVars, diskVars, historyVars, Settled, StandsFor, Readable
<1>5. CASE SkipBackup
    BY <1>5 DEF SkipBackup, processVars, diskVars, historyVars, Settled, StandsFor, Readable
<1>6. CASE RefreshBackup
    BY <1>6 DEF RefreshBackup, processVars, diskVars, historyVars, Settled, StandsFor, Readable
<1>7. CASE RenameSnapshot
    BY <1>7 DEF RenameSnapshot, processVars, diskVars, historyVars, Settled, StandsFor, Readable
<1>8. CASE Publish
    BY <1>8 DEF Publish, processVars, diskVars, historyVars, Settled, StandsFor, Readable
<1>9. CASE WriteFails
    BY <1>9 DEF WriteFails, processVars, diskVars, historyVars, Settled, StandsFor, Readable
<1>10. CASE LoadPrimary
    BY <1>10 DEF LoadPrimary, processVars, diskVars, historyVars, Settled, StandsFor, Readable
<1>11. CASE LoadBackup
    BY <1>11 DEF LoadBackup, processVars, diskVars, historyVars, Settled, StandsFor, Readable
<1>12. CASE Recover
    BY <1>12 DEF Recover, processVars, diskVars, historyVars, Settled, StandsFor, Readable
<1>13. CASE StartEmpty
    BY <1>13 DEF StartEmpty, processVars, diskVars, historyVars, Settled, StandsFor, Readable
<1>14. CASE Refuse
    BY <1>14 DEF Refuse, processVars, diskVars, historyVars, Settled, StandsFor, Readable
<1>15. CASE Restart
    BY <1>15 DEF Restart, processVars, diskVars, historyVars, Settled, StandsFor, Readable
<1>16. CASE Crash
    BY <1>16 DEF Crash, processVars, diskVars, historyVars, Settled, StandsFor, Readable
<1>17. CASE Damage
    BY <1>17 DEF Damage, processVars, diskVars, historyVars, Settled, StandsFor, Readable
<1>18. CASE ReadErrors
    BY <1>18 DEF ReadErrors, processVars, diskVars, historyVars, Settled, StandsFor, Readable
<1>19. CASE UNCHANGED vars
    BY <1>19 DEF vars
<1>20. QED
    BY <1>1, <1>2, <1>3, <1>4, <1>5, <1>6, <1>7, <1>8, <1>9, <1>10, <1>11, <1>12, <1>13, <1>14, <1>15, <1>16, <1>17, <1>18, <1>19 DEF Next, Serve, Start, Disturb

\* Every snapshot contains the mutation that wrote it.
LEMMA EmptyStep == TypeOK /\ DraftIsNext /\ FilesAgree /\ NoEmptyFile /\ [Next]_vars => NoEmptyFile'
<1> SUFFICES ASSUME TypeOK, DraftIsNext, FilesAgree, NoEmptyFile, [Next]_vars PROVE NoEmptyFile'
    OBVIOUS
<1> USE SnapshotAssumption DEF DraftIsNext, FilesAgree, NoEmptyFile, Serving, Writing, Whole, Broken, Missing, Snapshot
<1>1. ASSUME NEW o \in Ops, Call(o) PROVE NoEmptyFile'
    BY <1>1 DEF Call, processVars, diskVars, historyVars
<1>2. CASE Turn
    BY <1>2 DEF Turn, processVars, diskVars, historyVars, Settled, StandsFor, Readable
<1>3. CASE NothingToDo
    BY <1>3 DEF NothingToDo, processVars, diskVars, historyVars, Settled, StandsFor, Readable
<1>4. CASE ReadCurrent
    BY <1>4 DEF ReadCurrent, processVars, diskVars, historyVars, Settled, StandsFor, Readable
<1>5. CASE SkipBackup
    BY <1>5 DEF SkipBackup, processVars, diskVars, historyVars, Settled, StandsFor, Readable
<1>6. CASE RefreshBackup
    BY <1>6 DEF RefreshBackup, processVars, diskVars, historyVars, Settled, StandsFor, Readable
<1>7. CASE RenameSnapshot
    BY <1>7 DEF RenameSnapshot, processVars, diskVars, historyVars, Settled, StandsFor, Readable
<1>8. CASE Publish
    BY <1>8 DEF Publish, processVars, diskVars, historyVars, Settled, StandsFor, Readable
<1>9. CASE WriteFails
    BY <1>9 DEF WriteFails, processVars, diskVars, historyVars, Settled, StandsFor, Readable
<1>10. CASE LoadPrimary
    BY <1>10 DEF LoadPrimary, processVars, diskVars, historyVars, Settled, StandsFor, Readable
<1>11. CASE LoadBackup
    BY <1>11 DEF LoadBackup, processVars, diskVars, historyVars, Settled, StandsFor, Readable
<1>12. CASE Recover
    BY <1>12 DEF Recover, processVars, diskVars, historyVars, Settled, StandsFor, Readable
<1>13. CASE StartEmpty
    BY <1>13 DEF StartEmpty, processVars, diskVars, historyVars, Settled, StandsFor, Readable
<1>14. CASE Refuse
    BY <1>14 DEF Refuse, processVars, diskVars, historyVars, Settled, StandsFor, Readable
<1>15. CASE Restart
    BY <1>15 DEF Restart, processVars, diskVars, historyVars, Settled, StandsFor, Readable
<1>16. CASE Crash
    BY <1>16 DEF Crash, processVars, diskVars, historyVars, Settled, StandsFor, Readable
<1>17. CASE Damage
    BY <1>17 DEF Damage, processVars, diskVars, historyVars, Settled, StandsFor, Readable
<1>18. CASE ReadErrors
    BY <1>18 DEF ReadErrors, processVars, diskVars, historyVars, Settled, StandsFor, Readable
<1>19. CASE UNCHANGED vars
    BY <1>19 DEF vars
<1>20. QED
    BY <1>1, <1>2, <1>3, <1>4, <1>5, <1>6, <1>7, <1>8, <1>9, <1>10, <1>11, <1>12, <1>13, <1>14, <1>15, <1>16, <1>17, <1>18, <1>19 DEF Next, Serve, Start, Disturb

\* Only a deletion removes a snapshot.
LEMMA ExistsStep == TypeOK /\ DraftIsNext /\ NoEmptyFile /\ SnapshotExists /\ [Next]_vars => SnapshotExists'
<1> SUFFICES ASSUME TypeOK, DraftIsNext, NoEmptyFile, SnapshotExists, [Next]_vars PROVE SnapshotExists'
    OBVIOUS
<1> USE SnapshotAssumption DEF DraftIsNext, NoEmptyFile, SnapshotExists, Serving, Writing, Whole, Broken, Missing, Snapshot
<1>1. ASSUME NEW o \in Ops, Call(o) PROVE SnapshotExists'
    BY <1>1 DEF Call, processVars, diskVars, historyVars
<1>2. CASE Turn
    BY <1>2 DEF Turn, processVars, diskVars, historyVars, Settled, StandsFor, Readable
<1>3. CASE NothingToDo
    BY <1>3 DEF NothingToDo, processVars, diskVars, historyVars, Settled, StandsFor, Readable
<1>4. CASE ReadCurrent
    BY <1>4 DEF ReadCurrent, processVars, diskVars, historyVars, Settled, StandsFor, Readable
<1>5. CASE SkipBackup
    BY <1>5 DEF SkipBackup, processVars, diskVars, historyVars, Settled, StandsFor, Readable
<1>6. CASE RefreshBackup
    BY <1>6 DEF RefreshBackup, processVars, diskVars, historyVars, Settled, StandsFor, Readable
<1>7. CASE RenameSnapshot
    BY <1>7 DEF RenameSnapshot, processVars, diskVars, historyVars, Settled, StandsFor, Readable
<1>8. CASE Publish
    BY <1>8 DEF Publish, processVars, diskVars, historyVars, Settled, StandsFor, Readable
<1>9. CASE WriteFails
    BY <1>9 DEF WriteFails, processVars, diskVars, historyVars, Settled, StandsFor, Readable
<1>10. CASE LoadPrimary
    BY <1>10 DEF LoadPrimary, processVars, diskVars, historyVars, Settled, StandsFor, Readable
<1>11. CASE LoadBackup
    BY <1>11 DEF LoadBackup, processVars, diskVars, historyVars, Settled, StandsFor, Readable
<1>12. CASE Recover
    BY <1>12 DEF Recover, processVars, diskVars, historyVars, Settled, StandsFor, Readable
<1>13. CASE StartEmpty
    BY <1>13 DEF StartEmpty, processVars, diskVars, historyVars, Settled, StandsFor, Readable
<1>14. CASE Refuse
    BY <1>14 DEF Refuse, processVars, diskVars, historyVars, Settled, StandsFor, Readable
<1>15. CASE Restart
    BY <1>15 DEF Restart, processVars, diskVars, historyVars, Settled, StandsFor, Readable
<1>16. CASE Crash
    BY <1>16 DEF Crash, processVars, diskVars, historyVars, Settled, StandsFor, Readable
<1>17. CASE Damage
    BY <1>17 DEF Damage, processVars, diskVars, historyVars, Settled, StandsFor, Readable
<1>18. CASE ReadErrors
    BY <1>18 DEF ReadErrors, processVars, diskVars, historyVars, Settled, StandsFor, Readable
<1>19. CASE UNCHANGED vars
    BY <1>19 DEF vars
<1>20. QED
    BY <1>1, <1>2, <1>3, <1>4, <1>5, <1>6, <1>7, <1>8, <1>9, <1>10, <1>11, <1>12, <1>13, <1>14, <1>15, <1>16, <1>17, <1>18, <1>19 DEF Next, Serve, Start, Disturb

\* A start that finds nothing has answered nothing.
LEMMA ServeStep == TypeOK /\ DraftIsNext /\ NoEmptyFile /\ SnapshotExists /\ NeverStartsEmpty /\ [Next]_vars => NeverStartsEmpty'
<1> SUFFICES ASSUME TypeOK, DraftIsNext, NoEmptyFile, SnapshotExists, NeverStartsEmpty, [Next]_vars PROVE NeverStartsEmpty'
    OBVIOUS
<1> USE SnapshotAssumption DEF TypeOK, DraftIsNext, NoEmptyFile, SnapshotExists, NeverStartsEmpty, NothingWritten, Serving, Writing, Whole, Missing
<1>1. ASSUME NEW o \in Ops, Call(o) PROVE NeverStartsEmpty'
    BY <1>1 DEF Call, processVars, diskVars, historyVars
<1>2. CASE Turn
    BY <1>2 DEF Turn, processVars, diskVars, historyVars, Settled, StandsFor, Readable
<1>3. CASE NothingToDo
    BY <1>3 DEF NothingToDo, processVars, diskVars, historyVars, Settled, StandsFor, Readable
<1>4. CASE ReadCurrent
    BY <1>4 DEF ReadCurrent, processVars, diskVars, historyVars, Settled, StandsFor, Readable
<1>5. CASE SkipBackup
    BY <1>5 DEF SkipBackup, processVars, diskVars, historyVars, Settled, StandsFor, Readable
<1>6. CASE RefreshBackup
    BY <1>6 DEF RefreshBackup, processVars, diskVars, historyVars, Settled, StandsFor, Readable
<1>7. CASE RenameSnapshot
    BY <1>7 DEF RenameSnapshot, processVars, diskVars, historyVars, Settled, StandsFor, Readable
<1>8. CASE Publish
    BY <1>8 DEF Publish, processVars, diskVars, historyVars, Settled, StandsFor, Readable
<1>9. CASE WriteFails
    BY <1>9 DEF WriteFails, processVars, diskVars, historyVars, Settled, StandsFor, Readable
<1>10. CASE LoadPrimary
    BY <1>10 DEF LoadPrimary, processVars, diskVars, historyVars, Settled, StandsFor, Readable
<1>11. CASE LoadBackup
    BY <1>11 DEF LoadBackup, processVars, diskVars, historyVars, Settled, StandsFor, Readable
<1>12. CASE Recover
    BY <1>12 DEF Recover, processVars, diskVars, historyVars, Settled, StandsFor, Readable
<1>13. CASE StartEmpty
    BY <1>13 DEF StartEmpty, processVars, diskVars, historyVars, Settled, StandsFor, Readable
<1>14. CASE Refuse
    BY <1>14 DEF Refuse, processVars, diskVars, historyVars, Settled, StandsFor, Readable
<1>15. CASE Restart
    BY <1>15 DEF Restart, processVars, diskVars, historyVars, Settled, StandsFor, Readable
<1>16. CASE Crash
    BY <1>16 DEF Crash, processVars, diskVars, historyVars, Settled, StandsFor, Readable
<1>17. CASE Damage
    BY <1>17 DEF Damage, processVars, diskVars, historyVars, Settled, StandsFor, Readable
<1>18. CASE ReadErrors
    BY <1>18 DEF ReadErrors, processVars, diskVars, historyVars, Settled, StandsFor, Readable
<1>19. CASE UNCHANGED vars
    BY <1>19 DEF vars
<1>20. QED
    BY <1>1, <1>2, <1>3, <1>4, <1>5, <1>6, <1>7, <1>8, <1>9, <1>10, <1>11, <1>12, <1>13, <1>14, <1>15, <1>16, <1>17, <1>18, <1>19 DEF Next, Serve, Start, Disturb

\* The conjuncts together are inductive.
LEMMA IInvStep == IInv /\ [Next]_vars => IInv'
    BY TypeStep, DraftStep, FilesStep, PastStep, LagStep, EmptyStep, ExistsStep, ServeStep DEF IInv

-----------------------------------------------------------------------------
(***************************************************************************)
(* The refinement                                                          *)
(***************************************************************************)
\* The register starts empty.
LEMMA InitRefines == Init => Register!Init
    BY DEF Init, Register!Init, Writing, Readable

\* What a step of the protocol is to the register.
LEMMA StepRefines == IInv /\ [Next]_vars => [Register!Next]_(Register!vars)
<1> SUFFICES ASSUME TypeOK, DraftIsNext, FilesAgree, OnlyThePast, [Next]_vars
             PROVE  Register!Next \/ UNCHANGED Register!vars
    BY DEF IInv
<1> USE SnapshotAssumption DEF Writing, Serving, processVars, diskVars, historyVars
<1> DEFINE sound == Readable /\ phase # "recovering"
           open == IF phase \in Writing THEN Head(queue) ELSE None
<1>a. sound \in BOOLEAN /\ sound' \in BOOLEAN
    BY DEF Readable, Whole
<1>b. queue # <<>> => Head(queue) \in Ops /\ Head(queue) # None
    BY DEF TypeOK
<1>m. ASSUME open' = open, UNCHANGED <<last, answered, past>> PROVE Register!Next
    BY <1>m, <1>a DEF Register!Next, Register!Medium
<1>1. ASSUME NEW o \in Ops, Call(o) PROVE Register!Next
    <2>1. open' = open /\ UNCHANGED <<last, answered, past>>
        BY <1>1 DEF Call, TypeOK, DraftIsNext
    <2>2. QED BY <2>1, <1>m
<1>2. CASE Turn
    <2>1. /\ Head(queue) \in Ops
          /\ Register!Begin(Head(queue))
        BY <1>2, <1>b DEF Turn, Register!Begin, FilesAgree, Readable, Whole
    <2>2. QED BY <2>1 DEF Register!Next
<1>3. CASE NothingToDo
    <2>1. /\ Head(queue) \in Ops
          /\ Register!Repeat(Head(queue))
        BY <1>3, <1>b DEF NothingToDo, Settled, Register!Repeat, FilesAgree, Readable, Whole
    <2>2. QED BY <2>1 DEF Register!Next
<1>4. CASE ReadCurrent \/ SkipBackup \/ RefreshBackup \/ RenameSnapshot
    <2>1. open' = open /\ UNCHANGED <<last, answered, past>>
        BY <1>4 DEF ReadCurrent, SkipBackup, RefreshBackup, RenameSnapshot
    <2>2. QED BY <2>1, <1>m
<1>5. CASE Publish
    <2>1. Register!Commit
        BY <1>5, <1>b DEF Publish, Settled, StandsFor, DraftIsNext, FilesAgree, Readable, Whole,
                          Register!Commit, Register!Takes
    <2>2. QED BY <2>1 DEF Register!Next
<1>6. CASE WriteFails
    <2>1. Register!Abort
        BY <1>6, <1>b DEF WriteFails, Settled, DraftIsNext, Readable, Whole, Register!Abort
    <2>2. QED BY <2>1 DEF Register!Next
<1>7. CASE LoadPrimary
    <2>1. open' = open /\ UNCHANGED <<last, answered, past>>
        BY <1>7 DEF LoadPrimary, StandsFor, FilesAgree, OnlyThePast, Readable
    <2>2. QED BY <2>1, <1>m
<1>8. CASE LoadBackup \/ Refuse \/ Restart
    <2>1. open' = open /\ UNCHANGED <<last, answered, past>>
        BY <1>8 DEF LoadBackup, Refuse, Restart
    <2>2. QED BY <2>1, <1>m
\* The start has given the snapshot up, or cannot read one.
<1>9. CASE Recover \/ StartEmpty
    <2>1. Register!FallBack
        BY <1>9, <1>a DEF Recover, StartEmpty, StandsFor, OnlyThePast, Register!FallBack
    <2>2. QED BY <2>1 DEF Register!Next
\* The mutation under way is in the file or is not.
<1>10. CASE Crash
    <2>1. CASE phase = "publishing" /\ Whole(primary)
        <3>1. Register!CommitSilently
            BY <1>10, <2>1, <1>b DEF Crash, StandsFor, DraftIsNext, FilesAgree, Readable,
                                     Whole, Register!CommitSilently, Register!Takes
        <3>2. QED BY <3>1 DEF Register!Next
    <2>2. CASE ~(phase = "publishing" /\ Whole(primary))
        <3>1. UNCHANGED <<last, answered, past>>
            BY <1>10, <2>2 DEF Crash, StandsFor, FilesAgree, OnlyThePast
        <3>2. CASE phase \in Writing
            <4>1. Register!Abort
                BY <1>10, <3>1, <3>2, <1>b DEF Crash, DraftIsNext, Readable, Whole, Register!Abort
            <4>2. QED BY <4>1 DEF Register!Next
        <3>3. CASE phase \notin Writing
            <4>1. open' = open
                BY <1>10, <3>3 DEF Crash
            <4>2. QED BY <3>1, <4>1, <1>m
        <3>4. QED BY <3>2, <3>3
    <2>3. QED BY <2>1, <2>2
<1>11. CASE Damage \/ ReadErrors
    <2>1. open' = open /\ UNCHANGED <<last, answered, past>>
        BY <1>11 DEF Damage, ReadErrors
    <2>2. QED BY <2>1, <1>m
<1>12. CASE UNCHANGED vars
    BY <1>12 DEF vars, Register!vars, Readable, Whole
<1>13. QED
    BY <1>1, <1>2, <1>3, <1>4, <1>5, <1>6, <1>7, <1>8, <1>9, <1>10, <1>11, <1>12
    DEF Next, Serve, Start, Disturb

-----------------------------------------------------------------------------
(***************************************************************************)
(* Theorems                                                                *)
(***************************************************************************)
\* The invariant the others follow from.
THEOREM Inductive == Spec => []IInv
<1>1. Init => IInv
    BY InitIInv
<1>2. IInv /\ [Next]_vars => IInv'
    BY IInvStep
<1>3. QED
    BY <1>1, <1>2, PTL DEF Spec

\* Every variable keeps its type.
THEOREM TypeCorrect == Spec => []TypeOK
<1>1. IInv => TypeOK
    BY DEF IInv
<1>2. QED
    BY <1>1, Inductive, PTL

\* The stores' files, queue, backup and start implement a durable register.
THEOREM Implements == Spec => Refines
<1>1. Init => Register!Init
    BY InitRefines
<1>2. IInv /\ [Next]_vars => [Register!Next]_(Register!vars)
    BY StepRefines
<1>3. QED
    BY <1>1, <1>2, Inductive, PTL DEF Spec, Refines, Register!Spec

\* A recovery from the backup loses one mutation at most, unless refreshing the
\* backup has failed.
THEOREM BackupIsRecent == Spec => []LosesAtMostOne
<1>1. IInv => LosesAtMostOne
    BY DEF IInv, BackupLag, LosesAtMostOne
<1>2. QED
    BY <1>1, Inductive, PTL

\* Damaged files never make a store that has answered start empty.
THEOREM FailsClosed == Spec => []NeverStartsEmpty
<1>1. IInv => NeverStartsEmpty
    BY DEF IInv
<1>2. QED
    BY <1>1, Inductive, PTL
=============================================================================
