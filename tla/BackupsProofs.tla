---------------------------- MODULE BackupsProofs ----------------------------
(***************************************************************************)
(* Theorems about the copies of the live data, for any number of           *)
(* documents, backups, crashes and damaged archives.                       *)
(*                                                                         *)
(* BInv is inductive.  It says who holds the lock, and so who is where;    *)
(* that every row held by anybody who may put it into the live database    *)
(* or an archive has its bytes and vectors, but for those half deleted;    *)
(* what each of the long operations has copied when it goes on; and that   *)
(* every document whose upload was answered is in what a cutover will put  *)
(* in place.                                                               *)
(***************************************************************************)
EXTENDS Backups, TLAPS

Stored == uploads \intersect chroma

(* The row of a deletion under way has lost its bytes and vectors.         *)
Removing == IF request.at = "delete" THEN {request.of} ELSE {}

(* The lock says who is at work; business writes stay out of a backup.     *)
LocksAgree ==
  /\ restore.at # "idle" <=> lock = "restore"
  /\ cutover.at \in {"locked", "migrated", "moved"} <=> lock = "cutover"
  /\ lock = "save" => saving \in Databases /\ saves \in 1 .. MaxSaves
  /\ lock = "api" => database # None
  /\ lock # "api" => request.at = "idle" /\ backup.at = "idle"
  /\ request.at # "idle" => request.of \in Documents /\ ~Exclusive

(* Rows that are, or may become, those of the live database or an archive. *)
RowsAreThere ==
  /\ database # None => database.rows \ (torn \union Removing) \subseteq Stored
  /\ request.at = "upload" => request.of \in Stored
  /\ lock = "save" => saving.rows \ torn \subseteq Stored
  /\ cutover.at \in {"migrated", "moved"} =>
       /\ cutover.candidate \in Databases
       /\ cutover.candidate.rows \ torn \subseteq Stored
  /\ cutover.at = "moved" =>
       /\ retained \in Databases
       /\ retained.rows \ torn \subseteq Stored

(* What an online backup has copied by each of its steps.                  *)
BackupAgrees ==
  LET copy == backup.copy
      found == copy.db.rows \ copy.torn
  IN /\ backup.at \notin {"idle", "finish"} => archive = None
     /\ backup.at \in {"collections", "files", "publish"} =>
          copy \in Copies /\ ~copy.db.draining
     /\ backup.at = "collections" => found \subseteq Stored
     /\ backup.at = "files" => found \subseteq uploads \intersect copy.chroma
     /\ backup.at = "publish" => Whole(copy)

(* What a restore has staged is the archive, which nothing replaces.       *)
RestoreAgrees ==
  /\ archive = None => target = None /\ restore.at = "idle"
  /\ restore.at \in {"import", "rename"} =>
       /\ restore.copy \in Restored
       /\ restore.copy.sound /\ restore.copy.copy = archive.copy
  /\ restore.at = "rename" => restore.copy.complete

(* A cutover under way has its proofs, and, once locked, the database they *)
(* are about.                                                              *)
CutoverAgrees ==
  /\ cutover.at # "idle" => \E a \in drills : a.copy.db = cutover.expected
  /\ cutover.at \in {"locked", "migrated"} =>
       /\ database # None
       /\ database = cutover.expected \/ "cutover overlapped" \in excused

(* What was answered is in the candidate too, and a database found after   *)
(* an interrupted cutover is one that no other cutover accepts.            *)
KeptAgrees ==
  LET overtaken == "upgrade overtaken" \in excused
      interrupted == "cutover interrupted" \in excused
  IN /\ NoWriteIsLost
     /\ upgrade # None => upgrade.to = Migrated(upgrade.from)
     /\ interrupted =>
          database = None \/ ~database.tables \/ database.revision = "head"
     /\ cutover.at \in {"migrated", "moved"} =>
          ~interrupted /\ (overtaken \/ kept \subseteq cutover.candidate.rows)
     /\ cutover.at = "moved" =>
          database = None \/ (overtaken /\ database.revision = "head")

BInv == /\ TypeOK /\ LocksAgree /\ RowsAreThere /\ BackupAgrees
        /\ RestoreAgrees /\ ArchivesAreWhole /\ CutoverAgrees /\ KeptAgrees
-----------------------------------------------------------------------------
(* The operators on a database.                                            *)
LEMMA EmptyIs == Empty \in Databases /\ Empty.rows = {} /\ ~Empty.tables
BY DEF Empty, Databases, Revisions

LEMMA MigratedIs ==
  ASSUME NEW db \in Databases
  PROVE  /\ Migrated(db) \in Databases
         /\ Migrated(db).rows = db.rows /\ Migrated(db).revision = "head"
BY DEF Migrated, Databases, Revisions

(* Two databases that agree field by field are the same.                   *)
LEMMA SameDatabase ==
  ASSUME NEW db \in Databases, NEW other \in Databases,
         db.revision = other.revision, db.tables = other.tables,
         db.rows = other.rows, db.draining = other.draining
  PROVE  db = other
BY DEF Databases

LEMMA ScrubbedIs ==
  ASSUME NEW db \in Databases
  PROVE  /\ Scrubbed(db) \in Databases
         /\ Scrubbed(db).rows = db.rows /\ ~Scrubbed(db).draining
         /\ ~db.draining => Scrubbed(db) = db
<1>1. /\ Scrubbed(db) \in Databases /\ Scrubbed(db).revision = db.revision
      /\ Scrubbed(db).tables = db.tables /\ Scrubbed(db).rows = db.rows
      /\ Scrubbed(db).draining = FALSE
  BY DEF Scrubbed, Databases
<1>2. ~db.draining => db.draining = FALSE
  BY DEF Databases
<1> QED
  BY <1>1, <1>2, SameDatabase

LEMMA RowsAltered ==
  ASSUME NEW db \in Databases, NEW rows \in SUBSET Documents
  PROVE  LET altered == [db EXCEPT !.rows = rows]
         IN /\ altered \in Databases /\ altered.rows = rows
            /\ altered.tables = db.tables /\ altered.revision = db.revision
BY DEF Databases

LEMMA DrainingAltered ==
  ASSUME NEW db \in Databases, NEW draining \in BOOLEAN
  PROVE  LET altered == [db EXCEPT !.draining = draining]
         IN /\ altered \in Databases /\ altered.rows = db.rows
            /\ altered.tables = db.tables /\ altered.revision = db.revision
BY DEF Databases

(* None is no database, no archive and holds no lock.                      *)
LEMMA NoneIsNone ==
  /\ None \notin Databases /\ None \notin Archives /\ None \notin Holders
  /\ None \notin Documents
BY ConstantsAssumption
-----------------------------------------------------------------------------
(* The bounded counters, and the records of what is not under way.         *)
LEMMA Counted ==
  /\ 0 \in 0 .. MaxFaults /\ 0 \in 0 .. MaxSaves
  /\ TypeOK /\ Fault => faults' \in 0 .. MaxFaults
  /\ TypeOK /\ saves < MaxSaves /\ saves' = saves + 1 =>
       saves' \in 0 .. MaxSaves /\ saves' \in 1 .. MaxSaves
<1>1. MaxSaves \in Nat /\ MaxFaults \in Nat
  BY ConstantsAssumption
<1>2. TypeOK => faults \in 0 .. MaxFaults /\ saves \in 0 .. MaxSaves
  BY DEF TypeOK
<1> QED
  BY <1>1, <1>2 DEF Fault

LEMMA IdleTyped ==
  /\ Idle \in BackupStates /\ Idle \in RestoreStates
  /\ [at |-> "idle", of |-> None] \in Writes
  /\ [at |-> "idle", expected |-> None, candidate |-> None] \in CutoverStates
BY DEF Idle, BackupStates, RestoreStates, Writes, CutoverStates

LEMMA BInvInit == Init => BInv
<1> SUFFICES ASSUME Init PROVE BInv
  OBVIOUS
<1>1. database \in Databases /\ database.rows = {}
  BY DEF Init, Databases, Revisions
<1>2. TypeOK
  BY <1>1, IdleTyped, Counted DEF Init, TypeOK
<1>3. LocksAgree
  BY NoneIsNone DEF Init, LocksAgree, Idle, Holders
<1>4. RowsAreThere
  BY <1>1, NoneIsNone DEF Init, RowsAreThere, Holders, Removing
<1>5. BackupAgrees /\ RestoreAgrees /\ ArchivesAreWhole
  BY <1>2 DEF Init, BackupAgrees, RestoreAgrees, ArchivesAreWhole, Idle
<1>6. CutoverAgrees /\ KeptAgrees
  BY DEF Init, CutoverAgrees, KeptAgrees, NoWriteIsLost
<1> QED
  BY <1>1, <1>2, <1>3, <1>4, <1>5, <1>6 DEF BInv
-----------------------------------------------------------------------------
(* What a commit, and what the draining row, leave of the database.        *)
LEMMA Committed ==
  ASSUME TypeOK, LocksAgree, CommitRequest
  PROVE  LET after(s) == IF request.at = "upload" THEN s \union {request.of}
                                                  ELSE s \ {request.of}
         IN /\ database \in Databases /\ database' \in Databases
            /\ database'.rows = after(database.rows) /\ kept' = after(kept)
            /\ database'.tables = database.tables
            /\ database'.revision = database.revision
            /\ request.of \in Documents /\ kept' \subseteq Documents
<1> DEFINE after(s) == IF request.at = "upload" THEN s \union {request.of}
                                                ELSE s \ {request.of}
<1>1. database \in Databases /\ request.of \in Documents
  BY DEF CommitRequest, LocksAgree, TypeOK
<1>2. database.rows \in SUBSET Documents
  BY <1>1 DEF Databases
<1>3. after(database.rows) \in SUBSET Documents /\ after(kept) \in SUBSET Documents
  BY <1>1, <1>2 DEF TypeOK
<1>4. database' = [database EXCEPT !.rows = after(database.rows)] /\ kept' = after(kept)
  BY DEF CommitRequest
<1> QED
  BY <1>1, <1>3, <1>4, RowsAltered

LEMMA Drained ==
  ASSUME TypeOK, LocksAgree, SubmitBackup \/ EndBackup \/ RecoverBackup
  PROVE  /\ database \in Databases /\ database' \in Databases
         /\ database'.rows = database.rows /\ database'.tables = database.tables
         /\ database'.revision = database.revision
<1>1. database \in Databases
  BY DEF SubmitBackup, EndBackup, RecoverBackup, LocksAgree, TypeOK
<1>2. \/ database' = [database EXCEPT !.draining = TRUE]
      \/ database' = [database EXCEPT !.draining = FALSE]
  BY DEF SubmitBackup, EndBackup, RecoverBackup
<1> QED
  BY <1>1, <1>2, DrainingAltered
-----------------------------------------------------------------------------
(* The types.  What is under way gives the records their components.       *)
LEMMA TypedStep ==
  ASSUME BInv, [Next]_vars
  PROVE  TypeOK'
<1>0. TypeOK /\ LocksAgree /\ BackupAgrees /\ RestoreAgrees /\ RowsAreThere
      /\ CutoverAgrees
  BY DEF BInv
<1>1. ASSUME StartApi PROVE TypeOK'
  BY <1>0, <1>1, EmptyIs DEF TypeOK, StartApi, online, offline, rest, Holders
<1>2. ASSUME StartPrevious PROVE TypeOK'
  BY <1>0, <1>2 DEF TypeOK, StartPrevious, Acquire, stores, online, offline, rest,
                    Holders
<1>3. ASSUME StopApi PROVE TypeOK'
  <2>1. faults' \in 0 .. MaxFaults
    BY <1>0, <1>3, Counted DEF StopApi, TypeOK
  <2>2. torn' \subseteq Documents
    BY <1>0, <1>3 DEF StopApi, LocksAgree, TypeOK
  <2> QED
    BY <1>0, <1>3, <2>1, <2>2, IdleTyped DEF TypeOK, StopApi, Release, offline, rest
<1>4. ASSUME NEW d \in Documents, StartUpload(d) \/ StartDelete(d) PROVE TypeOK'
  <2>1. request' \in Writes
    BY <1>4 DEF StartUpload, StartDelete, Writes
  <2> QED
    BY <1>0, <1>4, <2>1 DEF TypeOK, StartUpload, StartDelete, online, offline, rest
<1>5. ASSUME CommitRequest PROVE TypeOK'
  BY <1>0, <1>5, Committed, IdleTyped DEF TypeOK, CommitRequest, online, offline, rest
<1>6. ASSUME SubmitBackup PROVE TypeOK'
  BY <1>0, <1>6, Drained DEF BackupStates, TypeOK, SubmitBackup, Idle, offline, rest
<1>7. ASSUME EnterExclusive PROVE TypeOK'
  BY <1>0, <1>7
     DEF BackupStates, TypeOK, EnterExclusive, BackupStep, stores, offline, rest
<1>8. ASSUME Snapshot PROVE TypeOK'
  <2>1. Scrubbed(database) \in Databases
    BY <1>0, <1>8, ScrubbedIs DEF TypeOK, Snapshot, BackupStep, LocksAgree
  <2>2. [db |-> Scrubbed(database), uploads |-> {}, chroma |-> {}, torn |-> torn]
          \in Copies
    BY <1>0, <2>1 DEF TypeOK, Copies
  <2> QED
    BY <1>0, <1>8, <2>2
       DEF BackupStates, TypeOK, Snapshot, BackupStep, stores, offline, rest
<1>9. ASSUME ExportCollections PROVE TypeOK'
  <2>1. [backup.copy EXCEPT !.chroma = chroma] \in Copies
    BY <1>0, <1>9 DEF ExportCollections, BackupStep, BackupAgrees, TypeOK, Copies
  <2> QED
    BY <1>0, <1>9, <2>1
       DEF BackupStates, TypeOK, ExportCollections, BackupStep, stores, offline, rest
<1>10. ASSUME AddFiles PROVE TypeOK'
  <2>1. [backup.copy EXCEPT !.uploads = uploads] \in Copies
    BY <1>0, <1>10 DEF AddFiles, BackupStep, BackupAgrees, TypeOK, Copies
  <2> QED
    BY <1>0, <1>10, <2>1
       DEF BackupStates, TypeOK, AddFiles, BackupStep, stores, offline, rest
<1>11. ASSUME Publish PROVE TypeOK'
  <2>1. archive' \in Archives
    BY <1>0, <1>11 DEF Publish, BackupStep, BackupAgrees, Archives
  <2> QED
    BY <1>0, <1>11, <2>1
       DEF BackupStates, TypeOK, Publish, BackupStep, stores, offline, rest
<1>12. ASSUME EndBackup \/ RecoverBackup PROVE TypeOK'
  <2>1. faults' \in 0 .. MaxFaults
    BY <1>0, <1>12, Counted DEF EndBackup, RecoverBackup, TypeOK
  <2> QED
    BY <1>0, <1>12, <2>1, Drained, IdleTyped DEF TypeOK, EndBackup, RecoverBackup,
                                                 online, offline, rest
<1>13. ASSUME StartRestore PROVE TypeOK'
  BY <1>0, <1>13
     DEF RestoreStates, TypeOK, StartRestore, Acquire, Holders, stores, offline, rest
<1>14. ASSUME Extract PROVE TypeOK'
  <2>1. archive \in Archives
    BY <1>0, <1>14 DEF Extract, RestoreAgrees, TypeOK
  <2>2. [copy |-> archive.copy, sound |-> archive.sound, complete |-> FALSE] \in Restored
    BY <2>1 DEF Archives, Restored
  <2> QED
    BY <1>0, <1>14, <2>2 DEF RestoreStates, TypeOK, Extract, stores, offline, rest
<1>15. ASSUME ImportCollections PROVE TypeOK'
  <2>1. restore.copy \in Restored
    BY <1>0, <1>15 DEF ImportCollections, RestoreAgrees
  <2>2. restore.copy.copy \in Copies /\ restore.copy.copy.db \in Databases
    BY <2>1 DEF Restored, Copies
  <2>3. [restore.copy EXCEPT !.copy.db = Scrubbed(@), !.complete = TRUE] \in Restored
    <3>1. Scrubbed(restore.copy.copy.db) \in Databases
      BY <2>2, ScrubbedIs
    <3>2. [restore.copy.copy EXCEPT !.db = Scrubbed(restore.copy.copy.db)] \in Copies
      BY <2>2, <3>1 DEF Copies
    <3> QED
      BY <2>1, <3>2 DEF Restored
  <2> QED
    BY <1>0, <1>15, <2>3
       DEF RestoreStates, TypeOK, ImportCollections, stores, offline, rest
<1>16. ASSUME RenameStaging PROVE TypeOK'
  BY <1>0, <1>16 DEF RestoreStates, TypeOK, RenameStaging, Release, Idle, RestoreAgrees, stores,
                     offline, rest
<1>17. ASSUME AbandonRestore PROVE TypeOK'
  <2>1. faults' \in 0 .. MaxFaults
    BY <1>0, <1>17, Counted DEF AbandonRestore, TypeOK
  <2> QED
    BY <1>0, <1>17, <2>1, IdleTyped DEF TypeOK, AbandonRestore, Release, stores,
                                        offline, rest
<1>18. ASSUME Damage PROVE TypeOK'
  <2>1. archive' \in Archives \union {None} /\ saved' \in Saved \union {None}
    BY <1>0, <1>18 DEF Damage, TypeOK, Archives, Saved
  <2>2. faults' \in 0 .. MaxFaults
    BY <1>0, <1>18, Counted DEF Damage
  <2> QED
    BY <1>0, <1>18, <2>1, <2>2 DEF TypeOK, Damage, stores, rest
<1>19. ASSUME StartSave PROVE TypeOK'
  <2>1. saves' \in 0 .. MaxSaves
    BY <1>0, <1>19, Counted DEF StartSave
  <2> QED
    BY <1>0, <1>19, <2>1 DEF TypeOK, StartSave, Acquire, Holders, stores, online
<1>20. ASSUME FinishSave PROVE TypeOK'
  <2>1. [db |-> saving, uploads |-> uploads, chroma |-> chroma, torn |-> torn] \in Copies
    BY <1>0, <1>20 DEF FinishSave, LocksAgree, TypeOK, Copies
  <2>2. saved' \in Saved
    BY <1>0, <1>20, <2>1 DEF FinishSave, LocksAgree, Saved
  <2> QED
    BY <1>0, <1>20, <2>2 DEF TypeOK, FinishSave, Release, stores, online, rest
<1>21. ASSUME AbandonSave PROVE TypeOK'
  <2>1. faults' \in 0 .. MaxFaults
    BY <1>0, <1>21, Counted DEF AbandonSave
  <2> QED
    BY <1>0, <1>21, <2>1 DEF TypeOK, AbandonSave, Release, stores, online, rest
<1>22. ASSUME Discard PROVE TypeOK'
  BY <1>0, <1>22 DEF TypeOK, Discard, stores, online, rest
<1>23. ASSUME StartDrill PROVE TypeOK'
  BY <1>0, <1>23 DEF TypeOK, StartDrill, Acquire, Holders, stores, online, offline, rest
<1>24. ASSUME EndDrill PROVE TypeOK'
  BY <1>0, <1>24 DEF TypeOK, EndDrill, Release, stores, online, rest
<1>25. ASSUME CheckProofs PROVE TypeOK'
  <2>1. saved.copy.db \in Databases
    BY <1>0, <1>25 DEF CheckProofs, TypeOK, Saved, Copies
  <2> QED
    BY <1>0, <1>25, <2>1 DEF CutoverStates, TypeOK, CheckProofs, stores, online, rest
<1>26. ASSUME LockCutover PROVE TypeOK'
  BY <1>0, <1>26
     DEF CutoverStates, TypeOK, LockCutover, Acquire, Holders, stores, online, rest
<1>27. ASSUME MigrateCopy PROVE TypeOK'
  <2>1. Migrated(database) \in Databases
    BY <1>0, <1>27, MigratedIs DEF MigrateCopy, CutoverAgrees, TypeOK
  <2> QED
    BY <1>0, <1>27, <2>1 DEF CutoverStates, TypeOK, MigrateCopy, stores, online, rest
<1>28. ASSUME MoveAway PROVE TypeOK'
  BY <1>0, <1>28 DEF CutoverStates, TypeOK, MoveAway, online, rest
<1>29. ASSUME MoveIn PROVE TypeOK'
  <2>1. faults' \in 0 .. MaxFaults
    BY <1>0, <1>29, Counted DEF MoveIn, TypeOK
  <2>2. cutover.candidate \in Databases \union {None}
    BY <1>0 DEF TypeOK, CutoverStates
  <2> QED
    BY <1>0, <1>29, <2>1, <2>2, IdleTyped DEF TypeOK, MoveIn, Release, online, rest
<1>30. ASSUME AbandonCutover PROVE TypeOK'
  <2>1. faults' \in 0 .. MaxFaults
    BY <1>0, <1>30, Counted DEF AbandonCutover, TypeOK
  <2> QED
    BY <1>0, <1>30, <2>1, IdleTyped DEF TypeOK, AbandonCutover, Release, stores, online
<1>31. ASSUME MigrateInPlace PROVE TypeOK'
  <2>1. database' \in Databases
    BY <1>0, <1>31, EmptyIs, MigratedIs DEF MigrateInPlace, TypeOK
  <2> QED
    BY <1>0, <1>31, <2>1 DEF TypeOK, MigrateInPlace, online, offline, rest
<1>32. ASSUME StartUpgrade PROVE TypeOK'
  <2>1. database \in Databases /\ Migrated(database) \in Databases
    BY <1>0, <1>32, MigratedIs DEF StartUpgrade, TypeOK
  <2>2. [from |-> database, to |-> Migrated(database)] \in Upgrades
    BY <2>1 DEF Upgrades
  <2> QED
    BY <1>0, <1>32, <2>1, <2>2 DEF TypeOK, StartUpgrade, Overlapped, online
<1>33. ASSUME ReplaceByUpgrade PROVE TypeOK'
  <2>1. upgrade.to \in Databases
    BY <1>0, <1>33 DEF ReplaceByUpgrade, TypeOK, Upgrades
  <2>2. torn' \subseteq Documents
    BY <1>0, <1>33, <2>1 DEF ReplaceByUpgrade, TypeOK, Databases
  <2> QED
    BY <1>0, <1>33, <2>1, <2>2 DEF TypeOK, ReplaceByUpgrade, Overlapped, online
<1>34. ASSUME AbandonUpgrade PROVE TypeOK'
  BY <1>0, <1>34 DEF TypeOK, AbandonUpgrade, stores, online, rest
<1>35. ASSUME UNCHANGED vars PROVE TypeOK'
  BY <1>0, <1>35 DEF TypeOK, vars
<1> QED
  BY <1>1, <1>2, <1>3, <1>4, <1>5, <1>6, <1>7, <1>8, <1>9, <1>10, <1>11, <1>12, <1>13,
     <1>14, <1>15, <1>16, <1>17, <1>18, <1>19, <1>20, <1>21, <1>22, <1>23, <1>24, <1>25,
     <1>26, <1>27, <1>28, <1>29, <1>30, <1>31, <1>32, <1>33, <1>34, <1>35 DEF Next
-----------------------------------------------------------------------------
(* The lock.                                                               *)
LEMMA LocksStep ==
  ASSUME BInv, [Next]_vars
  PROVE  LocksAgree'
<1>0. TypeOK /\ LocksAgree
  BY DEF BInv
<1> USE NoneIsNone DEF LocksAgree, Holders, Exclusive
<1>1. ASSUME StartApi PROVE LocksAgree'
  BY <1>0, <1>1 DEF StartApi, online, offline, rest
<1>2. ASSUME StartPrevious PROVE LocksAgree'
  BY <1>0, <1>2 DEF StartPrevious, Acquire, stores, online, offline, rest
<1>3. ASSUME StopApi PROVE LocksAgree'
  BY <1>0, <1>3 DEF StopApi, Release, Idle, offline, rest
<1>4. ASSUME NEW d \in Documents, StartUpload(d) \/ StartDelete(d) PROVE LocksAgree'
  BY <1>0, <1>4 DEF StartUpload, StartDelete, BusinessWrite, online, offline, rest
<1>5. ASSUME CommitRequest PROVE LocksAgree'
  BY <1>0, <1>5, Committed DEF CommitRequest, online, offline, rest
<1>6. ASSUME SubmitBackup PROVE LocksAgree'
  BY <1>0, <1>6, Drained DEF SubmitBackup, Idle, offline, rest
<1>7. ASSUME EnterExclusive \/ Snapshot \/ ExportCollections \/ AddFiles \/ Publish
      PROVE  LocksAgree'
  BY <1>0, <1>7 DEF EnterExclusive, Snapshot, ExportCollections, AddFiles, Publish,
                    BackupStep, stores, offline, rest
<1>8. ASSUME EndBackup \/ RecoverBackup PROVE LocksAgree'
  BY <1>0, <1>8, Drained DEF EndBackup, RecoverBackup, Idle, online, offline, rest
<1>9. ASSUME StartRestore \/ Extract \/ ImportCollections PROVE LocksAgree'
  BY <1>0, <1>9 DEF StartRestore, Acquire, Extract, ImportCollections, stores, offline,
                    rest
<1>10. ASSUME RenameStaging \/ AbandonRestore PROVE LocksAgree'
  BY <1>0, <1>10 DEF RenameStaging, AbandonRestore, Release, Idle, stores, offline, rest
<1>11. ASSUME Damage PROVE LocksAgree'
  BY <1>0, <1>11 DEF Damage, stores, rest
<1>12. ASSUME StartSave PROVE LocksAgree'
  <2>1. saving' \in Databases /\ saves' \in 1 .. MaxSaves
    BY <1>0, <1>12, Counted DEF StartSave, TypeOK
  <2> QED
    BY <1>0, <1>12, <2>1 DEF StartSave, Acquire, stores, online
<1>13. ASSUME FinishSave \/ AbandonSave PROVE LocksAgree'
  BY <1>0, <1>13 DEF FinishSave, AbandonSave, Release, stores, online, rest
<1>14. ASSUME Discard PROVE LocksAgree'
  BY <1>0, <1>14 DEF Discard, stores, online, rest
<1>15. ASSUME StartDrill \/ EndDrill PROVE LocksAgree'
  BY <1>0, <1>15 DEF StartDrill, EndDrill, Acquire, Release, stores, online, offline,
                     rest
<1>16. ASSUME CheckProofs PROVE LocksAgree'
  BY <1>0, <1>16 DEF CheckProofs, stores, online, rest
<1>17. ASSUME LockCutover \/ MigrateCopy PROVE LocksAgree'
  BY <1>0, <1>17 DEF LockCutover, MigrateCopy, Acquire, TypeOK, CutoverStates, stores,
                     online, rest
<1>18. ASSUME MoveAway \/ MoveIn PROVE LocksAgree'
  <2>1. CASE MoveAway
    BY <1>0, <2>1 DEF MoveAway, TypeOK, CutoverStates, online, rest
  <2>2. CASE MoveIn
    BY <1>0, <2>2 DEF MoveIn, Release, online, rest
  <2> QED
    BY <1>18, <2>1, <2>2
<1>19. ASSUME AbandonCutover PROVE LocksAgree'
  BY <1>0, <1>19 DEF AbandonCutover, Release, stores, online
<1>20. ASSUME MigrateInPlace PROVE LocksAgree'
  BY <1>0, <1>20 DEF MigrateInPlace, online, offline, rest
<1>21. ASSUME StartUpgrade PROVE LocksAgree'
  <2>1. database' # None
    BY <1>0, <1>21, MigratedIs DEF StartUpgrade, TypeOK
  <2> QED
    BY <1>0, <1>21, <2>1 DEF StartUpgrade, online
<1>22. ASSUME ReplaceByUpgrade PROVE LocksAgree'
  BY <1>0, <1>22 DEF ReplaceByUpgrade, online
<1>23. ASSUME AbandonUpgrade PROVE LocksAgree'
  BY <1>0, <1>23 DEF AbandonUpgrade, stores, online, rest
<1>24. ASSUME UNCHANGED vars PROVE LocksAgree'
  BY <1>0, <1>24 DEF vars
<1> QED
  BY <1>1, <1>2, <1>3, <1>4, <1>5, <1>6, <1>7, <1>8, <1>9, <1>10, <1>11, <1>12, <1>13,
     <1>14, <1>15, <1>16, <1>17, <1>18, <1>19, <1>20, <1>21, <1>22, <1>23, <1>24
     DEF Next
-----------------------------------------------------------------------------
(* The rows.                                                               *)
LEMMA RowsStep ==
  ASSUME BInv, [Next]_vars
  PROVE  RowsAreThere'
<1>0. TypeOK /\ LocksAgree /\ LocksAgree' /\ RowsAreThere
  BY LocksStep DEF BInv
<1> USE NoneIsNone DEF RowsAreThere, Stored, Removing, Holders
<1>1. ASSUME StartApi PROVE RowsAreThere'
  BY <1>0, <1>1, EmptyIs DEF StartApi, online, offline, rest
<1>2. ASSUME StartPrevious PROVE RowsAreThere'
  BY <1>0, <1>2 DEF StartPrevious, Acquire, stores, online, offline, rest
<1>3. ASSUME StopApi PROVE RowsAreThere'
  BY <1>0, <1>3 DEF StopApi, Release, offline, rest, LocksAgree
<1>4. ASSUME NEW d \in Documents, StartUpload(d) PROVE RowsAreThere'
  BY <1>0, <1>4 DEF StartUpload, BusinessWrite, online, offline, rest
<1>5. ASSUME NEW d \in Documents, StartDelete(d) PROVE RowsAreThere'
  BY <1>0, <1>5 DEF StartDelete, BusinessWrite, online, offline, rest, LocksAgree
<1>6. ASSUME CommitRequest PROVE RowsAreThere'
  <2>1. cutover.at \notin {"migrated", "moved"} /\ request.at \in {"upload", "delete"}
    BY <1>0, <1>6 DEF CommitRequest, LocksAgree, TypeOK, Writes
  <2>2. database # None
    BY <1>0, <1>6, Committed
  <2>3. database'.rows \ torn' \subseteq Stored
    BY <1>0, <1>6, <2>1, <2>2, Committed DEF CommitRequest
  <2> QED
    BY <1>0, <1>6, <2>1, <2>3 DEF CommitRequest, online, offline, rest
<1>7. ASSUME SubmitBackup \/ EndBackup \/ RecoverBackup PROVE RowsAreThere'
  BY <1>0, <1>7, Drained DEF SubmitBackup, EndBackup, RecoverBackup, online, offline,
                             rest
<1>8. ASSUME EnterExclusive \/ Snapshot \/ ExportCollections \/ AddFiles \/ Publish
      PROVE  RowsAreThere'
  BY <1>0, <1>8 DEF EnterExclusive, Snapshot, ExportCollections, AddFiles, Publish,
                    BackupStep, stores, offline, rest
<1>9. ASSUME \/ StartRestore \/ Extract \/ ImportCollections \/ RenameStaging
             \/ AbandonRestore \/ Damage
      PROVE  RowsAreThere'
  BY <1>0, <1>9 DEF StartRestore, Extract, ImportCollections, RenameStaging,
                    AbandonRestore, Damage, Acquire, Release, stores, offline, rest
<1>10. ASSUME StartSave PROVE RowsAreThere'
  BY <1>0, <1>10 DEF StartSave, Acquire, LocksAgree, stores, online
<1>11. ASSUME FinishSave \/ AbandonSave PROVE RowsAreThere'
  BY <1>0, <1>11 DEF FinishSave, AbandonSave, Release, stores, online, rest
<1>12. ASSUME Discard \/ StartDrill \/ EndDrill PROVE RowsAreThere'
  BY <1>0, <1>12 DEF Discard, StartDrill, EndDrill, Acquire, Release, stores, online,
                     offline, rest
<1>13. ASSUME CheckProofs \/ LockCutover PROVE RowsAreThere'
  <2>1. cutover'.at \in {"checked", "locked"}
    <3>1. CASE CheckProofs
      BY <3>1 DEF CheckProofs
    <3>2. CASE LockCutover
      BY <1>0, <3>2 DEF LockCutover, TypeOK, CutoverStates
    <3> QED
      BY <1>13, <3>1, <3>2
  <2> QED
    BY <1>0, <1>13, <2>1 DEF CheckProofs, LockCutover, Acquire, stores, online, rest
<1>14. ASSUME MigrateCopy PROVE RowsAreThere'
  <2>1. database \in Databases /\ cutover'.candidate = Migrated(database)
        /\ cutover'.at = "migrated"
    BY <1>0, <1>14 DEF MigrateCopy, TypeOK, CutoverStates, BInv, CutoverAgrees
  <2>2. request.at = "idle"
    BY <1>0, <1>14 DEF MigrateCopy, LocksAgree
  <2> QED
    BY <1>0, <1>14, <2>1, <2>2, MigratedIs DEF MigrateCopy, stores, online, rest
<1>15. ASSUME MoveAway PROVE RowsAreThere'
  <2>1. database \in Databases /\ request.at = "idle"
    BY <1>0, <1>15 DEF MoveAway, LocksAgree, TypeOK, BInv, CutoverAgrees
  <2>2. cutover'.candidate = cutover.candidate
    BY <1>0, <1>15 DEF MoveAway, TypeOK, CutoverStates
  <2> QED
    BY <1>0, <1>15, <2>1, <2>2 DEF MoveAway, online, rest
<1>16. ASSUME MoveIn PROVE RowsAreThere'
  BY <1>0, <1>16 DEF MoveIn, Release, LocksAgree, online, rest
<1>17. ASSUME AbandonCutover PROVE RowsAreThere'
  BY <1>0, <1>17 DEF AbandonCutover, Release, stores, online
<1>18. ASSUME MigrateInPlace PROVE RowsAreThere'
  BY <1>0, <1>18, EmptyIs, MigratedIs DEF MigrateInPlace, TypeOK, online, offline, rest
<1>19. ASSUME StartUpgrade PROVE RowsAreThere'
  BY <1>0, <1>19, MigratedIs DEF StartUpgrade, TypeOK, online
<1>20. ASSUME ReplaceByUpgrade PROVE RowsAreThere'
  BY <1>0, <1>20 DEF ReplaceByUpgrade, online
<1>21. ASSUME AbandonUpgrade PROVE RowsAreThere'
  BY <1>0, <1>21 DEF AbandonUpgrade, stores, online, rest
<1>22. ASSUME UNCHANGED vars PROVE RowsAreThere'
  BY <1>0, <1>22 DEF vars
<1> QED
  BY <1>1, <1>2, <1>3, <1>4, <1>5, <1>6, <1>7, <1>8, <1>9, <1>10, <1>11, <1>12, <1>13,
     <1>14, <1>15, <1>16, <1>17, <1>18, <1>19, <1>20, <1>21, <1>22 DEF Next
-----------------------------------------------------------------------------
(* The online backup: from the snapshot to the last byte no write begins.  *)
LEMMA BackupStays ==
  ASSUME BackupAgrees, UNCHANGED <<backup, archive, uploads, chroma>>
  PROVE  BackupAgrees'
BY DEF BackupAgrees, Stored, Whole

(* Other holders of the lock than the API have no backup under way.        *)
LEMMA NoBackup ==
  ASSUME backup'.at = "idle"
  PROVE  BackupAgrees'
BY DEF BackupAgrees

LEMMA BackupsStep ==
  ASSUME BInv, [Next]_vars
  PROVE  BackupAgrees'
<1>0. TypeOK /\ LocksAgree /\ BackupAgrees /\ RowsAreThere
  BY DEF BInv
<1>1. ASSUME \/ StartApi \/ StartPrevious \/ RecoverBackup
             \/ StartRestore \/ Extract \/ ImportCollections \/ RenameStaging
             \/ AbandonRestore \/ StartSave \/ FinishSave \/ AbandonSave
             \/ Discard \/ StartDrill \/ EndDrill
      PROVE  BackupAgrees'
  BY <1>0, <1>1, BackupStays
     DEF StartApi, StartPrevious, RecoverBackup, StartRestore, Extract,
         ImportCollections, RenameStaging, AbandonRestore, StartSave, FinishSave,
         AbandonSave, Discard, StartDrill, EndDrill, stores, online
<1>2. ASSUME \/ CommitRequest \/ CheckProofs \/ LockCutover \/ MigrateCopy \/ MoveAway
             \/ MoveIn \/ AbandonCutover \/ MigrateInPlace \/ StartUpgrade
             \/ ReplaceByUpgrade \/ AbandonUpgrade
      PROVE  BackupAgrees'
  BY <1>0, <1>2, BackupStays
     DEF CommitRequest, CheckProofs, LockCutover, MigrateCopy, MoveAway, MoveIn,
         AbandonCutover, MigrateInPlace, StartUpgrade, ReplaceByUpgrade,
         AbandonUpgrade, stores, online
<1>3. ASSUME StopApi \/ EndBackup PROVE BackupAgrees'
  BY <1>3, NoBackup DEF StopApi, EndBackup, Idle
<1>4. ASSUME NEW d \in Documents, StartUpload(d) \/ StartDelete(d) PROVE BackupAgrees'
  BY <1>0, <1>4 DEF StartUpload, StartDelete, BusinessWrite, Exclusive, BackupAgrees,
                    online
<1>5. ASSUME SubmitBackup \/ EnterExclusive PROVE BackupAgrees'
  BY <1>0, <1>5 DEF SubmitBackup, EnterExclusive, BackupStep, Idle, BackupAgrees, stores
<1>6. ASSUME Snapshot PROVE BackupAgrees'
  <2> DEFINE copy == [db |-> Scrubbed(database), uploads |-> {}, chroma |-> {},
                      torn |-> torn]
  <2>1. /\ backup' = [at |-> "collections", copy |-> copy]
        /\ backup.at = "snapshot" /\ lock = "api"
        /\ UNCHANGED <<archive, uploads, chroma>>
    BY <1>6 DEF Snapshot, BackupStep, stores
  <2>2. database \in Databases /\ request.at = "idle"
    BY <1>0, <2>1 DEF LocksAgree, TypeOK, Exclusive
  <2>3. copy \in Copies
    BY <1>0, <2>2, ScrubbedIs DEF TypeOK, Copies
  <2>4. ~copy.db.draining /\ copy.db.rows \ copy.torn \subseteq Stored
    BY <1>0, <2>2, ScrubbedIs, NoneIsNone DEF RowsAreThere, Removing
  <2> QED
    BY <1>0, <2>1, <2>3, <2>4 DEF BackupAgrees, Stored
<1>7. ASSUME ExportCollections PROVE BackupAgrees'
  <2>1. /\ backup' = [at |-> "files", copy |-> [backup.copy EXCEPT !.chroma = chroma]]
        /\ backup.at = "collections"
        /\ UNCHANGED <<archive, uploads, chroma>>
    BY <1>7 DEF ExportCollections, BackupStep, stores
  <2>2. backup.copy \in Copies /\ chroma \in SUBSET Documents
    BY <1>0, <2>1 DEF BackupAgrees, TypeOK
  <2>3. /\ backup'.copy \in Copies /\ backup'.copy.chroma = chroma
        /\ backup'.copy.db = backup.copy.db /\ backup'.copy.torn = backup.copy.torn
    BY <2>1, <2>2 DEF Copies
  <2> QED
    BY <1>0, <2>1, <2>3 DEF BackupAgrees, Stored
<1>8. ASSUME AddFiles PROVE BackupAgrees'
  <2>1. /\ backup' = [at |-> "publish", copy |-> [backup.copy EXCEPT !.uploads = uploads]]
        /\ backup.at = "files"
        /\ UNCHANGED <<archive, uploads, chroma>>
    BY <1>8 DEF AddFiles, BackupStep, stores
  <2>2. backup.copy \in Copies /\ uploads \in SUBSET Documents
    BY <1>0, <2>1 DEF BackupAgrees, TypeOK
  <2>3. /\ backup'.copy \in Copies /\ backup'.copy.uploads = uploads
        /\ backup'.copy.chroma = backup.copy.chroma
        /\ backup'.copy.db = backup.copy.db /\ backup'.copy.torn = backup.copy.torn
    BY <2>1, <2>2 DEF Copies
  <2> QED
    BY <1>0, <2>1, <2>3 DEF BackupAgrees, Whole
<1>9. ASSUME Publish PROVE BackupAgrees'
  BY <1>9 DEF Publish, BackupStep, BackupAgrees
<1>10. ASSUME Damage PROVE BackupAgrees'
  BY <1>0, <1>10 DEF Damage, BackupAgrees, Stored, Whole, stores
<1>11. ASSUME UNCHANGED vars PROVE BackupAgrees'
  BY <1>0, <1>11, BackupStays DEF vars
<1> QED
  BY <1>1, <1>2, <1>3, <1>4, <1>5, <1>6, <1>7, <1>8, <1>9, <1>10, <1>11 DEF Next
-----------------------------------------------------------------------------
(* The restore.                                                            *)
LEMMA RestoreStep ==
  ASSUME BInv, [Next]_vars
  PROVE  RestoreAgrees'
<1>0. TypeOK /\ LocksAgree /\ RestoreAgrees /\ ArchivesAreWhole
  BY DEF BInv
<1>1. ASSUME UNCHANGED <<archive, restore, target>> PROVE RestoreAgrees'
  BY <1>0, <1>1 DEF RestoreAgrees
<1>2. ASSUME \/ StartApi \/ StartPrevious \/ StopApi \/ CommitRequest \/ SubmitBackup
             \/ EnterExclusive \/ Snapshot \/ ExportCollections \/ AddFiles
             \/ EndBackup \/ RecoverBackup
             \/ \E d \in Documents : StartUpload(d) \/ StartDelete(d)
      PROVE  RestoreAgrees'
  BY <1>1, <1>2
     DEF StartApi, StartPrevious, StopApi, CommitRequest, SubmitBackup, EnterExclusive,
         Snapshot, ExportCollections, AddFiles, BackupStep, EndBackup, RecoverBackup,
         StartUpload, StartDelete, online
<1>3. ASSUME \/ StartSave \/ FinishSave \/ AbandonSave \/ Discard \/ StartDrill
             \/ EndDrill \/ CheckProofs \/ LockCutover \/ MigrateCopy \/ MoveAway
             \/ MoveIn \/ AbandonCutover \/ MigrateInPlace \/ StartUpgrade
             \/ ReplaceByUpgrade \/ AbandonUpgrade
      PROVE  RestoreAgrees'
  BY <1>1, <1>3
     DEF StartSave, FinishSave, AbandonSave, Discard, StartDrill, EndDrill, CheckProofs,
         LockCutover, MigrateCopy, MoveAway, MoveIn, AbandonCutover, MigrateInPlace,
         StartUpgrade, ReplaceByUpgrade, AbandonUpgrade, online
<1>4. ASSUME Publish PROVE RestoreAgrees'
  <2>1. restore' = restore /\ target' = target /\ restore.at = "idle"
    BY <1>0, <1>4, NoneIsNone DEF Publish, BackupStep, LocksAgree, Holders
  <2>2. archive' \in Archives
    BY <1>0, <1>4 DEF Publish, BackupStep, BInv, BackupAgrees, Archives
  <2> QED
    BY <2>1, <2>2, NoneIsNone DEF RestoreAgrees
<1>5. ASSUME StartRestore PROVE RestoreAgrees'
  BY <1>0, <1>5 DEF StartRestore, RestoreAgrees
<1>6. ASSUME Extract PROVE RestoreAgrees'
  <2>1. archive \in Archives
    BY <1>0, <1>6 DEF Extract, RestoreAgrees, TypeOK
  <2>2. [copy |-> archive.copy, sound |-> archive.sound, complete |-> FALSE] \in Restored
    BY <2>1 DEF Archives, Restored
  <2> QED
    BY <1>0, <1>6, <2>2 DEF Extract, Trusted, RestoreAgrees
<1>7. ASSUME ImportCollections PROVE RestoreAgrees'
  <2> DEFINE staged == [restore.copy EXCEPT !.copy.db = Scrubbed(@), !.complete = TRUE]
  <2>1. /\ restore.copy \in Restored /\ restore.copy.sound
        /\ restore.copy.copy = archive.copy /\ archive # None
    BY <1>0, <1>7 DEF ImportCollections, RestoreAgrees
  <2>2. restore.copy.copy \in Copies /\ restore.copy.copy.db \in Databases
        /\ ~restore.copy.copy.db.draining
    BY <1>0, <2>1 DEF Restored, Copies, ArchivesAreWhole
  <2>3. Scrubbed(restore.copy.copy.db) = restore.copy.copy.db
    BY <2>2, ScrubbedIs
  <2>4. [restore.copy.copy EXCEPT !.db = Scrubbed(restore.copy.copy.db)] = restore.copy.copy
    BY <2>2, <2>3 DEF Copies
  <2>5. staged = [restore.copy EXCEPT !.copy = restore.copy.copy, !.complete = TRUE]
    BY <2>4
  <2>6. staged \in Restored /\ staged.sound /\ staged.complete
        /\ staged.copy = restore.copy.copy
    BY <2>1, <2>5 DEF Restored
  <2>7. /\ restore' = [at |-> "rename", copy |-> staged]
        /\ archive' = archive
    BY <1>7 DEF ImportCollections
  <2> HIDE DEF staged
  <2> QED
    BY <2>1, <2>6, <2>7 DEF RestoreAgrees
<1>8. ASSUME RenameStaging \/ AbandonRestore PROVE RestoreAgrees'
  BY <1>0, <1>8 DEF RenameStaging, AbandonRestore, Idle, RestoreAgrees
<1>9. ASSUME Damage PROVE RestoreAgrees'
  <2>1. UNCHANGED <<restore, target>>
    BY <1>9 DEF Damage
  <2>2. archive = None => archive' = None
    BY <1>9 DEF Damage
  <2>3. archive # None => archive' # None /\ archive'.copy = archive.copy
    BY <1>0, <1>9, NoneIsNone DEF Damage, TypeOK, Archives
  <2> QED
    BY <1>0, <2>1, <2>2, <2>3 DEF RestoreAgrees
<1>10. ASSUME UNCHANGED vars PROVE RestoreAgrees'
  BY <1>1, <1>10 DEF vars
<1> QED
  BY <1>2, <1>3, <1>4, <1>5, <1>6, <1>7, <1>8, <1>9, <1>10 DEF Next
-----------------------------------------------------------------------------
(* The archives.                                                           *)
LEMMA ArchivesStep ==
  ASSUME BInv, [Next]_vars
  PROVE  ArchivesAreWhole'
<1>0. TypeOK /\ LocksAgree /\ RestoreAgrees /\ ArchivesAreWhole /\ TypeOK'
  BY TypedStep DEF BInv
<1>1. ASSUME UNCHANGED <<archive, saved, target>> PROVE ArchivesAreWhole'
  BY <1>0, <1>1 DEF ArchivesAreWhole, Whole
<1>2. ASSUME \/ StartApi \/ StartPrevious \/ StopApi \/ CommitRequest \/ SubmitBackup
             \/ EnterExclusive \/ Snapshot \/ ExportCollections \/ AddFiles
             \/ EndBackup \/ RecoverBackup
             \/ \E d \in Documents : StartUpload(d) \/ StartDelete(d)
      PROVE  ArchivesAreWhole'
  BY <1>1, <1>2
     DEF StartApi, StartPrevious, StopApi, CommitRequest, SubmitBackup, EnterExclusive,
         Snapshot, ExportCollections, AddFiles, BackupStep, EndBackup, RecoverBackup,
         StartUpload, StartDelete, online, offline
<1>3. ASSUME \/ StartRestore \/ Extract \/ ImportCollections \/ AbandonRestore
             \/ StartSave \/ AbandonSave \/ StartDrill \/ EndDrill
      PROVE  ArchivesAreWhole'
  BY <1>1, <1>3
     DEF StartRestore, Extract, ImportCollections, AbandonRestore, StartSave,
         AbandonSave, StartDrill, EndDrill, online, offline
<1>4. ASSUME \/ CheckProofs \/ LockCutover \/ MigrateCopy \/ MoveAway \/ MoveIn
             \/ AbandonCutover \/ MigrateInPlace \/ StartUpgrade
             \/ ReplaceByUpgrade \/ AbandonUpgrade
      PROVE  ArchivesAreWhole'
  BY <1>1, <1>4
     DEF CheckProofs, LockCutover, MigrateCopy, MoveAway, MoveIn, AbandonCutover,
         MigrateInPlace, StartUpgrade, ReplaceByUpgrade, AbandonUpgrade, online, offline
<1>5. ASSUME Publish PROVE ArchivesAreWhole'
  <2>1. /\ archive' = [copy |-> backup.copy, sound |-> TRUE]
        /\ Whole(backup.copy) /\ ~backup.copy.db.draining
        /\ archive = None
        /\ UNCHANGED <<saved, target>>
    BY <1>5 DEF Publish, BackupStep, BInv, BackupAgrees, offline
  <2>2. target = None
    BY <1>0, <2>1 DEF RestoreAgrees
  <2> QED
    BY <1>0, <2>1, <2>2 DEF ArchivesAreWhole, Whole
<1>6. ASSUME RenameStaging PROVE ArchivesAreWhole'
  <2>1. /\ target' = restore.copy /\ UNCHANGED <<archive, saved>>
        /\ restore.copy.sound /\ restore.copy.complete
        /\ restore.copy.copy = archive.copy
    BY <1>0, <1>6 DEF RenameStaging, RestoreAgrees, offline
  <2> QED
    BY <1>0, <2>1 DEF ArchivesAreWhole, Whole
<1>7. ASSUME Damage PROVE ArchivesAreWhole'
  <2>1. archive # None => archive'.copy = archive.copy
    BY <1>0, <1>7 DEF Damage, TypeOK, Archives
  <2>2. saved # None => saved'.copy = saved.copy
    BY <1>0, <1>7 DEF Damage, TypeOK, Saved
  <2>3. /\ archive = None => archive' = None
        /\ saved = None => saved' = None
        /\ target' = target
    BY <1>7 DEF Damage
  <2> QED
    BY <1>0, <2>1, <2>2, <2>3 DEF ArchivesAreWhole, Whole, RestoreAgrees
<1>8. ASSUME FinishSave PROVE ArchivesAreWhole'
  <2>1. saved'.copy = [db |-> saving, uploads |-> uploads, chroma |-> chroma,
                       torn |-> torn]
        /\ UNCHANGED <<archive, target>>
    BY <1>8 DEF FinishSave, online
  <2>2. saving.rows \ torn \subseteq uploads \intersect chroma
    BY <1>8 DEF FinishSave, BInv, RowsAreThere, Stored
  <2>3. Whole(saved'.copy)
    BY <2>1, <2>2 DEF Whole
  <2> QED
    BY <1>0, <2>1, <2>3 DEF ArchivesAreWhole, Whole
<1>9. ASSUME Discard PROVE ArchivesAreWhole'
  BY <1>0, <1>9 DEF Discard, ArchivesAreWhole, Whole, online
<1>10. ASSUME UNCHANGED vars PROVE ArchivesAreWhole'
  BY <1>1, <1>10 DEF vars
<1> QED
  BY <1>2, <1>3, <1>4, <1>5, <1>6, <1>7, <1>8, <1>9, <1>10 DEF Next
-----------------------------------------------------------------------------
(* The cutover: drills are only added, and who changes the database under  *)
(* the lock of a cutover is the launcher's upgrade.                        *)
LEMMA CutoverStep ==
  ASSUME BInv, [Next]_vars
  PROVE  CutoverAgrees'
<1>0. TypeOK /\ LocksAgree /\ CutoverAgrees
  BY DEF BInv
<1> USE NoneIsNone DEF CutoverAgrees, Holders
<1>1. ASSUME UNCHANGED <<cutover, drills, database, excused>> PROVE CutoverAgrees'
  BY <1>0, <1>1
<1>2. ASSUME UNCHANGED <<cutover, drills>>, lock # "cutover" PROVE CutoverAgrees'
  BY <1>0, <1>2 DEF LocksAgree
<1>3. ASSUME \/ StartPrevious \/ EnterExclusive \/ Snapshot \/ ExportCollections
             \/ AddFiles \/ Publish
             \/ \E d \in Documents : StartUpload(d) \/ StartDelete(d)
      PROVE  CutoverAgrees'
  BY <1>1, <1>3
     DEF StartPrevious, EnterExclusive, Snapshot, ExportCollections, AddFiles, Publish,
         BackupStep, StartUpload, StartDelete, stores, offline, rest
<1>4. ASSUME \/ StartRestore \/ Extract \/ ImportCollections \/ RenameStaging
             \/ AbandonRestore \/ Damage \/ StartSave \/ FinishSave \/ AbandonSave
             \/ Discard \/ StartDrill \/ AbandonUpgrade
      PROVE  CutoverAgrees'
  BY <1>1, <1>4
     DEF StartRestore, Extract, ImportCollections, RenameStaging, AbandonRestore, Damage,
         StartSave, FinishSave, AbandonSave, Discard, StartDrill, AbandonUpgrade,
         stores, offline, rest
<1>5. ASSUME \/ StartApi \/ StopApi \/ CommitRequest \/ SubmitBackup \/ EndBackup
             \/ RecoverBackup \/ MigrateInPlace
      PROVE  CutoverAgrees'
  BY <1>2, <1>5
     DEF StartApi, StopApi, CommitRequest, SubmitBackup, EndBackup, RecoverBackup,
         MigrateInPlace, offline
<1>6. ASSUME EndDrill PROVE CutoverAgrees'
  <2>1. drills \subseteq drills' /\ UNCHANGED <<cutover, database, excused>>
    BY <1>6 DEF EndDrill, stores, rest
  <2> QED
    BY <1>0, <2>1
<1>7. ASSUME CheckProofs PROVE CutoverAgrees'
  BY <1>7 DEF CheckProofs
<1>8. ASSUME LockCutover PROVE CutoverAgrees'
  <2>1. cutover'.at = "locked" /\ cutover'.expected = cutover.expected
    BY <1>0, <1>8 DEF LockCutover, TypeOK, CutoverStates
  <2> QED
    BY <1>0, <1>8, <2>1 DEF LockCutover, Unchanged, stores, rest
<1>9. ASSUME MigrateCopy PROVE CutoverAgrees'
  <2>1. cutover'.at = "migrated" /\ cutover'.expected = cutover.expected
    BY <1>0, <1>9 DEF MigrateCopy, TypeOK, CutoverStates
  <2> QED
    BY <1>0, <1>9, <2>1 DEF MigrateCopy, stores, rest
<1>10. ASSUME MoveAway PROVE CutoverAgrees'
  <2>1. cutover'.at = "moved" /\ cutover'.expected = cutover.expected
    BY <1>0, <1>10 DEF MoveAway, TypeOK, CutoverStates
  <2> QED
    BY <1>0, <1>10, <2>1 DEF MoveAway, rest
<1>11. ASSUME MoveIn \/ AbandonCutover PROVE CutoverAgrees'
  <2>1. cutover' = [at |-> "idle", expected |-> None, candidate |-> None]
    BY <1>11 DEF MoveIn, AbandonCutover
  <2>2. cutover'.at = "idle"
    BY <2>1
  <2> QED
    BY <2>2
<1>12. ASSUME StartUpgrade PROVE CutoverAgrees'
  <2>1. CASE lock # "cutover"
    BY <1>2, <1>12, <2>1 DEF StartUpgrade
  <2>2. CASE lock = "cutover" /\ environment = "unset"
    BY <1>1, <1>12, <2>2 DEF StartUpgrade
  <2>3. CASE lock = "cutover" /\ environment = "live"
    <3>1. database' # None
      <4>1. database \in Databases /\ database' \in {database, Migrated(database)}
        BY <1>0, <1>12 DEF StartUpgrade, TypeOK
      <4> QED
        BY <4>1, MigratedIs
    <3>2. "cutover overlapped" \in excused'
      BY <1>12, <2>3 DEF StartUpgrade, Overlapped
    <3> QED
      BY <1>0, <1>12, <3>1, <3>2 DEF StartUpgrade
  <2> QED
    BY <1>0, <2>1, <2>2, <2>3 DEF TypeOK
<1>13. ASSUME ReplaceByUpgrade PROVE CutoverAgrees'
  <2>1. CASE lock # "cutover"
    BY <1>2, <1>13, <2>1 DEF ReplaceByUpgrade
  <2>2. CASE lock = "cutover"
    <3>1. database' # None
      BY <1>0, <1>13 DEF ReplaceByUpgrade, TypeOK, Upgrades
    <3>2. "cutover overlapped" \in excused'
      BY <1>13, <2>2 DEF ReplaceByUpgrade, Overlapped
    <3> QED
      BY <1>0, <1>13, <3>1, <3>2 DEF ReplaceByUpgrade
  <2> QED
    BY <2>1, <2>2
<1>14. ASSUME UNCHANGED vars PROVE CutoverAgrees'
  BY <1>1, <1>14 DEF vars
<1> QED
  BY <1>3, <1>4, <1>5, <1>6, <1>7, <1>8, <1>9, <1>10, <1>11, <1>12, <1>13, <1>14
     DEF Next
-----------------------------------------------------------------------------
(* What was answered.                                                      *)
LEMMA KeptStep ==
  ASSUME BInv, [Next]_vars
  PROVE  KeptAgrees'
<1>0. TypeOK /\ LocksAgree /\ RowsAreThere /\ CutoverAgrees /\ KeptAgrees
  BY DEF BInv
<1> USE NoneIsNone DEF KeptAgrees, NoWriteIsLost, Holders
<1>1. ASSUME UNCHANGED <<kept, database, retained, cutover, excused, upgrade>>
      PROVE  KeptAgrees'
  BY <1>0, <1>1
<1>2. ASSUME \/ StartPrevious \/ StopApi \/ EnterExclusive \/ Snapshot
             \/ ExportCollections \/ AddFiles \/ Publish
             \/ \E d \in Documents : StartUpload(d) \/ StartDelete(d)
      PROVE  KeptAgrees'
  BY <1>1, <1>2
     DEF StartPrevious, StopApi, EnterExclusive, Snapshot, ExportCollections, AddFiles,
         Publish, BackupStep, StartUpload, StartDelete, stores, offline, rest
<1>3. ASSUME \/ StartRestore \/ Extract \/ ImportCollections \/ RenameStaging
             \/ AbandonRestore \/ Damage \/ StartSave \/ FinishSave \/ AbandonSave
             \/ Discard \/ StartDrill \/ EndDrill
      PROVE  KeptAgrees'
  BY <1>1, <1>3
     DEF StartRestore, Extract, ImportCollections, RenameStaging, AbandonRestore, Damage,
         StartSave, FinishSave, AbandonSave, Discard, StartDrill, EndDrill, stores,
         offline, rest
<1>4. ASSUME StartApi PROVE KeptAgrees'
  <2>1. cutover.at \notin {"migrated", "moved"}
    BY <1>0, <1>4 DEF StartApi, LocksAgree
  <2>2. CASE database = None
    BY <1>0, <1>4, <2>1, <2>2, EmptyIs DEF StartApi, offline, rest
  <2>3. CASE database # None
    BY <1>1, <1>4, <2>3 DEF StartApi, offline, rest
  <2> QED
    BY <2>2, <2>3
<1>5. ASSUME CommitRequest PROVE KeptAgrees'
  <2>1. cutover.at \notin {"migrated", "moved"}
    BY <1>0, <1>5 DEF CommitRequest, LocksAgree
  <2>2. UNCHANGED <<retained, cutover, excused, upgrade>>
    BY <1>5 DEF CommitRequest, offline, rest
  <2>3. database # None /\ database' # None
    BY <1>0, <1>5, Committed
  <2>4. \A d \in kept' : d \in database'.rows \/ (d \in kept /\ d \notin database.rows)
    BY <1>0, <1>5, Committed
  <2> QED
    BY <1>0, <1>5, <2>1, <2>2, <2>3, <2>4, Committed
<1>6. ASSUME SubmitBackup \/ EndBackup \/ RecoverBackup PROVE KeptAgrees'
  <2>1. UNCHANGED <<kept, retained, cutover, excused, upgrade>>
    BY <1>6 DEF SubmitBackup, EndBackup, RecoverBackup, offline, rest
  <2>2. cutover.at \notin {"migrated", "moved"}
    BY <1>0, <1>6 DEF SubmitBackup, EndBackup, RecoverBackup, LocksAgree
  <2> QED
    BY <1>0, <1>6, <2>1, <2>2, Drained
<1>7. ASSUME CheckProofs \/ LockCutover PROVE KeptAgrees'
  <2>1. cutover.at \in {"idle", "checked"} /\ cutover'.at \in {"checked", "locked"}
    <3>1. CASE CheckProofs
      BY <3>1 DEF CheckProofs
    <3>2. CASE LockCutover
      BY <1>0, <3>2 DEF LockCutover, TypeOK, CutoverStates
    <3> QED
      BY <1>7, <3>1, <3>2
  <2>2. UNCHANGED <<kept, database, retained, excused, upgrade>>
    BY <1>7 DEF CheckProofs, LockCutover, stores, rest
  <2> QED
    BY <1>0, <2>1, <2>2
<1>8. ASSUME MigrateCopy PROVE KeptAgrees'
  <2>1. /\ database \in Databases /\ database # None
        /\ database.tables /\ database.revision # "head"
        /\ cutover.at = "locked"
    BY <1>0, <1>8 DEF MigrateCopy, TypeOK, CutoverAgrees
  <2>2. cutover'.at = "migrated" /\ cutover'.candidate = Migrated(database)
    BY <1>0, <1>8 DEF MigrateCopy, TypeOK, CutoverStates
  <2>3. UNCHANGED <<kept, database, retained, excused, upgrade>>
    BY <1>8 DEF MigrateCopy, stores, rest
  <2> QED
    BY <1>0, <2>1, <2>2, <2>3, MigratedIs
<1>9. ASSUME MoveAway PROVE KeptAgrees'
  <2>1. cutover.at = "migrated" /\ database \in Databases /\ database # None
    BY <1>0, <1>9 DEF MoveAway, TypeOK, CutoverAgrees
  <2>2. cutover'.at = "moved" /\ cutover'.candidate = cutover.candidate
    BY <1>0, <1>9 DEF MoveAway, TypeOK, CutoverStates
  <2>3. /\ retained' = database /\ database' = None
        /\ UNCHANGED <<kept, excused, upgrade>>
    BY <1>9 DEF MoveAway, rest
  <2> QED
    BY <1>0, <2>1, <2>2, <2>3
<1>10. ASSUME MoveIn PROVE KeptAgrees'
  <2>1. /\ cutover.at = "moved" /\ cutover'.at = "idle"
        /\ cutover.candidate \in Databases /\ retained \in Databases
        /\ UNCHANGED <<kept, excused, upgrade>>
    BY <1>0, <1>10 DEF MoveIn, RowsAreThere, rest
  <2>2. CASE database' = cutover.candidate
    BY <1>0, <2>1, <2>2
  <2>3. CASE database' = retained
    BY <1>0, <2>1, <2>3
  <2> QED
    BY <1>10, <2>2, <2>3 DEF MoveIn
<1>11. ASSUME AbandonCutover PROVE KeptAgrees'
  <2>1. cutover'.at = "idle" /\ UNCHANGED <<kept, database, retained, upgrade>>
    BY <1>11 DEF AbandonCutover, stores
  <2>2. CASE cutover.at = "moved"
    <3>1. excused' = excused \union {"cutover interrupted"}
      BY <1>11, <2>2 DEF AbandonCutover
    <3> QED
      BY <1>0, <2>1, <2>2, <3>1
  <2>3. CASE cutover.at # "moved"
    <3>1. excused' = excused
      BY <1>11, <2>3 DEF AbandonCutover
    <3> QED
      BY <1>0, <2>1, <2>3, <3>1
  <2> QED
    BY <2>2, <2>3
<1>12. ASSUME MigrateInPlace PROVE KeptAgrees'
  <2>1. cutover.at \notin {"migrated", "moved"}
    BY <1>0, <1>12 DEF MigrateInPlace, LocksAgree
  <2>2. UNCHANGED <<kept, retained, cutover, excused, upgrade>>
    BY <1>12 DEF MigrateInPlace, offline, rest
  <2>3. CASE database = None
    BY <1>0, <1>12, <2>1, <2>2, <2>3, EmptyIs, MigratedIs DEF MigrateInPlace
  <2>4. CASE database # None
    <3>1. database \in Databases /\ database' = Migrated(database)
      BY <1>0, <1>12, <2>4 DEF MigrateInPlace, TypeOK
    <3> QED
      BY <1>0, <2>1, <2>2, <2>4, <3>1, MigratedIs
  <2> QED
    BY <2>3, <2>4
<1>13. ASSUME StartUpgrade PROVE KeptAgrees'
  <2>1. database \in Databases /\ database # None
    BY <1>0, <1>13 DEF StartUpgrade, TypeOK
  <2>2. UNCHANGED <<kept, retained, cutover>>
    BY <1>13 DEF StartUpgrade
  <2>3. CASE UNCHANGED <<database, excused>>
    <3>1. upgrade' = [from |-> database, to |-> Migrated(database)] \/ upgrade' = upgrade
      BY <1>13 DEF StartUpgrade
    <3>2. upgrade' # None => upgrade'.to = Migrated(upgrade'.from)
      <4>1. CASE upgrade' = [from |-> database, to |-> Migrated(database)]
        <5>1. upgrade'.from = database /\ upgrade'.to = Migrated(database)
          BY <4>1
        <5> QED
          BY <5>1
      <4>2. CASE upgrade' = upgrade
        BY <1>0, <4>2
      <4> QED
        BY <3>1, <4>1, <4>2
    <3> QED
      BY <1>0, <2>2, <2>3, <3>2
  <2>4. CASE database' = Migrated(database) /\ excused' = excused \union Overlapped
             /\ UNCHANGED upgrade
    BY <1>0, <2>1, <2>2, <2>4, MigratedIs DEF Overlapped
  <2> QED
    BY <1>13, <2>3, <2>4 DEF StartUpgrade
<1>14. ASSUME ReplaceByUpgrade PROVE KeptAgrees'
  <2>1. /\ upgrade.from \in Databases /\ database' = Migrated(upgrade.from)
        /\ upgrade' = None /\ UNCHANGED <<kept, retained, cutover>>
    BY <1>0, <1>14 DEF ReplaceByUpgrade, TypeOK, Upgrades
  <2>2. /\ database' # None /\ database'.rows = upgrade.from.rows
        /\ database'.revision = "head"
    BY <2>1, MigratedIs
  <2>3. CASE database = upgrade.from
    <3>1. excused' = excused \union Overlapped
      BY <1>14, <2>3 DEF ReplaceByUpgrade
    <3> QED
      BY <1>0, <2>1, <2>2, <2>3, <3>1 DEF Overlapped
  <2>4. CASE database # upgrade.from
    <3>1. excused' = excused \union Overlapped \union {"upgrade overtaken"}
      BY <1>14, <2>4 DEF ReplaceByUpgrade
    <3> QED
      BY <1>0, <2>1, <2>2, <3>1 DEF Overlapped
  <2> QED
    BY <2>3, <2>4
<1>15. ASSUME AbandonUpgrade PROVE KeptAgrees'
  BY <1>0, <1>15 DEF AbandonUpgrade, stores, rest
<1>16. ASSUME UNCHANGED vars PROVE KeptAgrees'
  BY <1>1, <1>16 DEF vars
<1> QED
  BY <1>2, <1>3, <1>4, <1>5, <1>6, <1>7, <1>8, <1>9, <1>10, <1>11, <1>12, <1>13, <1>14,
     <1>15, <1>16 DEF Next
-----------------------------------------------------------------------------
LEMMA BInvStep == BInv /\ [Next]_vars => BInv'
BY TypedStep, LocksStep, RowsStep, BackupsStep, RestoreStep, ArchivesStep, CutoverStep,
   KeptStep DEF BInv

LEMMA BInvHolds == Spec => []BInv
<1>1. Init => BInv
  BY BInvInit
<1>2. BInv /\ [Next]_vars => BInv'
  BY BInvStep
<1> QED
  BY <1>1, <1>2, PTL DEF Spec

(* The types, for any number of documents, backups and faults.             *)
THEOREM TypeCorrect == Spec => []TypeOK
<1>1. BInv => TypeOK
  BY DEF BInv
<1> QED
  BY <1>1, BInvHolds, PTL

(* What a backup archives has the bytes and the vectors of every document  *)
(* its database knows, and what a restore makes is the archive: the lock,  *)
(* the exclusive side of the barrier and the digests are enough for it,    *)
(* whichever operation crashed before.                                     *)
THEOREM ArchivesStayWhole == Spec => []ArchivesAreWhole
<1>1. BInv => ArchivesAreWhole
  BY DEF BInv
<1> QED
  BY <1>1, BInvHolds, PTL

(* No migration, in place or by a copy, loses a document whose upload was  *)
(* answered, but for the two that NoWriteIsLost excepts.                   *)
THEOREM WritesAreKept == Spec => []NoWriteIsLost
<1>1. BInv => NoWriteIsLost
  BY DEF BInv, KeptAgrees
<1> QED
  BY <1>1, BInvHolds, PTL

(* final_cutover moves away a database only when a drill has restored the  *)
(* very same one; no other step leaves the name of the database empty.     *)
LEMMA MovedAwayIsBackedUp ==
  ASSUME BInv, [Next]_vars, database # None, database' = None,
         "cutover overlapped" \notin excused
  PROVE  \E a \in drills : a.copy.db = database
<1>0. TypeOK /\ LocksAgree /\ CutoverAgrees /\ RowsAreThere
  BY DEF BInv
<1> USE NoneIsNone
<1>1. CASE MoveAway
  BY <1>0, <1>1 DEF MoveAway, CutoverAgrees
<1>2. UNCHANGED database => FALSE
  OBVIOUS
<1>3. ~StartApi /\ ~CommitRequest /\ ~(SubmitBackup \/ EndBackup \/ RecoverBackup)
  BY <1>0, Committed, Drained DEF StartApi
<1>4. ~MoveIn
  BY <1>0 DEF MoveIn, RowsAreThere
<1>5. ~MigrateInPlace /\ ~StartUpgrade /\ ~ReplaceByUpgrade
  <2>1. database \in Databases /\ Migrated(database) # None
    BY <1>0, MigratedIs DEF TypeOK
  <2>2. ~MigrateInPlace /\ ~StartUpgrade
    BY <2>1 DEF MigrateInPlace, StartUpgrade
  <2>3. ~ReplaceByUpgrade
    BY <1>0 DEF ReplaceByUpgrade, TypeOK, Upgrades
  <2> QED
    BY <2>2, <2>3
<1>6. ASSUME \/ StartPrevious \/ StopApi \/ EnterExclusive \/ Snapshot
             \/ ExportCollections \/ AddFiles \/ Publish
             \/ \E d \in Documents : StartUpload(d) \/ StartDelete(d)
      PROVE  UNCHANGED database
  BY <1>6 DEF StartPrevious, StopApi, EnterExclusive, Snapshot, ExportCollections,
              AddFiles, Publish, BackupStep, StartUpload, StartDelete, stores
<1>7. ASSUME \/ StartRestore \/ Extract \/ ImportCollections \/ RenameStaging
             \/ AbandonRestore \/ Damage \/ StartSave \/ FinishSave \/ AbandonSave
             \/ Discard \/ StartDrill \/ EndDrill \/ CheckProofs \/ LockCutover
             \/ MigrateCopy \/ AbandonCutover \/ AbandonUpgrade \/ UNCHANGED vars
      PROVE  UNCHANGED database
  BY <1>7 DEF StartRestore, Extract, ImportCollections, RenameStaging, AbandonRestore,
              Damage, StartSave, FinishSave, AbandonSave, Discard, StartDrill, EndDrill,
              CheckProofs, LockCutover, MigrateCopy, AbandonCutover, AbandonUpgrade,
              stores, vars
<1> QED
  BY <1>1, <1>2, <1>3, <1>4, <1>5, <1>6, <1>7 DEF Next

(* Every step of every behaviour keeps it.                                 *)
THEOREM CutoversAreBackedUp == Spec => CutoverIsBackedUp
<1>1. BInv /\ [Next]_vars =>
        [database # None /\ database' = None /\ "cutover overlapped" \notin excused
           => \E a \in drills : a.copy.db = database]_vars
  BY MovedAwayIsBackedUp
<1> QED
  BY <1>1, BInvHolds, PTL DEF Spec, CutoverIsBackedUp
=============================================================================
