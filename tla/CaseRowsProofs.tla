---------------------------- MODULE CaseRowsProofs ----------------------------
(***************************************************************************)
(* With a lock that does not lapse, the safety properties of a case hold   *)
(* for any number of ingests, compactions, readers and cleanups, of        *)
(* sources and contents, on two hosts, whichever processes die.            *)
(*                                                                         *)
(* First files, locks and sweeps (CaseCatalog): the argument is the        *)
(* inductive invariant CaseInv, one lemma per action, and in it one step   *)
(* per group of conjuncts.                                                 *)
(*                                                                         *)
(* Then rows (CaseRows): those of the catalog are exactly the imports of   *)
(* the ledger, none is there twice, and the case implements AtomicImports. *)
(* Most steps are quiet: they change no file that anybody is about to      *)
(* publish.  RowsInv is shown for those at once (QuietStep) and action by  *)
(* action for the others.                                                  *)
(*                                                                         *)
(* Last query connections and their streams (QuerySessions): nothing a     *)
(* stream reads is closed or deleted under it, and it reads the whole case.*)
(***************************************************************************)
EXTENDS CaseRows, QuerySessions, FiniteSetTheorems, TLAPS

(* Names of sets of actors and frames of variables are always expanded.    *)
USE ActorsAssumption
    DEF Txns, Actors, Holders, caseVars, fileVars, txnVars, leaseVars, sweepVars, Goto

-----------------------------------------------------------------------------
(* The rows of files are rows.                                             *)
LEMMA RowsInType ==
    ASSUME TypeOK, NEW files \in SUBSET File
    PROVE  RowsIn(files) \in SUBSET Row
BY DEF TypeOK, RowsIn

(* The entries a commit adds to the ledger are ledger entries.             *)
LEMMA EntriesType ==
    ASSUME TypeOK, NEW t \in Ingests
    PROVE  Entries(t) \in SUBSET Entry
<1>1. RowsIn(Output(t)) \in SUBSET Row
  BY RowsInType DEF TypeOK, Output
<1>2. \A r \in Row : r[2] \in Sources /\ r[3] \in Contents
  BY DEF Row
<1> QED BY <1>1, <1>2 DEF Entries, Entry

(* What a commit writes, told from case.json as it is: the copy it was     *)
(* computed from is not stale.                                             *)
LEMMA CommittedMetaFields ==
    ASSUME CaseInv, NEW t \in Ingests, pc[t] = "owned"
    PROVE  /\ CommittedMeta(t) \in Meta
           /\ CommittedMeta(t).catalog = meta.catalog \cup Output(t)
           /\ CommittedMeta(t).retired = meta.retired
           /\ CommittedMeta(t).source_ledger = meta.source_ledger \cup Entries(t)
           /\ CommittedMeta(t).runs = meta.runs \cup {t}
<1>1. seen[t] = meta /\ meta \in Meta
  BY DEF CaseInv, TypeOK, SeenInv, Critical
<1>2. Output(t) \in SUBSET File
  BY DEF CaseInv, TypeOK, Output
<1>3. Entries(t) \in SUBSET Entry
  BY EntriesType DEF CaseInv
<1> QED BY <1>1, <1>2, <1>3 DEF CommittedMeta, Meta

(* The same for a compaction, whose group is part of the catalog.          *)
LEMMA CompactedMetaFields ==
    ASSUME CaseInv, NEW t \in Compactions, pc[t] = "owned"
    PROVE  /\ CompactedMeta(t) \in Meta
           /\ CompactedMeta(t).catalog = (meta.catalog \ group[t]) \cup Output(t)
           /\ CompactedMeta(t).retired = meta.retired \cup group[t]
           /\ CompactedMeta(t).source_ledger = meta.source_ledger
           /\ CompactedMeta(t).runs = meta.runs \cup {t}
           /\ group[t] \subseteq meta.catalog
<1>1. seen[t] = meta /\ meta \in Meta
  BY DEF CaseInv, TypeOK, SeenInv, Critical
<1>2. Output(t) \in SUBSET File /\ group[t] \in SUBSET File
  BY DEF CaseInv, TypeOK, Output
<1>3. snap[t] = meta.catalog /\ group[t] \subseteq snap[t]
  BY <1>1 DEF CaseInv, SnapshotInv
<1> QED BY <1>1, <1>2, <1>3 DEF CompactedMeta, Meta

-----------------------------------------------------------------------------

(* Opening a transaction: a new workspace, no lock, no claim on anything. *)
LEMMA BeginStep ==
    ASSUME CaseInv, NEW t \in Ingests, Begin(t)
    PROVE  CaseInv'
<1>1. TypeOK'
  BY DEF CaseInv, TypeOK, Begin, Labels, Phases
<1>2. (LockInv /\ SeenInv)'
  BY DEF CaseInv, TypeOK, LockInv, SeenInv, Begin, Critical
<1>3. (WorkspaceInv /\ RunsInv /\ SweepInv)'
  BY DEF CaseInv, TypeOK, WorkspaceInv, RunsInv, SweepInv, SnapshotInv, Begin, Critical, Working
<1>4. (SnapshotInv /\ DoomedInv)'
  BY DEF CaseInv, SnapshotInv, DoomedInv, Begin, Critical, Alive
<1>5. (CatalogOnDisk /\ LeasedOnDisk)'
  BY DEF CaseInv, SweepInv, SnapshotInv, DoomedInv, CatalogOnDisk, LeasedOnDisk, Begin, Critical,
     Alive
<1>6. (CommittedNeverCleaned /\ NoWorkerBeneathCleanup /\ CleanedIsEmpty)'
  BY DEF CaseInv, CommittedNeverCleaned, NoWorkerBeneathCleanup, CleanedIsEmpty, Begin, Output,
     Working, Critical
<1> QED BY <1>1, <1>2, <1>3, <1>4, <1>5, <1>6 DEF CaseInv

(* A transaction takes its workspace; no cleanup can hold it, or it would not be free. *)
LEMMA EnterStep ==
    ASSUME CaseInv, NEW t \in Txns, Enter(t)
    PROVE  CaseInv'
<1>1. TypeOK'
  BY DEF CaseInv, TypeOK, Enter, Labels, Phases
<1>2. (LockInv /\ SeenInv)'
  BY DEF CaseInv, LockInv, SeenInv, Enter, Critical
<1>3. (WorkspaceInv /\ RunsInv /\ SweepInv)'
  BY DEF CaseInv, TypeOK, WorkspaceInv, RunsInv, SweepInv, SnapshotInv, Enter, Critical, Working
<1>4. (SnapshotInv /\ DoomedInv)'
  BY DEF CaseInv, SnapshotInv, DoomedInv, Enter, Critical, Alive
<1>5. (CatalogOnDisk /\ LeasedOnDisk)'
  BY DEF CaseInv, SweepInv, SnapshotInv, DoomedInv, CatalogOnDisk, LeasedOnDisk, Enter, Critical,
     Alive
<1>6. (CommittedNeverCleaned /\ NoWorkerBeneathCleanup /\ CleanedIsEmpty)'
  BY DEF CaseInv, CommittedNeverCleaned, NoWorkerBeneathCleanup, CleanedIsEmpty, Enter, Output,
     Working, Critical
<1> QED BY <1>1, <1>2, <1>3, <1>4, <1>5, <1>6 DEF CaseInv

(* A worker starts only where state.json says "running", so never under a cleanup. *)
LEMMA WorkerStartStep ==
    ASSUME CaseInv, NEW t \in Ingests, NEW s \in Sources, WorkerStart(t, s)
    PROVE  CaseInv'
<1>1. TypeOK'
  BY DEF CaseInv, TypeOK, WorkerStart, WorkerStates
<1>2. (LockInv /\ SeenInv)'
  BY DEF CaseInv, LockInv, SeenInv, WorkerStart, Critical
<1>3. (WorkspaceInv /\ RunsInv /\ SweepInv)'
  BY DEF CaseInv, WorkspaceInv, RunsInv, SweepInv, SnapshotInv, WorkerStart, Accepts, Critical,
     Working
<1>4. (SnapshotInv /\ DoomedInv)'
  BY DEF CaseInv, SnapshotInv, DoomedInv, WorkerStart, Accepts, Critical, Alive
<1>5. (CatalogOnDisk /\ LeasedOnDisk)'
  BY DEF CaseInv, SweepInv, SnapshotInv, DoomedInv, CatalogOnDisk, LeasedOnDisk, WorkerStart,
     Accepts, Critical, Alive
<1>6. (CommittedNeverCleaned /\ NoWorkerBeneathCleanup /\ CleanedIsEmpty)'
  BY DEF CaseInv, CommittedNeverCleaned, NoWorkerBeneathCleanup, CleanedIsEmpty, WorkerStart,
     Accepts, Output, Working, Critical
<1> QED BY <1>1, <1>2, <1>3, <1>4, <1>5, <1>6 DEF CaseInv

(* A worker writes one file into a workspace that no cleanup has emptied. *)
LEMMA WorkerStageStep ==
    ASSUME CaseInv, NEW t \in Ingests, NEW s \in Sources, WorkerStage(t, s)
    PROVE  CaseInv'
<1>1. TypeOK'
  <2>1. <<t, s>> \in File /\ {<<t, s, content[s]>>} \in SUBSET Row
  BY DEF CaseInv, TypeOK, File, Row
  <2>2. disk' \in SUBSET File /\ rows' \in [File -> SUBSET Row]
    BY <2>1 DEF CaseInv, TypeOK, WorkerStage
  <2>3. worker' \in [Ingests -> [Sources -> WorkerStates]]
  BY DEF CaseInv, TypeOK, WorkerStage, WorkerStates
  <2> QED BY <2>2, <2>3 DEF CaseInv, TypeOK, WorkerStage
<1>2. (LockInv /\ SeenInv)'
  BY DEF CaseInv, LockInv, SeenInv, WorkerStage
<1>3. (WorkspaceInv /\ RunsInv /\ SweepInv)'
  BY DEF CaseInv, WorkspaceInv, RunsInv, SweepInv, SnapshotInv, WorkerStage, Critical, Working
<1>4. (SnapshotInv /\ DoomedInv)'
  BY DEF CaseInv, SnapshotInv, DoomedInv, WorkerStage, Critical, Alive
<1>5. (CatalogOnDisk /\ LeasedOnDisk)'
  BY DEF CaseInv, SweepInv, SnapshotInv, DoomedInv, CatalogOnDisk, LeasedOnDisk, WorkerStage,
     Critical, Alive
<1>6. (CommittedNeverCleaned /\ NoWorkerBeneathCleanup /\ CleanedIsEmpty)'
  BY DEF CaseInv, CommittedNeverCleaned, NoWorkerBeneathCleanup, CleanedIsEmpty, WorkerStage,
     Output, Working, Critical
<1> QED BY <1>1, <1>2, <1>3, <1>4, <1>5, <1>6 DEF CaseInv

(* A worker gives its lease back. *)
LEMMA WorkerEndStep ==
    ASSUME CaseInv, NEW t \in Ingests, NEW s \in Sources, WorkerEnd(t, s)
    PROVE  CaseInv'
<1>1. TypeOK'
  <2>1. PICK state \in WorkerStates : worker' = [worker EXCEPT ![t][s] = state]
    BY DEF WorkerEnd, WorkerStates
  <2>2. worker' \in [Ingests -> [Sources -> WorkerStates]]
    BY <2>1 DEF CaseInv, TypeOK
  <2> QED BY <2>2 DEF CaseInv, TypeOK, WorkerEnd
<1>2. (LockInv /\ SeenInv)'
  BY DEF CaseInv, LockInv, SeenInv, WorkerEnd
<1>3. (WorkspaceInv /\ RunsInv /\ SweepInv)'
  BY DEF CaseInv, WorkspaceInv, RunsInv, SweepInv, SnapshotInv, WorkerEnd, Critical, Working
<1>4. (SnapshotInv /\ DoomedInv)'
  BY DEF CaseInv, SnapshotInv, DoomedInv, WorkerEnd, Critical, Alive
<1>5. (CatalogOnDisk /\ LeasedOnDisk)'
  BY DEF CaseInv, SweepInv, SnapshotInv, DoomedInv, CatalogOnDisk, LeasedOnDisk, WorkerEnd,
     Critical, Alive
<1>6. (CommittedNeverCleaned /\ NoWorkerBeneathCleanup /\ CleanedIsEmpty)'
  <2>1. (CommittedNeverCleaned /\ CleanedIsEmpty)'
    BY DEF CaseInv, CommittedNeverCleaned, CleanedIsEmpty, WorkerEnd, Output
  <2>2. NoWorkerBeneathCleanup'
    BY DEF CaseInv, TypeOK, NoWorkerBeneathCleanup, WorkerEnd
  <2> QED BY <2>1, <2>2
<1> QED BY <1>1, <1>2, <1>3, <1>4, <1>5, <1>6 DEF CaseInv

(* A dead worker is no longer at work. *)
LEMMA WorkerDiesStep ==
    ASSUME CaseInv, NEW t \in Ingests, NEW s \in Sources, WorkerDies(t, s)
    PROVE  CaseInv'
<1>1. TypeOK'
  BY DEF CaseInv, TypeOK, WorkerDies, WorkerStates
<1>2. (LockInv /\ SeenInv)'
  BY DEF CaseInv, LockInv, SeenInv, WorkerDies
<1>3. (WorkspaceInv /\ RunsInv /\ SweepInv)'
  BY DEF CaseInv, WorkspaceInv, RunsInv, SweepInv, SnapshotInv, WorkerDies, Critical, Working
<1>4. (SnapshotInv /\ DoomedInv)'
  BY DEF CaseInv, SnapshotInv, DoomedInv, WorkerDies, Critical, Alive
<1>5. (CatalogOnDisk /\ LeasedOnDisk)'
  BY DEF CaseInv, SweepInv, SnapshotInv, DoomedInv, CatalogOnDisk, LeasedOnDisk, WorkerDies,
     Critical, Alive
<1>6. (CommittedNeverCleaned /\ NoWorkerBeneathCleanup /\ CleanedIsEmpty)'
  BY DEF CaseInv, CommittedNeverCleaned, NoWorkerBeneathCleanup, CleanedIsEmpty, WorkerDies,
     Output, Working, Critical
<1> QED BY <1>1, <1>2, <1>3, <1>4, <1>5, <1>6 DEF CaseInv

(* The footer check changes nothing but the position of the transaction. *)
LEMMA ValidateStep ==
    ASSUME CaseInv, NEW t \in Ingests, Validate(t)
    PROVE  CaseInv'
<1>1. TypeOK'
  BY DEF CaseInv, TypeOK, Validate, Labels
<1>2. (LockInv /\ SeenInv)'
  BY DEF CaseInv, TypeOK, LockInv, SeenInv, Validate, Critical
<1>3. (WorkspaceInv /\ RunsInv /\ SweepInv)'
  BY DEF CaseInv, WorkspaceInv, RunsInv, SweepInv, SnapshotInv, Validate, Critical, Working
<1>4. (SnapshotInv /\ DoomedInv)'
  BY DEF CaseInv, SnapshotInv, DoomedInv, Validate, Critical, Alive
<1>5. (CatalogOnDisk /\ LeasedOnDisk)'
  BY DEF CaseInv, SweepInv, SnapshotInv, DoomedInv, CatalogOnDisk, LeasedOnDisk, Validate,
     Critical, Alive
<1>6. (CommittedNeverCleaned /\ NoWorkerBeneathCleanup /\ CleanedIsEmpty)'
  BY DEF CaseInv, CommittedNeverCleaned, NoWorkerBeneathCleanup, CleanedIsEmpty, Validate, Output,
     Working, Critical
<1> QED BY <1>1, <1>2, <1>3, <1>4, <1>5, <1>6 DEF CaseInv

(* A transaction takes the free lock and reads case.json. *)
LEMMA LockCaseStep ==
    ASSUME CaseInv, NEW t \in Txns, LockCase(t)
    PROVE  CaseInv'
<1>1. TypeOK'
  BY DEF CaseInv, TypeOK, LockCase, TakeCaseLock, Labels, WorkerStates
<1>2. (LockInv /\ SeenInv)'
  BY DEF CaseInv, TypeOK, LockInv, SeenInv, LockCase, TakeCaseLock, Critical
<1>3. (WorkspaceInv /\ RunsInv /\ SweepInv)'
  BY DEF CaseInv, WorkspaceInv, RunsInv, SweepInv, SnapshotInv, LockCase, TakeCaseLock, Critical,
     Working
<1>4. (SnapshotInv /\ DoomedInv)'
  BY DEF CaseInv, SnapshotInv, DoomedInv, LockCase, TakeCaseLock, Critical, Alive
<1>5. (CatalogOnDisk /\ LeasedOnDisk)'
  BY DEF CaseInv, SweepInv, SnapshotInv, DoomedInv, CatalogOnDisk, LeasedOnDisk, LockCase,
     TakeCaseLock, Critical, Alive
<1>6. (CommittedNeverCleaned /\ NoWorkerBeneathCleanup /\ CleanedIsEmpty)'
  BY DEF CaseInv, CommittedNeverCleaned, NoWorkerBeneathCleanup, CleanedIsEmpty, LockCase,
     TakeCaseLock, Output, Working, Critical
<1> QED BY <1>1, <1>2, <1>3, <1>4, <1>5, <1>6 DEF CaseInv

(* The checks under the lock change nothing. *)
LEMMA CheckCommitStep ==
    ASSUME CaseInv, NEW t \in Ingests, CheckCommit(t)
    PROVE  CaseInv'
<1>1. TypeOK'
  BY DEF CaseInv, TypeOK, CheckCommit, Labels, WorkerStates
<1>2. (LockInv /\ SeenInv)'
  BY DEF CaseInv, LockInv, SeenInv, CheckCommit, Critical
<1>3. (WorkspaceInv /\ RunsInv /\ SweepInv)'
  BY DEF CaseInv, WorkspaceInv, RunsInv, SweepInv, SnapshotInv, CheckCommit, Owned, Critical,
     Working
<1>4. (SnapshotInv /\ DoomedInv)'
  BY DEF CaseInv, SnapshotInv, DoomedInv, CheckCommit, Owned, Critical, Alive
<1>5. (CatalogOnDisk /\ LeasedOnDisk)'
  BY DEF CaseInv, SweepInv, SnapshotInv, DoomedInv, CatalogOnDisk, LeasedOnDisk, CheckCommit,
     Owned, Critical, Alive
<1>6. (CommittedNeverCleaned /\ NoWorkerBeneathCleanup /\ CleanedIsEmpty)'
  BY DEF CaseInv, CommittedNeverCleaned, NoWorkerBeneathCleanup, CleanedIsEmpty, CheckCommit,
     Owned, Output, Working, Critical
<1> QED BY <1>1, <1>2, <1>3, <1>4, <1>5, <1>6 DEF CaseInv

(* The commit of an ingest: its files become the catalog's, its id is recorded. *)
LEMMA PublishStep ==
    ASSUME CaseInv, NEW t \in Ingests, Publish(t)
    PROVE  CaseInv'
<1> DEFINE new == CommittedMeta(t)
<1>1. /\ new \in Meta
      /\ new.catalog = meta.catalog \cup Output(t)
      /\ new.retired = meta.retired
      /\ new.runs = meta.runs \cup {t}
  BY CommittedMetaFields DEF Publish
<1>2. meta' = new
  BY DEF Publish
<1> HIDE DEF new
<1>3. TypeOK'
  BY <1>1, <1>2 DEF CaseInv, TypeOK, Publish, Labels
<1>4. (LockInv /\ SeenInv)'
  BY DEF CaseInv, TypeOK, LockInv, SeenInv, Publish, Critical
<1>5. WorkspaceInv'
  BY DEF CaseInv, TypeOK, WorkspaceInv, Publish, Working
<1>6. RunsInv'
  <2>1. pc' = [pc EXCEPT ![t] = "published"] /\ t \in Actors /\ pc \in [Actors -> Labels]
    BY DEF CaseInv, TypeOK, Publish
  <2>2. meta'.runs = meta.runs \cup {t} /\ snap' = snap
    BY <1>1, <1>2 DEF Publish
  <2>3. \A u \in meta'.runs : pc'[u] \in {"published", "unlocked", "done", "failed", "dead"}
    BY <2>1, <2>2 DEF CaseInv, TypeOK, Meta, RunsInv
  <2>4. \A f \in Output(t) : f[1] = t
    BY DEF Output
  <2>5. \A f \in meta'.catalog \cup meta'.retired : f[1] \in meta'.runs
    BY <1>1, <1>2, <2>4 DEF CaseInv, RunsInv
  <2>6. \A h \in Holders : \A f \in snap'[h] : f[1] \in meta'.runs
    BY <2>2 DEF CaseInv, RunsInv
  <2> QED BY <2>3, <2>5, <2>6 DEF RunsInv
<1>7. SweepInv'
  BY <1>1, <1>2 DEF CaseInv, TypeOK, LockInv, SweepInv, Publish, Critical
<1>8. (SnapshotInv /\ DoomedInv)'
  BY <1>1, <1>2 DEF CaseInv, TypeOK, LockInv, SeenInv, SnapshotInv, DoomedInv, Publish, Critical, Alive
<1>9. (CatalogOnDisk /\ LeasedOnDisk)'
  BY <1>1, <1>2 DEF CaseInv, TypeOK, CatalogOnDisk, LeasedOnDisk, Publish, Output, Alive
<1>10. (CommittedNeverCleaned /\ NoWorkerBeneathCleanup /\ CleanedIsEmpty)'
  BY <1>1, <1>2 DEF CaseInv, TypeOK, WorkspaceInv, CommittedNeverCleaned, NoWorkerBeneathCleanup,
     CleanedIsEmpty, Publish, Output, Working
<1> QED BY <1>3, <1>4, <1>5, <1>6, <1>7, <1>8, <1>9, <1>10 DEF CaseInv

(* A transaction leaves the critical section with its id recorded. *)
LEMMA UnlockStep ==
    ASSUME CaseInv, NEW t \in Txns, Unlock(t)
    PROVE  CaseInv'
<1>1. TypeOK'
  BY DEF CaseInv, TypeOK, Unlock, FreeCaseLock, Labels, WorkerStates, EmptyMeta, Meta
<1>2. (LockInv /\ SeenInv)'
  BY DEF CaseInv, TypeOK, LockInv, SeenInv, Unlock, FreeCaseLock, Critical
<1>3. (WorkspaceInv /\ RunsInv /\ SweepInv)'
  BY DEF CaseInv, WorkspaceInv, RunsInv, SweepInv, SnapshotInv, Unlock, FreeCaseLock, Critical,
     Working
<1>4. (SnapshotInv /\ DoomedInv)'
  BY DEF CaseInv, SnapshotInv, DoomedInv, Unlock, FreeCaseLock, Critical, Alive
<1>5. (CatalogOnDisk /\ LeasedOnDisk)'
  BY DEF CaseInv, SweepInv, SnapshotInv, DoomedInv, CatalogOnDisk, LeasedOnDisk, Unlock,
     FreeCaseLock, Critical, Alive
<1>6. (CommittedNeverCleaned /\ NoWorkerBeneathCleanup /\ CleanedIsEmpty)'
  BY DEF CaseInv, CommittedNeverCleaned, NoWorkerBeneathCleanup, CleanedIsEmpty, Unlock,
     FreeCaseLock, Output, Working, Critical
<1> QED BY <1>1, <1>2, <1>3, <1>4, <1>5, <1>6 DEF CaseInv

(* A committed transaction frees its workspace; no sweep will touch it. *)
LEMMA FinishStep ==
    ASSUME CaseInv, NEW t \in Txns, Finish(t)
    PROVE  CaseInv'
<1>1. TypeOK'
  <2>1. phase' \in [Txns -> Phases]
    BY DEF CaseInv, TypeOK, Finish, Phases
  <2>2. pc' \in [Actors -> Labels] /\ wsLock' \in [Txns -> Actors \cup {NoOne}]
    BY DEF CaseInv, TypeOK, Finish, Labels
  <2>3. leased' \in SUBSET Holders
    BY DEF CaseInv, TypeOK, Finish
  <2> QED BY <2>1, <2>2, <2>3 DEF CaseInv, TypeOK, Finish
<1>2. (LockInv /\ SeenInv)'
  BY DEF CaseInv, TypeOK, LockInv, SeenInv, Finish, Critical
<1>3. (WorkspaceInv /\ RunsInv /\ SweepInv)'
  BY DEF CaseInv, TypeOK, WorkspaceInv, RunsInv, SweepInv, SnapshotInv, Finish, Critical, Working
<1>4. (SnapshotInv /\ DoomedInv)'
  BY DEF CaseInv, SnapshotInv, DoomedInv, Finish, Critical, Alive
<1>5. (CatalogOnDisk /\ LeasedOnDisk)'
  BY DEF CaseInv, SweepInv, SnapshotInv, DoomedInv, CatalogOnDisk, LeasedOnDisk, Finish, Critical,
     Alive
<1>6. (CommittedNeverCleaned /\ NoWorkerBeneathCleanup /\ CleanedIsEmpty)'
  BY DEF CaseInv, CommittedNeverCleaned, NoWorkerBeneathCleanup, CleanedIsEmpty, Finish, Output,
     Working, Critical
<1> QED BY <1>1, <1>2, <1>3, <1>4, <1>5, <1>6 DEF CaseInv

(* A failing transaction frees all it holds and was never recorded. *)
LEMMA FailStep ==
    ASSUME CaseInv, NEW t \in Txns, pc[t] \in Started \cup {"published"}, Fail(t)
    PROVE  CaseInv'
<1>1. TypeOK'
  <2>1. phase' \in [Txns -> Phases]
  BY DEF CaseInv, TypeOK, Fail, Phases
  <2>2. caseLock' \in Actors \cup {NoOne} /\ seen' \in [Actors -> Meta]
  BY DEF CaseInv, TypeOK, Fail, FreeCaseLock, EmptyMeta, Meta
  <2>3. pc' \in [Actors -> Labels]
  BY DEF CaseInv, TypeOK, Fail, Labels
  <2> QED BY <2>1, <2>2, <2>3 DEF CaseInv, TypeOK, Fail
<1>2. (LockInv /\ SeenInv)'
  BY DEF CaseInv, TypeOK, LockInv, SeenInv, Fail, FreeCaseLock, Critical
<1>3. (WorkspaceInv /\ RunsInv /\ SweepInv)'
  BY DEF CaseInv, TypeOK, LockInv, SeenInv, WorkspaceInv, RunsInv, SweepInv, SnapshotInv, Fail,
     Started, FreeCaseLock, Critical, Working
<1>4. (SnapshotInv /\ DoomedInv)'
  BY DEF CaseInv, TypeOK, SnapshotInv, DoomedInv, Fail, Started, FreeCaseLock, Critical, Alive
<1>5. (CatalogOnDisk /\ LeasedOnDisk)'
  BY DEF CaseInv, SweepInv, SnapshotInv, DoomedInv, CatalogOnDisk, LeasedOnDisk, Fail, Started,
     FreeCaseLock, Critical, Alive
<1>6. (CommittedNeverCleaned /\ NoWorkerBeneathCleanup /\ CleanedIsEmpty)'
  BY DEF CaseInv, CommittedNeverCleaned, NoWorkerBeneathCleanup, CleanedIsEmpty, Fail, Started,
     FreeCaseLock, Output, Working, Critical
<1> QED BY <1>1, <1>2, <1>3, <1>4, <1>5, <1>6 DEF CaseInv

(* A transaction that could not enter leaves an unclaimed workspace. *)
LEMMA EnterFailsStep ==
    ASSUME CaseInv, NEW t \in Txns, EnterFails(t)
    PROVE  CaseInv'
<1>1. TypeOK'
  BY DEF CaseInv, TypeOK, EnterFails, Labels
<1>2. (LockInv /\ SeenInv)'
  BY DEF CaseInv, TypeOK, LockInv, SeenInv, EnterFails, Critical
<1>3. (WorkspaceInv /\ RunsInv /\ SweepInv)'
  BY DEF CaseInv, WorkspaceInv, RunsInv, SweepInv, SnapshotInv, EnterFails, Critical, Working
<1>4. (SnapshotInv /\ DoomedInv)'
  BY DEF CaseInv, SnapshotInv, DoomedInv, EnterFails, Critical, Alive
<1>5. (CatalogOnDisk /\ LeasedOnDisk)'
  BY DEF CaseInv, SweepInv, SnapshotInv, DoomedInv, CatalogOnDisk, LeasedOnDisk, EnterFails,
     Critical, Alive
<1>6. (CommittedNeverCleaned /\ NoWorkerBeneathCleanup /\ CleanedIsEmpty)'
  BY DEF CaseInv, CommittedNeverCleaned, NoWorkerBeneathCleanup, CleanedIsEmpty, EnterFails,
     Output, Working, Critical
<1> QED BY <1>1, <1>2, <1>3, <1>4, <1>5, <1>6 DEF CaseInv

(* A holder takes the lock and copies the catalog. *)
LEMMA CaptureStep ==
    ASSUME CaseInv, NEW h \in Holders, Capture(h)
    PROVE  CaseInv'
<1>1. TypeOK'
  BY DEF CaseInv, TypeOK, Capture, TakeCaseLock, Labels, WorkerStates, Meta
<1>2. (LockInv /\ SeenInv)'
  BY DEF CaseInv, TypeOK, LockInv, SeenInv, Capture, TakeCaseLock, Critical
<1>3. (WorkspaceInv /\ RunsInv /\ SweepInv)'
  BY DEF CaseInv, WorkspaceInv, RunsInv, SweepInv, SnapshotInv, Capture, TakeCaseLock, Critical,
     Working
<1>4. (SnapshotInv /\ DoomedInv)'
  BY DEF CaseInv, TypeOK, SnapshotInv, DoomedInv, Capture, TakeCaseLock, Critical, Alive
<1>5. (CatalogOnDisk /\ LeasedOnDisk)'
  BY DEF CaseInv, SweepInv, SnapshotInv, DoomedInv, CatalogOnDisk, LeasedOnDisk, Capture,
     TakeCaseLock, Critical, Alive
<1>6. (CommittedNeverCleaned /\ NoWorkerBeneathCleanup /\ CleanedIsEmpty)'
  BY DEF CaseInv, CommittedNeverCleaned, NoWorkerBeneathCleanup, CleanedIsEmpty, Capture,
     TakeCaseLock, Output, Working, Critical
<1> QED BY <1>1, <1>2, <1>3, <1>4, <1>5, <1>6 DEF CaseInv

(* The snapshot leased is still the catalog, so its files exist. *)
LEMMA WriteLeaseStep ==
    ASSUME CaseInv, NEW h \in Holders, WriteLease(h)
    PROVE  CaseInv'
<1>1. TypeOK'
  BY DEF CaseInv, TypeOK, WriteLease, FreeCaseLock, Labels, WorkerStates, EmptyMeta, Meta
<1>2. (LockInv /\ SeenInv)'
  BY DEF CaseInv, TypeOK, LockInv, SeenInv, WriteLease, FreeCaseLock, Critical
<1>3. (WorkspaceInv /\ RunsInv /\ SweepInv)'
  BY DEF CaseInv, WorkspaceInv, RunsInv, SweepInv, SnapshotInv, WriteLease, FreeCaseLock,
     Critical, Working
<1>4. (SnapshotInv /\ DoomedInv)'
  BY DEF CaseInv, TypeOK, SeenInv, SnapshotInv, DoomedInv, WriteLease, FreeCaseLock, Critical, Alive
<1>5. (CatalogOnDisk /\ LeasedOnDisk)'
  BY DEF CaseInv, TypeOK, LockInv, SeenInv, RunsInv, SweepInv, SnapshotInv, DoomedInv,
     CatalogOnDisk, LeasedOnDisk, WriteLease, FreeCaseLock, Critical, Alive
<1>6. (CommittedNeverCleaned /\ NoWorkerBeneathCleanup /\ CleanedIsEmpty)'
  BY DEF CaseInv, CommittedNeverCleaned, NoWorkerBeneathCleanup, CleanedIsEmpty, WriteLease,
     FreeCaseLock, Output, Working, Critical
<1> QED BY <1>1, <1>2, <1>3, <1>4, <1>5, <1>6 DEF CaseInv

(* A failed capture leaves no lease. *)
LEMMA CaptureFailsStep ==
    ASSUME CaseInv, NEW h \in Holders, CaptureFails(h)
    PROVE  CaseInv'
<1>1. TypeOK'
  BY DEF CaseInv, TypeOK, CaptureFails, FreeCaseLock, Labels, WorkerStates, EmptyMeta, Meta
<1>2. (LockInv /\ SeenInv)'
  BY DEF CaseInv, TypeOK, LockInv, SeenInv, CaptureFails, FreeCaseLock, Critical
<1>3. (WorkspaceInv /\ RunsInv /\ SweepInv)'
  BY DEF CaseInv, WorkspaceInv, RunsInv, SweepInv, SnapshotInv, CaptureFails, FreeCaseLock,
     Critical, Working
<1>4. (SnapshotInv /\ DoomedInv)'
  BY DEF CaseInv, TypeOK, SnapshotInv, DoomedInv, CaptureFails, FreeCaseLock, Critical, Alive
<1>5. (CatalogOnDisk /\ LeasedOnDisk)'
  BY DEF CaseInv, SweepInv, SnapshotInv, DoomedInv, CatalogOnDisk, LeasedOnDisk, CaptureFails,
     FreeCaseLock, Critical, Alive
<1>6. (CommittedNeverCleaned /\ NoWorkerBeneathCleanup /\ CleanedIsEmpty)'
  BY DEF CaseInv, CommittedNeverCleaned, NoWorkerBeneathCleanup, CleanedIsEmpty, CaptureFails,
     FreeCaseLock, Output, Working, Critical
<1> QED BY <1>1, <1>2, <1>3, <1>4, <1>5, <1>6 DEF CaseInv

(* A closed connection has no lease to respect. *)
LEMMA CloseStep ==
    ASSUME CaseInv, NEW r \in Readers, Close(r)
    PROVE  CaseInv'
<1>1. TypeOK'
  BY DEF CaseInv, TypeOK, Close, Labels
<1>2. (LockInv /\ SeenInv)'
  BY DEF CaseInv, LockInv, SeenInv, Close, Critical
<1>3. (WorkspaceInv /\ RunsInv /\ SweepInv)'
  BY DEF CaseInv, WorkspaceInv, RunsInv, SweepInv, SnapshotInv, Close, Critical, Working
<1>4. (SnapshotInv /\ DoomedInv)'
  BY DEF CaseInv, SnapshotInv, DoomedInv, Close, Critical, Alive
<1>5. (CatalogOnDisk /\ LeasedOnDisk)'
  BY DEF CaseInv, SweepInv, SnapshotInv, DoomedInv, CatalogOnDisk, LeasedOnDisk, Close, Critical,
     Alive
<1>6. (CommittedNeverCleaned /\ NoWorkerBeneathCleanup /\ CleanedIsEmpty)'
  BY DEF CaseInv, CommittedNeverCleaned, NoWorkerBeneathCleanup, CleanedIsEmpty, Close, Output,
     Working, Critical
<1> QED BY <1>1, <1>2, <1>3, <1>4, <1>5, <1>6 DEF CaseInv

(* A compaction chooses files of the snapshot it leased. *)
LEMMA PlanStep ==
    ASSUME CaseInv, NEW t \in Compactions, Plan(t)
    PROVE  CaseInv'
<1>1. TypeOK'
  BY DEF CaseInv, TypeOK, Plan, Groups, Labels, Phases, WorkerStates
<1>2. (LockInv /\ SeenInv)'
  BY DEF CaseInv, LockInv, SeenInv, Plan, Critical
<1>3. (WorkspaceInv /\ RunsInv /\ SweepInv)'
  BY DEF CaseInv, TypeOK, WorkspaceInv, RunsInv, SweepInv, SnapshotInv, Plan, Groups, Critical,
     Working
<1>4. (SnapshotInv /\ DoomedInv)'
  BY DEF CaseInv, TypeOK, SnapshotInv, DoomedInv, Plan, Groups, Critical, Alive
<1>5. (CatalogOnDisk /\ LeasedOnDisk)'
  BY DEF CaseInv, SweepInv, SnapshotInv, DoomedInv, CatalogOnDisk, LeasedOnDisk, Plan, Groups,
     Critical, Alive
<1>6. (CommittedNeverCleaned /\ NoWorkerBeneathCleanup /\ CleanedIsEmpty)'
  BY DEF CaseInv, CommittedNeverCleaned, NoWorkerBeneathCleanup, CleanedIsEmpty, Plan, Groups,
     Output, Working, Critical
<1> QED BY <1>1, <1>2, <1>3, <1>4, <1>5, <1>6 DEF CaseInv

(* A compaction with nothing to do closes its connection. *)
LEMMA NothingToMergeStep ==
    ASSUME CaseInv, NEW t \in Compactions, NothingToMerge(t)
    PROVE  CaseInv'
<1>1. TypeOK'
  BY DEF CaseInv, TypeOK, NothingToMerge, Labels
<1>2. (LockInv /\ SeenInv)'
  BY DEF CaseInv, LockInv, SeenInv, NothingToMerge, Critical
<1>3. (WorkspaceInv /\ RunsInv /\ SweepInv)'
  BY DEF CaseInv, WorkspaceInv, RunsInv, SweepInv, SnapshotInv, NothingToMerge, Critical, Working
<1>4. (SnapshotInv /\ DoomedInv)'
  BY DEF CaseInv, SnapshotInv, DoomedInv, NothingToMerge, Critical, Alive
<1>5. (CatalogOnDisk /\ LeasedOnDisk)'
  BY DEF CaseInv, SweepInv, SnapshotInv, DoomedInv, CatalogOnDisk, LeasedOnDisk, NothingToMerge,
     Critical, Alive
<1>6. (CommittedNeverCleaned /\ NoWorkerBeneathCleanup /\ CleanedIsEmpty)'
  BY DEF CaseInv, CommittedNeverCleaned, NoWorkerBeneathCleanup, CleanedIsEmpty, NothingToMerge,
     Output, Working, Critical
<1> QED BY <1>1, <1>2, <1>3, <1>4, <1>5, <1>6 DEF CaseInv

(* The merged file goes into the workspace the compaction holds. *)
LEMMA WriteGroupStep ==
    ASSUME CaseInv, NEW t \in Compactions, WriteGroup(t)
    PROVE  CaseInv'
<1>1. TypeOK'
  <2>1. <<t, Merged>> \in File /\ RowsIn(group[t]) \in SUBSET Row
    BY RowsInType DEF CaseInv, TypeOK, File
  <2>2. disk' \in SUBSET File /\ rows' \in [File -> SUBSET Row]
    BY <2>1 DEF CaseInv, TypeOK, WriteGroup
  <2>3. pc' \in [Actors -> Labels]
  BY DEF CaseInv, TypeOK, WriteGroup, Labels
  <2> QED BY <2>2, <2>3 DEF CaseInv, TypeOK, WriteGroup
<1>2. (LockInv /\ SeenInv)'
  BY DEF CaseInv, LockInv, SeenInv, WriteGroup, Critical
<1>3. (WorkspaceInv /\ RunsInv /\ SweepInv)'
  BY DEF CaseInv, WorkspaceInv, RunsInv, SweepInv, SnapshotInv, WriteGroup, Critical, Working
<1>4. (SnapshotInv /\ DoomedInv)'
  BY DEF CaseInv, SnapshotInv, DoomedInv, WriteGroup, Critical, Alive
<1>5. (CatalogOnDisk /\ LeasedOnDisk)'
  BY DEF CaseInv, SweepInv, SnapshotInv, DoomedInv, CatalogOnDisk, LeasedOnDisk, WriteGroup,
     Critical, Alive
<1>6. (CommittedNeverCleaned /\ NoWorkerBeneathCleanup /\ CleanedIsEmpty)'
  BY DEF CaseInv, WorkspaceInv, CommittedNeverCleaned, NoWorkerBeneathCleanup, CleanedIsEmpty,
     WriteGroup, Output, Working, Critical
<1> QED BY <1>1, <1>2, <1>3, <1>4, <1>5, <1>6 DEF CaseInv

(* The checks of the merged file change nothing. *)
LEMMA ValidateMergedStep ==
    ASSUME CaseInv, NEW t \in Compactions, ValidateMerged(t)
    PROVE  CaseInv'
<1>1. TypeOK'
  BY DEF CaseInv, TypeOK, ValidateMerged, Labels
<1>2. (LockInv /\ SeenInv)'
  BY DEF CaseInv, LockInv, SeenInv, ValidateMerged, Critical
<1>3. (WorkspaceInv /\ RunsInv /\ SweepInv)'
  BY DEF CaseInv, WorkspaceInv, RunsInv, SweepInv, SnapshotInv, ValidateMerged, Critical, Working
<1>4. (SnapshotInv /\ DoomedInv)'
  BY DEF CaseInv, SnapshotInv, DoomedInv, ValidateMerged, Critical, Alive
<1>5. (CatalogOnDisk /\ LeasedOnDisk)'
  BY DEF CaseInv, SweepInv, SnapshotInv, DoomedInv, CatalogOnDisk, LeasedOnDisk, ValidateMerged,
     Critical, Alive
<1>6. (CommittedNeverCleaned /\ NoWorkerBeneathCleanup /\ CleanedIsEmpty)'
  BY DEF CaseInv, CommittedNeverCleaned, NoWorkerBeneathCleanup, CleanedIsEmpty, ValidateMerged,
     Output, Working, Critical
<1> QED BY <1>1, <1>2, <1>3, <1>4, <1>5, <1>6 DEF CaseInv

(* After the check the snapshot of the compaction is the catalog. *)
LEMMA CheckSnapshotStep ==
    ASSUME CaseInv, NEW t \in Compactions, CheckSnapshot(t)
    PROVE  CaseInv'
<1>1. TypeOK'
  BY DEF CaseInv, TypeOK, CheckSnapshot, Labels, WorkerStates
<1>2. (LockInv /\ SeenInv)'
  BY DEF CaseInv, LockInv, SeenInv, CheckSnapshot, Critical
<1>3. (WorkspaceInv /\ RunsInv /\ SweepInv)'
  BY DEF CaseInv, WorkspaceInv, RunsInv, SweepInv, SnapshotInv, CheckSnapshot, Owned, Critical,
     Working
<1>4. (SnapshotInv /\ DoomedInv)'
  BY DEF CaseInv, SnapshotInv, DoomedInv, CheckSnapshot, Owned, Critical, Alive
<1>5. (CatalogOnDisk /\ LeasedOnDisk)'
  BY DEF CaseInv, SweepInv, SnapshotInv, DoomedInv, CatalogOnDisk, LeasedOnDisk, CheckSnapshot,
     Owned, Critical, Alive
<1>6. (CommittedNeverCleaned /\ NoWorkerBeneathCleanup /\ CleanedIsEmpty)'
  BY DEF CaseInv, CommittedNeverCleaned, NoWorkerBeneathCleanup, CleanedIsEmpty, CheckSnapshot,
     Owned, Output, Working, Critical
<1> QED BY <1>1, <1>2, <1>3, <1>4, <1>5, <1>6 DEF CaseInv

(* The commit of a compaction: its group leaves the catalog for the retired files. *)
LEMMA PublishMergedStep ==
    ASSUME CaseInv, NEW t \in Compactions, PublishMerged(t)
    PROVE  CaseInv'
<1> DEFINE new == CompactedMeta(t)
<1>1. /\ new \in Meta
      /\ new.catalog = (meta.catalog \ group[t]) \cup Output(t)
      /\ new.retired = meta.retired \cup group[t]
      /\ new.runs = meta.runs \cup {t}
      /\ group[t] \subseteq meta.catalog
  BY CompactedMetaFields DEF PublishMerged
<1>2. meta' = new
  BY DEF PublishMerged
<1> HIDE DEF new
<1>3. TypeOK'
  BY <1>1, <1>2 DEF CaseInv, TypeOK, PublishMerged, Labels
<1>4. (LockInv /\ SeenInv)'
  BY DEF CaseInv, TypeOK, LockInv, SeenInv, PublishMerged, Critical
<1>5. WorkspaceInv'
  BY DEF CaseInv, TypeOK, WorkspaceInv, PublishMerged, Working
<1>6. RunsInv'
  BY <1>1, <1>2 DEF CaseInv, TypeOK, RunsInv, PublishMerged, Output
<1>7. SweepInv'
  BY <1>1, <1>2 DEF CaseInv, TypeOK, LockInv, SweepInv, PublishMerged, Critical
<1>8. (SnapshotInv /\ DoomedInv)'
  BY <1>1, <1>2 DEF CaseInv, TypeOK, LockInv, SeenInv, SnapshotInv, DoomedInv, PublishMerged, Critical, Alive
<1>9. (CatalogOnDisk /\ LeasedOnDisk)'
  BY <1>1, <1>2 DEF CaseInv, TypeOK, CatalogOnDisk, LeasedOnDisk, PublishMerged, Output, Alive
<1>10. (CommittedNeverCleaned /\ NoWorkerBeneathCleanup /\ CleanedIsEmpty)'
  BY <1>1, <1>2 DEF CaseInv, TypeOK, WorkspaceInv, CommittedNeverCleaned, NoWorkerBeneathCleanup,
     CleanedIsEmpty, PublishMerged, Output, Working
<1> QED BY <1>3, <1>4, <1>5, <1>6, <1>7, <1>8, <1>9, <1>10 DEF CaseInv

(* cleanup_retired takes the lock and reads case.json. *)
LEMMA RetireLockStep ==
    ASSUME CaseInv, NEW c \in Cleaners, RetireLock(c)
    PROVE  CaseInv'
<1>1. TypeOK'
  BY DEF CaseInv, TypeOK, RetireLock, TakeCaseLock, Labels, WorkerStates
<1>2. (LockInv /\ SeenInv)'
  BY DEF CaseInv, TypeOK, LockInv, SeenInv, RetireLock, TakeCaseLock, Critical
<1>3. (WorkspaceInv /\ RunsInv /\ SweepInv)'
  BY DEF CaseInv, WorkspaceInv, RunsInv, SweepInv, SnapshotInv, RetireLock, TakeCaseLock,
     Critical, Working
<1>4. (SnapshotInv /\ DoomedInv)'
  BY DEF CaseInv, SnapshotInv, DoomedInv, RetireLock, TakeCaseLock, Critical, Alive
<1>5. (CatalogOnDisk /\ LeasedOnDisk)'
  BY DEF CaseInv, SweepInv, SnapshotInv, DoomedInv, CatalogOnDisk, LeasedOnDisk, RetireLock,
     TakeCaseLock, Critical, Alive
<1>6. (CommittedNeverCleaned /\ NoWorkerBeneathCleanup /\ CleanedIsEmpty)'
  BY DEF CaseInv, CommittedNeverCleaned, NoWorkerBeneathCleanup, CleanedIsEmpty, RetireLock,
     TakeCaseLock, Output, Working, Critical
<1> QED BY <1>1, <1>2, <1>3, <1>4, <1>5, <1>6 DEF CaseInv

(* What is doomed is retired, not catalogued, and in no live snapshot. *)
LEMMA ReadLeasesStep ==
    ASSUME CaseInv, NEW c \in Cleaners, ReadLeases(c)
    PROVE  CaseInv'
<1>1. TypeOK'
  BY DEF CaseInv, TypeOK, ReadLeases, Labels, Phases, WorkerStates, Meta
<1>2. (LockInv /\ SeenInv)'
  BY DEF CaseInv, LockInv, SeenInv, ReadLeases, Protected, Critical
<1>3. (WorkspaceInv /\ RunsInv /\ SweepInv)'
  BY DEF CaseInv, WorkspaceInv, RunsInv, SweepInv, SnapshotInv, ReadLeases, Expired, Protected,
     Critical, Working
<1>4. (SnapshotInv /\ DoomedInv)'
  <2>1. SnapshotInv'
  BY DEF CaseInv, TypeOK, SnapshotInv, ReadLeases, Expired
  <2>2. SUFFICES ASSUME NEW d \in Cleaners, pc'[d] = "unlinking"
                 PROVE  /\ doomed'[d] \subseteq meta.retired
                        /\ doomed'[d] \cap meta.catalog = {}
                        /\ \A h \in leased' : Alive(h)' => doomed'[d] \cap snap[h] = {}
    BY <2>1 DEF DoomedInv, ReadLeases
  <2>3. CASE d = c
    <3>1. seen[c] = meta
      BY DEF CaseInv, SeenInv, ReadLeases, Critical
    <3>2. doomed'[d] = meta.retired \ (meta.catalog \cup Protected)
      BY <2>3, <3>1 DEF CaseInv, TypeOK, ReadLeases
    <3>3. \A h \in leased' : snap[h] \subseteq Protected
      BY DEF ReadLeases, Protected
    <3> QED BY <3>2, <3>3
  <2>4. CASE d # c
    <3>1. pc[d] = "unlinking" /\ pc[c] = "leases"
      BY <2>2, <2>4 DEF CaseInv, TypeOK, ReadLeases
    <3> QED BY <2>4, <3>1 DEF CaseInv, LockInv, Critical
  <2> QED BY <2>3, <2>4
<1>5. (CatalogOnDisk /\ LeasedOnDisk)'
  BY DEF CaseInv, SweepInv, SnapshotInv, DoomedInv, CatalogOnDisk, LeasedOnDisk, ReadLeases,
     Expired, Protected, Critical, Alive
<1>6. (CommittedNeverCleaned /\ NoWorkerBeneathCleanup /\ CleanedIsEmpty)'
  BY DEF CaseInv, CommittedNeverCleaned, NoWorkerBeneathCleanup, CleanedIsEmpty, ReadLeases,
     Expired, Protected, Output, Working, Critical
<1> QED BY <1>1, <1>2, <1>3, <1>4, <1>5, <1>6 DEF CaseInv

(* A lease of another host ends the call. *)
LEMMA KeepRetiredStep ==
    ASSUME CaseInv, NEW c \in Cleaners, KeepRetired(c)
    PROVE  CaseInv'
<1>1. TypeOK'
  BY DEF CaseInv, TypeOK, KeepRetired, FreeCaseLock, Labels, Phases, WorkerStates, EmptyMeta, Meta
<1>2. (LockInv /\ SeenInv)'
  BY DEF CaseInv, TypeOK, LockInv, SeenInv, KeepRetired, FreeCaseLock, Expired, Critical
<1>3. (WorkspaceInv /\ RunsInv /\ SweepInv)'
  BY DEF CaseInv, WorkspaceInv, RunsInv, SweepInv, SnapshotInv, KeepRetired, FreeCaseLock,
     Expired, Critical, Working
<1>4. (SnapshotInv /\ DoomedInv)'
  BY DEF CaseInv, TypeOK, SnapshotInv, DoomedInv, KeepRetired, FreeCaseLock, Expired, Critical,
     Alive
<1>5. (CatalogOnDisk /\ LeasedOnDisk)'
  BY DEF CaseInv, SweepInv, SnapshotInv, DoomedInv, CatalogOnDisk, LeasedOnDisk, KeepRetired,
     FreeCaseLock, Expired, Critical, Alive
<1>6. (CommittedNeverCleaned /\ NoWorkerBeneathCleanup /\ CleanedIsEmpty)'
  BY DEF CaseInv, CommittedNeverCleaned, NoWorkerBeneathCleanup, CleanedIsEmpty, KeepRetired,
     FreeCaseLock, Expired, Output, Working, Critical
<1> QED BY <1>1, <1>2, <1>3, <1>4, <1>5, <1>6 DEF CaseInv

(* Unlinking a doomed file touches neither the catalog nor a live snapshot. *)
LEMMA UnlinkRetiredStep ==
    ASSUME CaseInv, NEW c \in Cleaners, UnlinkRetired(c)
    PROVE  CaseInv'
<1>1. TypeOK'
  BY DEF CaseInv, TypeOK, UnlinkRetired
<1>2. (LockInv /\ SeenInv)'
  BY DEF CaseInv, LockInv, SeenInv, UnlinkRetired
<1>3. (WorkspaceInv /\ RunsInv /\ SweepInv)'
  BY DEF CaseInv, WorkspaceInv, RunsInv, SweepInv, SnapshotInv, UnlinkRetired, Critical, Working
<1>4. (SnapshotInv /\ DoomedInv)'
  BY DEF CaseInv, SnapshotInv, DoomedInv, UnlinkRetired, Critical, Alive
<1>5. (CatalogOnDisk /\ LeasedOnDisk)'
  BY DEF CaseInv, SweepInv, SnapshotInv, DoomedInv, CatalogOnDisk, LeasedOnDisk, UnlinkRetired,
     Critical, Alive
<1>6. (CommittedNeverCleaned /\ NoWorkerBeneathCleanup /\ CleanedIsEmpty)'
  BY DEF CaseInv, CommittedNeverCleaned, NoWorkerBeneathCleanup, CleanedIsEmpty, UnlinkRetired,
     Output, Working, Critical
<1> QED BY <1>1, <1>2, <1>3, <1>4, <1>5, <1>6 DEF CaseInv

(* assert_owned changes nothing. *)
LEMMA CheckRetiredStep ==
    ASSUME CaseInv, NEW c \in Cleaners, CheckRetired(c)
    PROVE  CaseInv'
<1>1. TypeOK'
  BY DEF CaseInv, TypeOK, CheckRetired, Labels, WorkerStates
<1>2. (LockInv /\ SeenInv)'
  BY DEF CaseInv, LockInv, SeenInv, CheckRetired, Critical
<1>3. (WorkspaceInv /\ RunsInv /\ SweepInv)'
  BY DEF CaseInv, WorkspaceInv, RunsInv, SweepInv, SnapshotInv, CheckRetired, Owned, Critical,
     Working
<1>4. (SnapshotInv /\ DoomedInv)'
  BY DEF CaseInv, SnapshotInv, DoomedInv, CheckRetired, Owned, Critical, Alive
<1>5. (CatalogOnDisk /\ LeasedOnDisk)'
  BY DEF CaseInv, SweepInv, SnapshotInv, DoomedInv, CatalogOnDisk, LeasedOnDisk, CheckRetired,
     Owned, Critical, Alive
<1>6. (CommittedNeverCleaned /\ NoWorkerBeneathCleanup /\ CleanedIsEmpty)'
  BY DEF CaseInv, CommittedNeverCleaned, NoWorkerBeneathCleanup, CleanedIsEmpty, CheckRetired,
     Owned, Output, Working, Critical
<1> QED BY <1>1, <1>2, <1>3, <1>4, <1>5, <1>6 DEF CaseInv

(* Forgetting retired files leaves the catalog and the runs alone. *)
LEMMA ForgetRetiredStep ==
    ASSUME CaseInv, NEW c \in Cleaners, ForgetRetired(c)
    PROVE  CaseInv'
<1>1. TypeOK'
  BY DEF CaseInv, TypeOK, ForgetRetired, Labels, Phases, WorkerStates, Meta
<1>2. (LockInv /\ SeenInv)'
  BY DEF CaseInv, TypeOK, LockInv, SeenInv, ForgetRetired, Critical
<1>3. (WorkspaceInv /\ RunsInv /\ SweepInv)'
  BY DEF CaseInv, SeenInv, WorkspaceInv, RunsInv, SweepInv, SnapshotInv, ForgetRetired, Critical,
     Working, Meta
<1>4. (SnapshotInv /\ DoomedInv)'
  BY DEF CaseInv, LockInv, SnapshotInv, DoomedInv, ForgetRetired, Critical, Alive, Meta
<1>5. (CatalogOnDisk /\ LeasedOnDisk)'
  BY DEF CaseInv, SeenInv, SweepInv, SnapshotInv, DoomedInv, CatalogOnDisk, LeasedOnDisk,
     ForgetRetired, Critical, Alive, Meta
<1>6. (CommittedNeverCleaned /\ NoWorkerBeneathCleanup /\ CleanedIsEmpty)'
  BY DEF CaseInv, CommittedNeverCleaned, NoWorkerBeneathCleanup, CleanedIsEmpty, ForgetRetired,
     Output, Working, Critical, SeenInv, Meta
<1> QED BY <1>1, <1>2, <1>3, <1>4, <1>5, <1>6 DEF CaseInv

(* A sweep lists only workspaces that case.json does not record. *)
LEMMA SweepLockStep ==
    ASSUME CaseInv, NEW c \in Cleaners, SweepLock(c)
    PROVE  CaseInv'
<1>1. TypeOK'
  BY DEF CaseInv, TypeOK, SweepLock, TakeCaseLock, Uncommitted, Labels, Phases, WorkerStates
<1>2. (LockInv /\ SeenInv)'
  BY DEF CaseInv, TypeOK, LockInv, SeenInv, SweepLock, TakeCaseLock, Uncommitted, Critical
<1>3. (WorkspaceInv /\ RunsInv /\ SweepInv)'
  BY DEF CaseInv, TypeOK, WorkspaceInv, RunsInv, SweepInv, SnapshotInv, SweepLock, TakeCaseLock,
     Uncommitted, Critical, Working
<1>4. (SnapshotInv /\ DoomedInv)'
  BY DEF CaseInv, SnapshotInv, DoomedInv, SweepLock, TakeCaseLock, Uncommitted, Critical, Alive
<1>5. (CatalogOnDisk /\ LeasedOnDisk)'
  BY DEF CaseInv, SweepInv, SnapshotInv, DoomedInv, CatalogOnDisk, LeasedOnDisk, SweepLock,
     TakeCaseLock, Uncommitted, Critical, Alive
<1>6. (CommittedNeverCleaned /\ NoWorkerBeneathCleanup /\ CleanedIsEmpty)'
  BY DEF CaseInv, CommittedNeverCleaned, NoWorkerBeneathCleanup, CleanedIsEmpty, SweepLock,
     TakeCaseLock, Uncommitted, Output, Working, Critical
<1> QED BY <1>1, <1>2, <1>3, <1>4, <1>5, <1>6 DEF CaseInv

(* A workspace left alone. *)
LEMMA PassOverStep ==
    ASSUME CaseInv, NEW c \in Cleaners, PassOver(c)
    PROVE  CaseInv'
<1>1. TypeOK'
  BY DEF CaseInv, TypeOK, PassOver
<1>2. (LockInv /\ SeenInv)'
  BY DEF CaseInv, LockInv, SeenInv, PassOver
<1>3. (WorkspaceInv /\ RunsInv /\ SweepInv)'
  BY DEF CaseInv, WorkspaceInv, RunsInv, SweepInv, SnapshotInv, PassOver, Critical, Working
<1>4. (SnapshotInv /\ DoomedInv)'
  BY DEF CaseInv, SnapshotInv, DoomedInv, PassOver, Critical, Alive
<1>5. (CatalogOnDisk /\ LeasedOnDisk)'
  BY DEF CaseInv, SweepInv, SnapshotInv, DoomedInv, CatalogOnDisk, LeasedOnDisk, PassOver,
     Critical, Alive
<1>6. (CommittedNeverCleaned /\ NoWorkerBeneathCleanup /\ CleanedIsEmpty)'
  BY DEF CaseInv, CommittedNeverCleaned, NoWorkerBeneathCleanup, CleanedIsEmpty, PassOver, Output,
     Working, Critical
<1> QED BY <1>1, <1>2, <1>3, <1>4, <1>5, <1>6 DEF CaseInv

(* A sweep claims a free, inactive workspace that is not committed. *)
LEMMA ClaimStep ==
    ASSUME CaseInv, NEW c \in Cleaners, Claim(c)
    PROVE  CaseInv'
<1>1. TypeOK'
  BY DEF CaseInv, TypeOK, Claim, Labels, Phases, WorkerStates
<1>2. (LockInv /\ SeenInv)'
  BY DEF CaseInv, LockInv, SeenInv, Claim, Critical
<1>3. (WorkspaceInv /\ RunsInv /\ SweepInv)'
  BY DEF CaseInv, TypeOK, WorkspaceInv, RunsInv, SweepInv, SnapshotInv, Claim, Removable,
     Critical, Working
<1>4. (SnapshotInv /\ DoomedInv)'
  BY DEF CaseInv, SnapshotInv, DoomedInv, Claim, Removable, Critical, Alive
<1>5. (CatalogOnDisk /\ LeasedOnDisk)'
  BY DEF CaseInv, SweepInv, SnapshotInv, DoomedInv, CatalogOnDisk, LeasedOnDisk, Claim, Removable,
     Critical, Alive
<1>6. (CommittedNeverCleaned /\ NoWorkerBeneathCleanup /\ CleanedIsEmpty)'
  BY DEF CaseInv, SweepInv, CommittedNeverCleaned, NoWorkerBeneathCleanup, CleanedIsEmpty, Claim,
     Removable, Output, Working, Critical, ActiveWorkers
<1> QED BY <1>1, <1>2, <1>3, <1>4, <1>5, <1>6 DEF CaseInv

(* A file of a claimed workspace is in no catalog and in no snapshot. *)
LEMMA DeleteOutputStep ==
    ASSUME CaseInv, NEW c \in Cleaners, DeleteOutput(c)
    PROVE  CaseInv'
<1>1. TypeOK'
  BY DEF CaseInv, TypeOK, DeleteOutput, WorkerStates
<1>2. (LockInv /\ SeenInv)'
  BY DEF CaseInv, LockInv, SeenInv, DeleteOutput, Critical
<1>3. (WorkspaceInv /\ RunsInv /\ SweepInv)'
  BY DEF CaseInv, WorkspaceInv, RunsInv, SweepInv, SnapshotInv, DeleteOutput, Output, Critical,
     Working
<1>4. (SnapshotInv /\ DoomedInv)'
  BY DEF CaseInv, SnapshotInv, DoomedInv, DeleteOutput, Output, Critical, Alive
<1>5. (CatalogOnDisk /\ LeasedOnDisk)'
  BY DEF CaseInv, TypeOK, RunsInv, SweepInv, SnapshotInv, DoomedInv, CatalogOnDisk, LeasedOnDisk,
     DeleteOutput, Output, Critical, Alive
<1>6. (CommittedNeverCleaned /\ NoWorkerBeneathCleanup /\ CleanedIsEmpty)'
  BY DEF CaseInv, CommittedNeverCleaned, NoWorkerBeneathCleanup, CleanedIsEmpty, DeleteOutput,
     Output, Working, Critical
<1> QED BY <1>1, <1>2, <1>3, <1>4, <1>5, <1>6 DEF CaseInv

(* A workspace is marked when nothing is left in it. *)
LEMMA MarkCleanedStep ==
    ASSUME CaseInv, NEW c \in Cleaners, MarkCleaned(c)
    PROVE  CaseInv'
<1>1. TypeOK'
  BY DEF CaseInv, TypeOK, MarkCleaned, Labels, Phases, WorkerStates
<1>2. (LockInv /\ SeenInv)'
  BY DEF CaseInv, LockInv, SeenInv, MarkCleaned, Critical
<1>3. (WorkspaceInv /\ RunsInv /\ SweepInv)'
  BY DEF CaseInv, TypeOK, WorkspaceInv, RunsInv, SweepInv, SnapshotInv, MarkCleaned, Critical,
     Working
<1>4. (SnapshotInv /\ DoomedInv)'
  BY DEF CaseInv, SnapshotInv, DoomedInv, MarkCleaned, Critical, Alive
<1>5. (CatalogOnDisk /\ LeasedOnDisk)'
  BY DEF CaseInv, SweepInv, SnapshotInv, DoomedInv, CatalogOnDisk, LeasedOnDisk, MarkCleaned,
     Critical, Alive
<1>6. (CommittedNeverCleaned /\ NoWorkerBeneathCleanup /\ CleanedIsEmpty)'
  BY DEF CaseInv, WorkspaceInv, CommittedNeverCleaned, NoWorkerBeneathCleanup, CleanedIsEmpty,
     MarkCleaned, Output, Working, Critical
<1> QED BY <1>1, <1>2, <1>3, <1>4, <1>5, <1>6 DEF CaseInv

(* The end of a sweep. *)
LEMMA SweepDoneStep ==
    ASSUME CaseInv, NEW c \in Cleaners, SweepDone(c)
    PROVE  CaseInv'
<1>1. TypeOK'
  BY DEF CaseInv, TypeOK, SweepDone, Labels
<1>2. (LockInv /\ SeenInv)'
  BY DEF CaseInv, LockInv, SeenInv, SweepDone, Critical
<1>3. (WorkspaceInv /\ RunsInv /\ SweepInv)'
  BY DEF CaseInv, WorkspaceInv, RunsInv, SweepInv, SnapshotInv, SweepDone, Critical, Working
<1>4. (SnapshotInv /\ DoomedInv)'
  BY DEF CaseInv, SnapshotInv, DoomedInv, SweepDone, Critical, Alive
<1>5. (CatalogOnDisk /\ LeasedOnDisk)'
  BY DEF CaseInv, SweepInv, SnapshotInv, DoomedInv, CatalogOnDisk, LeasedOnDisk, SweepDone,
     Critical, Alive
<1>6. (CommittedNeverCleaned /\ NoWorkerBeneathCleanup /\ CleanedIsEmpty)'
  BY DEF CaseInv, CommittedNeverCleaned, NoWorkerBeneathCleanup, CleanedIsEmpty, SweepDone,
     Output, Working, Critical
<1> QED BY <1>1, <1>2, <1>3, <1>4, <1>5, <1>6 DEF CaseInv

(* A cleanup lets the lock of the case go. *)
LEMMA LeaveStep ==
    ASSUME CaseInv, NEW c \in Cleaners, Leave(c)
    PROVE  CaseInv'
<1>1. TypeOK'
  BY DEF CaseInv, TypeOK, Leave, FreeCaseLock, Labels, WorkerStates, EmptyMeta, Meta
<1>2. (LockInv /\ SeenInv)'
  BY DEF CaseInv, TypeOK, LockInv, SeenInv, Leave, FreeCaseLock, Critical
<1>3. (WorkspaceInv /\ RunsInv /\ SweepInv)'
  BY DEF CaseInv, WorkspaceInv, RunsInv, SweepInv, SnapshotInv, Leave, FreeCaseLock, Critical,
     Working
<1>4. (SnapshotInv /\ DoomedInv)'
  BY DEF CaseInv, TypeOK, SnapshotInv, DoomedInv, Leave, FreeCaseLock, Critical, Alive
<1>5. (CatalogOnDisk /\ LeasedOnDisk)'
  BY DEF CaseInv, SweepInv, SnapshotInv, DoomedInv, CatalogOnDisk, LeasedOnDisk, Leave,
     FreeCaseLock, Critical, Alive
<1>6. (CommittedNeverCleaned /\ NoWorkerBeneathCleanup /\ CleanedIsEmpty)'
  BY DEF CaseInv, CommittedNeverCleaned, NoWorkerBeneathCleanup, CleanedIsEmpty, Leave,
     FreeCaseLock, Output, Working, Critical
<1> QED BY <1>1, <1>2, <1>3, <1>4, <1>5, <1>6 DEF CaseInv

(* An error frees all a cleanup holds. *)
LEMMA CleanerRaisesStep ==
    ASSUME CaseInv, NEW c \in Cleaners, CleanerRaises(c)
    PROVE  CaseInv'
<1>1. TypeOK'
  BY DEF CaseInv, TypeOK, CleanerRaises, DropLocks, FreeCaseLock, Labels, Phases, WorkerStates,
     EmptyMeta, Meta
<1>2. (LockInv /\ SeenInv)'
  BY DEF CaseInv, TypeOK, LockInv, SeenInv, CleanerRaises, DropLocks, FreeCaseLock, Critical
<1>3. (WorkspaceInv /\ RunsInv /\ SweepInv)'
  <2>1. WorkspaceInv'
  BY DEF CaseInv, TypeOK, WorkspaceInv, CleanerRaises, DropLocks, FreeCaseLock, Working
  <2>2. RunsInv'
  BY DEF CaseInv, TypeOK, RunsInv, CleanerRaises
  <2>3. SweepInv'
  BY DEF CaseInv, TypeOK, SweepInv, CleanerRaises, DropLocks
  <2> QED BY <2>1, <2>2, <2>3
<1>4. (SnapshotInv /\ DoomedInv)'
  BY DEF CaseInv, TypeOK, SnapshotInv, DoomedInv, CleanerRaises, DropLocks, FreeCaseLock,
     Critical, Alive
<1>5. (CatalogOnDisk /\ LeasedOnDisk)'
  BY DEF CaseInv, SweepInv, SnapshotInv, DoomedInv, CatalogOnDisk, LeasedOnDisk, CleanerRaises,
     DropLocks, FreeCaseLock, Critical, Alive
<1>6. (CommittedNeverCleaned /\ NoWorkerBeneathCleanup /\ CleanedIsEmpty)'
  BY DEF CaseInv, CommittedNeverCleaned, NoWorkerBeneathCleanup, CleanedIsEmpty, CleanerRaises,
     DropLocks, FreeCaseLock, Output, Working, Critical
<1> QED BY <1>1, <1>2, <1>3, <1>4, <1>5, <1>6 DEF CaseInv

(* A process that dies keeps no lock and no claim. *)
LEMMA DiesStep ==
    ASSUME CaseInv, NEW a \in Actors, Dies(a)
    PROVE  CaseInv'
<1>1. TypeOK'
  BY DEF CaseInv, TypeOK, Dies, DropLocks, FreeCaseLock, Labels, Phases, WorkerStates, EmptyMeta,
     Meta
<1>2. (LockInv /\ SeenInv)'
  BY DEF CaseInv, TypeOK, LockInv, SeenInv, Dies, DropLocks, FreeCaseLock, Critical
<1>3. (WorkspaceInv /\ RunsInv /\ SweepInv)'
  BY DEF CaseInv, TypeOK, WorkspaceInv, RunsInv, SweepInv, SnapshotInv, Dies, DropLocks,
     FreeCaseLock, Critical, Working
<1>4. (SnapshotInv /\ DoomedInv)'
  BY DEF CaseInv, TypeOK, SnapshotInv, DoomedInv, Dies, DropLocks, FreeCaseLock, Critical, Alive
<1>5. (CatalogOnDisk /\ LeasedOnDisk)'
  BY DEF CaseInv, SweepInv, SnapshotInv, DoomedInv, CatalogOnDisk, LeasedOnDisk, Dies, DropLocks,
     FreeCaseLock, Critical, Alive
<1>6. (CommittedNeverCleaned /\ NoWorkerBeneathCleanup /\ CleanedIsEmpty)'
  BY DEF CaseInv, CommittedNeverCleaned, NoWorkerBeneathCleanup, CleanedIsEmpty, Dies, DropLocks,
     FreeCaseLock, Output, Working, Critical
<1> QED BY <1>1, <1>2, <1>3, <1>4, <1>5, <1>6 DEF CaseInv

(* The evidence is not part of the case. *)
LEMMA EvidenceChangesStep ==
    ASSUME CaseInv, NEW s \in Sources, EvidenceChanges(s)
    PROVE  CaseInv'
<1>1. TypeOK'
  BY DEF CaseInv, TypeOK, EvidenceChanges
<1>2. (LockInv /\ SeenInv)'
  BY DEF CaseInv, LockInv, SeenInv, EvidenceChanges
<1>3. (WorkspaceInv /\ RunsInv /\ SweepInv)'
  BY DEF CaseInv, WorkspaceInv, RunsInv, SweepInv, SnapshotInv, EvidenceChanges, Critical, Working
<1>4. (SnapshotInv /\ DoomedInv)'
  BY DEF CaseInv, SnapshotInv, DoomedInv, EvidenceChanges, Critical, Alive
<1>5. (CatalogOnDisk /\ LeasedOnDisk)'
  BY DEF CaseInv, SweepInv, SnapshotInv, DoomedInv, CatalogOnDisk, LeasedOnDisk, EvidenceChanges,
     Critical, Alive
<1>6. (CommittedNeverCleaned /\ NoWorkerBeneathCleanup /\ CleanedIsEmpty)'
  BY DEF CaseInv, CommittedNeverCleaned, NoWorkerBeneathCleanup, CleanedIsEmpty, EvidenceChanges,
     Output, Working, Critical
<1> QED BY <1>1, <1>2, <1>3, <1>4, <1>5, <1>6 DEF CaseInv

-----------------------------------------------------------------------------
(* The invariant holds in an empty case.                                   *)
LEMMA InitInv == Init => CaseInv
<1> SUFFICES ASSUME Init PROVE CaseInv
  OBVIOUS
<1>1. TypeOK
  BY DEF Init, TypeOK, EmptyMeta, Meta, Labels, Phases, WorkerStates
<1>2. LockInv /\ SeenInv /\ WorkspaceInv /\ RunsInv /\ SweepInv /\ SnapshotInv /\ DoomedInv
  BY DEF Init, EmptyMeta, LockInv, SeenInv, WorkspaceInv, RunsInv, SweepInv, SnapshotInv, DoomedInv,
     Critical, Working
<1>3. CatalogOnDisk /\ LeasedOnDisk /\ CommittedNeverCleaned /\ NoWorkerBeneathCleanup /\ CleanedIsEmpty
  BY DEF Init, EmptyMeta, CatalogOnDisk, LeasedOnDisk, CommittedNeverCleaned, NoWorkerBeneathCleanup,
     CleanedIsEmpty
<1> QED BY <1>1, <1>2, <1>3 DEF CaseInv

(* A step that ingests and compactions share.                              *)
LEMMA TxnStepInv ==
    ASSUME CaseInv, NEW t \in Txns, TxnStep(t) \/ Abort(t) \/ PublishRaises(t) \/ EnterFails(t)
    PROVE  CaseInv'
<1>1. MustFail(t) => pc[t] \in Started
  BY DEF MustFail, Started
<1> QED BY <1>1, EnterStep, LockCaseStep, FailStep, UnlockStep, FinishStep, EnterFailsStep
        DEF TxnStep, GiveUp, Abort, PublishRaises

(* A step of a compaction.                                                *)
LEMMA CompactionStepInv ==
    ASSUME CaseInv, NEW t \in Compactions, CompactionStep(t)
    PROVE  CaseInv'
<1>1. MustStop(t) => pc[t] \in Started
  BY DEF MustStop, Started
<1> QED BY <1>1, TxnStepInv, WriteLeaseStep, PlanStep, NothingToMergeStep, WriteGroupStep,
           ValidateMergedStep, CheckSnapshotStep, PublishMergedStep, FailStep
        DEF CompactionStep, StopMerging

(* A step of either cleanup.                                               *)
LEMMA CleanerStepInv ==
    ASSUME CaseInv, NEW c \in Cleaners,
           SweepStep(c) \/ RetireLock(c) \/ RetireStep(c) \/ CleanerRaises(c)
    PROVE  CaseInv'
BY SweepLockStep, PassOverStep, ClaimStep, DeleteOutputStep, MarkCleanedStep, SweepDoneStep,
   LeaveStep, RetireLockStep, ReadLeasesStep, KeepRetiredStep, UnlinkRetiredStep,
   CheckRetiredStep, ForgetRetiredStep, CleanerRaisesStep
   DEF SweepStep, RetireStep

(* A step that changes nothing.                                            *)
LEMMA StutterInv == CaseInv /\ UNCHANGED vars => CaseInv'
<1> SUFFICES ASSUME CaseInv, UNCHANGED vars PROVE CaseInv'
  OBVIOUS
<1>1. TypeOK' /\ LockInv' /\ SeenInv' /\ WorkspaceInv' /\ RunsInv' /\ SweepInv'
  BY DEF CaseInv, vars, TypeOK, LockInv, SeenInv, WorkspaceInv, RunsInv, SweepInv
<1>2. SnapshotInv' /\ DoomedInv' /\ CatalogOnDisk' /\ LeasedOnDisk'
  BY DEF CaseInv, vars, SnapshotInv, DoomedInv, CatalogOnDisk, LeasedOnDisk, Alive
<1>3. CommittedNeverCleaned' /\ NoWorkerBeneathCleanup' /\ CleanedIsEmpty'
  BY DEF CaseInv, vars, CommittedNeverCleaned, NoWorkerBeneathCleanup, CleanedIsEmpty, Output
<1> QED BY <1>1, <1>2, <1>3 DEF CaseInv

(* Every step keeps the invariant: without a lapse of the lock.            *)
LEMMA NextInv ==
    ASSUME Lapsing = {}
    PROVE  CaseInv /\ [Next]_vars => CaseInv'
<1> SUFFICES ASSUME CaseInv, [Next]_vars PROVE CaseInv'
  OBVIOUS
<1>1. ASSUME NEW t \in Ingests, Begin(t) \/ IngestStep(t) PROVE CaseInv'
  BY <1>1, BeginStep, TxnStepInv, ValidateStep, CheckCommitStep, PublishStep DEF IngestStep
<1>2. ASSUME NEW t \in Ingests, NEW s \in Sources, WorkerStep(t, s) \/ WorkerDies(t, s) PROVE CaseInv'
  BY <1>2, WorkerStartStep, WorkerStageStep, WorkerEndStep, WorkerDiesStep DEF WorkerStep
<1>3. ASSUME NEW t \in Compactions, Capture(t) \/ CaptureFails(t) \/ CompactionStep(t) PROVE CaseInv'
  BY <1>3, CaptureStep, CaptureFailsStep, CompactionStepInv
<1>4. ASSUME NEW t \in Txns, Abort(t) \/ PublishRaises(t) \/ EnterFails(t) PROVE CaseInv'
  BY <1>4, TxnStepInv
<1>5. ASSUME NEW r \in Readers, Capture(r) \/ WriteLease(r) \/ CaptureFails(r) \/ Close(r) PROVE CaseInv'
  BY <1>5, CaptureStep, WriteLeaseStep, CaptureFailsStep, CloseStep
<1>6. ASSUME NEW c \in Cleaners, SweepStep(c) \/ RetireLock(c) \/ RetireStep(c) \/ CleanerRaises(c)
      PROVE  CaseInv'
  BY <1>6, CleanerStepInv
<1>7. ASSUME NEW a \in Actors, Dies(a) PROVE CaseInv'
  BY <1>7, DiesStep
<1>8. ASSUME NEW s \in Sources, EvidenceChanges(s) PROVE CaseInv'
  BY <1>8, EvidenceChangesStep
<1>9. ~LockLapses
  BY DEF LockLapses
<1>10. CASE UNCHANGED vars
  BY <1>10, StutterInv
<1> QED BY <1>1, <1>2, <1>3, <1>4, <1>5, <1>6, <1>7, <1>8, <1>9, <1>10 DEF Next

-----------------------------------------------------------------------------
(* CaseInv is an invariant of the case under a lock that does not lapse.   *)
THEOREM CaseInvariance == ASSUME Lapsing = {} PROVE Spec => []CaseInv
<1>1. Init => CaseInv
  BY InitInv
<1>2. CaseInv /\ [Next]_vars => CaseInv'
  BY NextInv
<1> QED BY <1>1, <1>2, PTL DEF Spec

(* Every variable of the case keeps its type.                              *)
THEOREM TypeCorrectness == ASSUME Lapsing = {} PROVE Spec => []TypeOK
<1>1. CaseInv => TypeOK
  BY DEF CaseInv
<1> QED BY <1>1, CaseInvariance, PTL

(* Every file the committed catalog names exists, whatever commits,        *)
(* compactions, cleanups and deaths of processes interleave.               *)
THEOREM CatalogIsReadable == ASSUME Lapsing = {} PROVE Spec => []CatalogOnDisk
<1>1. CaseInv => CatalogOnDisk
  BY DEF CaseInv
<1> QED BY <1>1, CaseInvariance, PTL

(* The files of a leased snapshot exist until its connection is closed.    *)
THEOREM SnapshotsStayReadable == ASSUME Lapsing = {} PROVE Spec => []LeasedOnDisk
<1>1. CaseInv => LeasedOnDisk
  BY DEF CaseInv
<1> QED BY <1>1, CaseInvariance, PTL

(* The sweep of uncommitted output spares every committed workspace.       *)
THEOREM CleanupSparesCommitted == ASSUME Lapsing = {} PROVE Spec => []CommittedNeverCleaned
<1>1. CaseInv => CommittedNeverCleaned
  BY DEF CaseInv
<1> QED BY <1>1, CaseInvariance, PTL

(* No orphan of a dead ingest writes into a workspace under the sweep.     *)
THEOREM SweepsExcludeWorkers == ASSUME Lapsing = {} PROVE Spec => []NoWorkerBeneathCleanup
<1>1. CaseInv => NoWorkerBeneathCleanup
  BY DEF CaseInv
<1> QED BY <1>1, CaseInvariance, PTL

(* A workspace that was cleaned stays empty.                               *)
THEOREM NoOutputAfterCleanup == ASSUME Lapsing = {} PROVE Spec => []CleanedIsEmpty
<1>1. CaseInv => CleanedIsEmpty
  BY DEF CaseInv
<1> QED BY <1>1, CaseInvariance, PTL

-----------------------------------------------------------------------------
(* Files of a recorded transaction keep their rows: its workers have       *)
(* ended, and a compaction writes before it publishes.                     *)
Recorded(f) == f[1] \in meta.runs

(* A worker writes into the workspace of an ingest at work, which is not   *)
(* recorded.                                                               *)
LEMMA StageTouchesNoRecorded ==
    ASSUME CatalogInv, NEW t \in Ingests, NEW s \in Sources, WorkerStage(t, s)
    PROVE  /\ t \notin meta.runs
           /\ pc[t] \notin Validated
           /\ \A f \in File : Recorded(f) => rows'[f] = rows[f]
<1>1. t \notin meta.runs /\ pc[t] \notin Validated
  BY DEF CatalogInv, RowsInv, StagingInv, WorkerStage
<1>2. \A f \in File : f # <<t, s>> => rows'[f] = rows[f]
  BY DEF CatalogInv, CaseInv, TypeOK, WorkerStage
<1> QED BY <1>1, <1>2 DEF Recorded

(* Nor is a compaction that writes its merged file.                        *)
LEMMA WriteGroupTouchesNoRecorded ==
    ASSUME CatalogInv, NEW t \in Compactions, WriteGroup(t)
    PROVE  /\ t \notin meta.runs
           /\ \A f \in File : Recorded(f) => rows'[f] = rows[f]
<1>1. t \notin meta.runs
  BY DEF CatalogInv, CaseInv, RunsInv, WriteGroup
<1>2. \A f \in File : f # <<t, Merged>> => rows'[f] = rows[f]
  BY DEF CatalogInv, CaseInv, TypeOK, WriteGroup
<1> QED BY <1>1, <1>2 DEF Recorded

(* The files of the catalog and of the snapshots are recorded.             *)
LEMMA NamedFilesRecorded ==
    ASSUME CatalogInv
    PROVE  /\ meta.catalog \subseteq File /\ \A f \in meta.catalog : Recorded(f)
           /\ \A h \in Holders : snap[h] \subseteq File /\ \A f \in snap[h] : Recorded(f)
           /\ \A t \in Compactions : group[t] \subseteq File /\ \A f \in group[t] : Recorded(f)
<1>1. meta \in Meta /\ snap \in [Holders -> SUBSET File] /\ group \in [Compactions -> SUBSET File]
  BY DEF CatalogInv, CaseInv, TypeOK
<1>2. \A t \in Compactions : group[t] \subseteq snap[t]
  BY DEF CatalogInv, CaseInv, SnapshotInv
<1> QED BY <1>1, <1>2 DEF CatalogInv, CaseInv, RunsInv, Recorded, Meta

-----------------------------------------------------------------------------
(* A step that leaves alone case.json, the rows of files, the workers and  *)
(* whatever a transaction past its validation relies on.                   *)
Quiet ==
    /\ UNCHANGED <<meta, rows, scan, worker, group>>
    /\ disk' \subseteq disk
    /\ \A t \in Txns : pc'[t] \in Validated \cup {"merged"} => pc'[t] = pc[t]
    /\ \A t \in Txns : pc'[t] \in Validated => Output(t)' = Output(t)
    /\ \A t \in Txns : pc'[t] = "owned" => seen'[t] = seen[t]
    /\ \A t \in Ingests : phase'[t] \in {"none", "empty"} => phase[t] \in {"none", "empty"}
    /\ OpenInv'

(* A quiet step keeps what is known of rows and ledger.                    *)
LEMMA QuietStep ==
    ASSUME CatalogInv, Quiet
    PROVE  RowsInv'
<1>1. StagingInv'
  BY DEF CatalogInv, RowsInv, StagingInv, Quiet
<1>2. OutputInv'
  BY DEF CatalogInv, RowsInv, OutputInv, Quiet
<1>3. MergeInv'
  BY DEF CatalogInv, RowsInv, MergeInv, Quiet, RowsIn
<1>4. CheckedInv'
  <2> SUFFICES ASSUME NEW t \in Ingests, pc'[t] = "owned"
               PROVE  ~Duplicate(t)'
    BY DEF CheckedInv
  <2>1. pc[t] = "owned" /\ Output(t)' = Output(t) /\ seen'[t] = seen[t] /\ rows' = rows
    BY DEF Quiet, Validated
  <2>2. Entries(t)' = Entries(t)
    BY <2>1 DEF Entries, RowsIn
  <2> QED BY <2>1, <2>2 DEF CatalogInv, RowsInv, CheckedInv, Duplicate
<1>5. LedgerInv'
  BY DEF CatalogInv, RowsInv, LedgerInv, Quiet, CatalogMatchesLedger, OneImportPerContent, NoRowTwice, RowsIn
<1> QED BY <1>1, <1>2, <1>3, <1>4, <1>5 DEF RowsInv, Quiet

(* A transaction at work has validated nothing yet.                        *)
LEMMA EnterQuiet ==
    ASSUME CatalogInv, NEW t \in Txns, Enter(t)
    PROVE  Quiet
BY DEF Quiet, CatalogInv, CaseInv, TypeOK, RowsInv, OpenInv, Validated, Output,
       Enter

(* What was published is not published again.                              *)
LEMMA UnlockQuiet ==
    ASSUME CatalogInv, NEW t \in Txns, Unlock(t)
    PROVE  Quiet
BY DEF Quiet, CatalogInv, CaseInv, TypeOK, RowsInv, OpenInv, Validated, Output,
       Unlock, FreeCaseLock

(* The outcome is a record only.                                           *)
LEMMA FinishQuiet ==
    ASSUME CatalogInv, NEW t \in Txns, Finish(t)
    PROVE  Quiet
BY DEF Quiet, CatalogInv, CaseInv, TypeOK, RowsInv, OpenInv, Validated, Output,
       Finish

(* A failed transaction publishes nothing any more.                        *)
LEMMA FailQuiet ==
    ASSUME CatalogInv, NEW t \in Txns, pc[t] \in Started \cup {"published"}, Fail(t)
    PROVE  Quiet
BY DEF Quiet, CatalogInv, CaseInv, TypeOK, RowsInv, OpenInv, Validated, Output,
       Fail, FreeCaseLock, Started

(* The same for one that never entered its workspace.                      *)
LEMMA EnterFailsQuiet ==
    ASSUME CatalogInv, NEW t \in Txns, EnterFails(t)
    PROVE  Quiet
BY DEF Quiet, CatalogInv, CaseInv, TypeOK, RowsInv, OpenInv, Validated, Output,
       EnterFails

(* A snapshot is taken.                                                    *)
LEMMA CaptureQuiet ==
    ASSUME CatalogInv, NEW h \in Holders, Capture(h)
    PROVE  Quiet
BY DEF Quiet, CatalogInv, CaseInv, TypeOK, RowsInv, OpenInv, Validated, Output,
       Capture, TakeCaseLock

(* No snapshot, no connection.                                             *)
LEMMA CaptureFailsQuiet ==
    ASSUME CatalogInv, NEW h \in Holders, CaptureFails(h)
    PROVE  Quiet
BY DEF Quiet, CatalogInv, CaseInv, TypeOK, RowsInv, OpenInv, Validated, Output,
       CaptureFails, FreeCaseLock

(* A connection closes before its lease goes.                              *)
LEMMA CloseQuiet ==
    ASSUME CatalogInv, NEW r \in Readers, Close(r)
    PROVE  Quiet
BY DEF Quiet, CatalogInv, CaseInv, TypeOK, RowsInv, OpenInv, Validated, Output,
       Close

(* A compaction that has nothing to do.                                    *)
LEMMA NothingToMergeQuiet ==
    ASSUME CatalogInv, NEW t \in Compactions, NothingToMerge(t)
    PROVE  Quiet
BY DEF Quiet, CatalogInv, CaseInv, TypeOK, RowsInv, OpenInv, Validated, Output,
       NothingToMerge

(* A cleanup reads case.json.                                              *)
LEMMA RetireLockQuiet ==
    ASSUME CatalogInv, NEW c \in Cleaners, RetireLock(c)
    PROVE  Quiet
BY DEF Quiet, CatalogInv, CaseInv, TypeOK, RowsInv, OpenInv, Validated, Output,
       RetireLock, TakeCaseLock

(* Only leases of dead processes are unlinked.                             *)
LEMMA ReadLeasesQuiet ==
    ASSUME CatalogInv, NEW c \in Cleaners, ReadLeases(c)
    PROVE  Quiet
BY DEF Quiet, CatalogInv, CaseInv, TypeOK, RowsInv, OpenInv, Validated, Output,
       ReadLeases, Expired, Alive

(* The same before a lease of another host is met.                         *)
LEMMA KeepRetiredQuiet ==
    ASSUME CatalogInv, NEW c \in Cleaners, KeepRetired(c)
    PROVE  Quiet
BY DEF Quiet, CatalogInv, CaseInv, TypeOK, RowsInv, OpenInv, Validated, Output,
       KeepRetired, Expired, Alive, FreeCaseLock

(* assert_owned changes nothing.                                           *)
LEMMA CheckRetiredQuiet ==
    ASSUME CatalogInv, NEW c \in Cleaners, CheckRetired(c)
    PROVE  Quiet
BY DEF Quiet, CatalogInv, CaseInv, TypeOK, RowsInv, OpenInv, Validated, Output,
       CheckRetired

(* A sweep lists its workspaces.                                           *)
LEMMA SweepLockQuiet ==
    ASSUME CatalogInv, NEW c \in Cleaners, SweepLock(c)
    PROVE  Quiet
BY DEF Quiet, CatalogInv, CaseInv, TypeOK, RowsInv, OpenInv, Validated, Output,
       SweepLock, TakeCaseLock

(* A workspace is passed over.                                             *)
LEMMA PassOverQuiet ==
    ASSUME CatalogInv, NEW c \in Cleaners, PassOver(c)
    PROVE  Quiet
BY DEF Quiet, CatalogInv, CaseInv, TypeOK, RowsInv, OpenInv, Validated, Output,
       PassOver

(* A claimed workspace never looks unused again.                           *)
LEMMA ClaimQuiet ==
    ASSUME CatalogInv, NEW c \in Cleaners, Claim(c)
    PROVE  Quiet
BY DEF Quiet, CatalogInv, CaseInv, TypeOK, RowsInv, OpenInv, Validated, Output,
       Claim

(* Nor does a cleaned one.                                                 *)
LEMMA MarkCleanedQuiet ==
    ASSUME CatalogInv, NEW c \in Cleaners, MarkCleaned(c)
    PROVE  Quiet
BY DEF Quiet, CatalogInv, CaseInv, TypeOK, RowsInv, OpenInv, Validated, Output,
       MarkCleaned, WorkspaceInv

(* The end of a sweep.                                                     *)
LEMMA SweepDoneQuiet ==
    ASSUME CatalogInv, NEW c \in Cleaners, SweepDone(c)
    PROVE  Quiet
BY DEF Quiet, CatalogInv, CaseInv, TypeOK, RowsInv, OpenInv, Validated, Output,
       SweepDone

(* A cleanup returns.                                                      *)
LEMMA LeaveQuiet ==
    ASSUME CatalogInv, NEW c \in Cleaners, Leave(c)
    PROVE  Quiet
BY DEF Quiet, CatalogInv, CaseInv, TypeOK, RowsInv, OpenInv, Validated, Output,
       Leave, FreeCaseLock

(* An error ends a cleanup; it changes no file.                            *)
LEMMA CleanerRaisesQuiet ==
    ASSUME CatalogInv, NEW c \in Cleaners, CleanerRaises(c)
    PROVE  Quiet
BY DEF Quiet, CatalogInv, CaseInv, TypeOK, RowsInv, OpenInv, Validated, Output,
       CleanerRaises, DropLocks, FreeCaseLock

(* A process that dies publishes nothing any more.                         *)
LEMMA DiesQuiet ==
    ASSUME CatalogInv, NEW a \in Actors, Dies(a)
    PROVE  Quiet
BY DEF Quiet, CatalogInv, CaseInv, TypeOK, RowsInv, OpenInv, Validated, Output,
       Dies, DropLocks, FreeCaseLock

(* The evidence is read while staging only.                                *)
LEMMA EvidenceChangesQuiet ==
    ASSUME CatalogInv, NEW s \in Sources, EvidenceChanges(s)
    PROVE  Quiet
BY DEF Quiet, CatalogInv, CaseInv, TypeOK, RowsInv, OpenInv, Validated, Output,
       EvidenceChanges

(* A file of a claimed workspace belongs to no transaction at work, since  *)
(* the sweep holds the lock of that workspace.                             *)
LEMMA DeleteOutputQuiet ==
    ASSUME CatalogInv, NEW c \in Cleaners, DeleteOutput(c)
    PROVE  Quiet
<1>1. PICK f \in Output(target[c]) : disk' = disk \ {f}
  BY DEF DeleteOutput
<1>2. \A t \in Txns : pc[t] \in Validated => f[1] # t
  <2>1. wsLock[target[c]] = c /\ f[1] = target[c]
    BY <1>1 DEF CatalogInv, CaseInv, WorkspaceInv, DeleteOutput, Output
  <2>2. \A t \in Txns : pc[t] \in Validated => wsLock[t] = t
    BY DEF CatalogInv, CaseInv, WorkspaceInv, Working, Validated
  <2> QED BY <2>1, <2>2
<1>3. \A t \in Txns : pc[t] \in Validated => Output(t)' = Output(t)
  BY <1>1, <1>2 DEF Output
<1> QED BY <1>1, <1>3 DEF Quiet, CatalogInv, RowsInv, OpenInv, DeleteOutput

(* A retired file belongs to a recorded transaction.                       *)
LEMMA UnlinkRetiredQuiet ==
    ASSUME CatalogInv, NEW c \in Cleaners, UnlinkRetired(c)
    PROVE  Quiet
<1>1. PICK f \in doomed[c] \cap disk : disk' = disk \ {f}
  BY DEF UnlinkRetired
<1>2. f[1] \in meta.runs
  BY <1>1 DEF CatalogInv, CaseInv, DoomedInv, RunsInv, UnlinkRetired
<1>3. \A t \in Txns : pc[t] \in Validated => t \notin meta.runs
  BY DEF CatalogInv, CaseInv, RunsInv, Validated
<1>4. \A t \in Txns : pc[t] \in Validated => Output(t)' = Output(t)
  BY <1>1, <1>2, <1>3 DEF Output
<1> QED BY <1>1, <1>4 DEF Quiet, CatalogInv, RowsInv, OpenInv, UnlinkRetired

-----------------------------------------------------------------------------
(* What remains of the invariant when no file and no ledger changes: the   *)
(* parts about the transactions at work.                                   *)
LEMMA SameFiles ==
    ASSUME CatalogInv, UNCHANGED <<meta, disk, rows>>
    PROVE  /\ OutputInv'
           /\ LedgerInv'
           /\ \A t \in Txns : Output(t)' = Output(t)
           /\ \A t \in Ingests : Entries(t)' = Entries(t)
           /\ \A t \in Compactions : group'[t] = group[t] => RowsIn(group[t])' = RowsIn(group[t])
<1>1. OutputInv' /\ \A t \in Txns : Output(t)' = Output(t)
  BY DEF CatalogInv, RowsInv, OutputInv, Output
<1>2. LedgerInv'
  BY DEF CatalogInv, RowsInv, LedgerInv, CatalogMatchesLedger, OneImportPerContent, NoRowTwice, RowsIn
<1> QED BY <1>1, <1>2 DEF Entries, RowsIn

(* What is checked of a commit depends on the copy of case.json and on the *)
(* output of the transaction.                                              *)
LEMMA SameCheck ==
    ASSUME NEW t, Entries(t)' = Entries(t), seen'[t] = seen[t], ~Duplicate(t)
    PROVE  ~Duplicate(t)'
BY DEF Duplicate

(* An ingest begins: its scan is set when no worker can have started.      *)
LEMMA BeginRows ==
    ASSUME CatalogInv, NEW t \in Ingests, Begin(t)
    PROVE  RowsInv'
<1>1. StagingInv'
  <2>1. t \notin meta.runs /\ \A s \in Sources : worker[t][s] = "idle"
    BY DEF CatalogInv, CaseInv, RunsInv, WorkspaceInv, RowsInv, StagingInv, Begin
  <2> QED BY <2>1 DEF CatalogInv, CaseInv, TypeOK, RowsInv, StagingInv, Begin, Validated
<1>2. MergeInv' /\ OpenInv'
  BY SameFiles DEF CatalogInv, CaseInv, TypeOK, RowsInv, MergeInv, OpenInv, Begin, Validated, RowsIn
<1>3. CheckedInv'
  BY SameFiles, SameCheck DEF CatalogInv, CaseInv, TypeOK, RowsInv, CheckedInv, Begin
<1> QED BY <1>1, <1>2, <1>3, SameFiles DEF RowsInv, Begin

(* A worker starts for a scanned source, never once validation has passed. *)
LEMMA WorkerStartRows ==
    ASSUME CatalogInv, NEW t \in Ingests, NEW s \in Sources, WorkerStart(t, s)
    PROVE  RowsInv'
<1>1. StagingInv'
  BY DEF CatalogInv, CaseInv, TypeOK, RowsInv, StagingInv, WorkerStart
<1>2. MergeInv' /\ OpenInv' /\ CheckedInv'
  BY SameFiles, SameCheck
     DEF CatalogInv, RowsInv, MergeInv, OpenInv, CheckedInv, WorkerStart, RowsIn
<1> QED BY <1>1, <1>2, SameFiles DEF RowsInv, WorkerStart

(* A worker that ends is one whose ingest still waits for it.              *)
LEMMA WorkerEndRows ==
    ASSUME CatalogInv, NEW t \in Ingests, NEW s \in Sources, WorkerEnd(t, s) \/ WorkerDies(t, s)
    PROVE  RowsInv'
<1>1. StagingInv'
  <2>1. PICK state : worker' = [worker EXCEPT ![t][s] = state]
    BY DEF WorkerEnd, WorkerDies
  <2>2. worker[t][s] \in {"staging", "staged"}
    BY DEF WorkerEnd, WorkerDies
  <2>3. s \in scan[t] /\ pc[t] \notin Validated /\ t \notin meta.runs
    BY <2>2 DEF CatalogInv, RowsInv, StagingInv
  <2>4. phase[t] \notin {"none", "empty"}
    BY <2>2 DEF CatalogInv, RowsInv, StagingInv
  <2>5. \A u \in Ingests, r \in Sources : <<u, r>> # <<t, s>> => worker'[u][r] = worker[u][r]
    BY <2>1 DEF CatalogInv, CaseInv, TypeOK
  <2> QED BY <2>3, <2>4, <2>5 DEF CatalogInv, CaseInv, TypeOK, RowsInv, StagingInv, WorkerEnd, WorkerDies
<1>2. MergeInv' /\ OpenInv' /\ CheckedInv'
  BY SameFiles, SameCheck
     DEF CatalogInv, RowsInv, MergeInv, OpenInv, CheckedInv, WorkerEnd, WorkerDies, RowsIn
<1> QED BY <1>1, <1>2, SameFiles DEF RowsInv, WorkerEnd, WorkerDies

(* Validation sees every worker of the scan ended.                         *)
LEMMA ValidateRows ==
    ASSUME CatalogInv, NEW t \in Ingests, Validate(t)
    PROVE  RowsInv'
<1>1. StagingInv'
  BY DEF CatalogInv, CaseInv, TypeOK, RowsInv, StagingInv, Validate, Validated
<1>2. MergeInv' /\ OpenInv'
  BY SameFiles DEF CatalogInv, CaseInv, TypeOK, RowsInv, MergeInv, OpenInv, Validate, RowsIn
<1>3. CheckedInv'
  BY SameFiles, SameCheck DEF CatalogInv, CaseInv, TypeOK, RowsInv, CheckedInv, Validate
<1> QED BY <1>1, <1>2, <1>3, SameFiles DEF RowsInv, Validate

(* The lock is taken and case.json read: nothing was checked before.       *)
LEMMA LockCaseRows ==
    ASSUME CatalogInv, NEW t \in Txns, LockCase(t)
    PROVE  RowsInv'
<1>1. StagingInv'
  BY DEF CatalogInv, CaseInv, TypeOK, RowsInv, StagingInv, LockCase, Validated
<1>2. MergeInv' /\ OpenInv'
  BY SameFiles DEF CatalogInv, CaseInv, TypeOK, RowsInv, MergeInv, OpenInv, LockCase, Validated, RowsIn
<1>3. CheckedInv'
  BY SameFiles, SameCheck
     DEF CatalogInv, CaseInv, TypeOK, RowsInv, CheckedInv, LockCase, TakeCaseLock
<1> QED BY <1>1, <1>2, <1>3, SameFiles DEF RowsInv, LockCase

(* The check of an ingest is what CheckedInv remembers.                    *)
LEMMA CheckCommitRows ==
    ASSUME CatalogInv, NEW t \in Ingests, CheckCommit(t)
    PROVE  RowsInv'
<1>1. StagingInv'
  BY DEF CatalogInv, CaseInv, TypeOK, RowsInv, StagingInv, CheckCommit, Validated
<1>2. MergeInv' /\ OpenInv'
  BY SameFiles DEF CatalogInv, CaseInv, TypeOK, RowsInv, MergeInv, OpenInv, CheckCommit, RowsIn
<1>3. CheckedInv'
  BY SameFiles, SameCheck DEF CatalogInv, CaseInv, TypeOK, RowsInv, CheckedInv, CheckCommit
<1> QED BY <1>1, <1>2, <1>3, SameFiles DEF RowsInv, CheckCommit

(* A compaction goes on with the output it validated.                      *)
LEMMA CheckSnapshotRows ==
    ASSUME CatalogInv, NEW t \in Compactions, CheckSnapshot(t)
    PROVE  RowsInv'
<1>1. StagingInv'
  BY DEF CatalogInv, CaseInv, TypeOK, RowsInv, StagingInv, CheckSnapshot
<1>2. MergeInv' /\ OpenInv'
  BY SameFiles
     DEF CatalogInv, CaseInv, TypeOK, RowsInv, MergeInv, OpenInv, CheckSnapshot, Validated, RowsIn
<1>3. CheckedInv'
  BY SameFiles, SameCheck DEF CatalogInv, CaseInv, TypeOK, RowsInv, CheckedInv, CheckSnapshot
<1> QED BY <1>1, <1>2, <1>3, SameFiles DEF RowsInv, CheckSnapshot

(* The merged file is all a compaction has written when it is validated.   *)
LEMMA ValidateMergedRows ==
    ASSUME CatalogInv, NEW t \in Compactions, ValidateMerged(t)
    PROVE  RowsInv'
<1>1. StagingInv'
  BY DEF CatalogInv, CaseInv, TypeOK, RowsInv, StagingInv, ValidateMerged
<1>2. MergeInv' /\ OpenInv'
  BY SameFiles
     DEF CatalogInv, CaseInv, TypeOK, RowsInv, MergeInv, OpenInv, ValidateMerged, Validated, RowsIn
<1>3. CheckedInv'
  BY SameFiles, SameCheck DEF CatalogInv, CaseInv, TypeOK, RowsInv, CheckedInv, ValidateMerged
<1> QED BY <1>1, <1>2, <1>3, SameFiles DEF RowsInv, ValidateMerged

(* The group is chosen before anything is merged.                          *)
LEMMA PlanRows ==
    ASSUME CatalogInv, NEW t \in Compactions, Plan(t)
    PROVE  RowsInv'
<1>1. StagingInv'
  BY DEF CatalogInv, CaseInv, TypeOK, RowsInv, StagingInv, Plan
<1>2. MergeInv' /\ OpenInv'
  BY SameFiles
     DEF CatalogInv, CaseInv, TypeOK, RowsInv, MergeInv, OpenInv, Plan, Validated, RowsIn
<1>3. CheckedInv'
  BY SameFiles, SameCheck DEF CatalogInv, CaseInv, TypeOK, RowsInv, CheckedInv, Plan
<1> QED BY <1>1, <1>2, <1>3, SameFiles DEF RowsInv, Plan

(* A lease is written before the connection is open.                       *)
LEMMA WriteLeaseRows ==
    ASSUME CatalogInv, NEW h \in Holders, WriteLease(h)
    PROVE  RowsInv'
<1>1. StagingInv'
  BY DEF CatalogInv, CaseInv, TypeOK, RowsInv, StagingInv, WriteLease, Validated
<1>2. MergeInv' /\ OpenInv'
  BY SameFiles
     DEF CatalogInv, CaseInv, TypeOK, RowsInv, MergeInv, OpenInv, WriteLease, Validated, RowsIn
<1>3. CheckedInv'
  BY SameFiles, SameCheck
     DEF CatalogInv, CaseInv, TypeOK, RowsInv, CheckedInv, WriteLease, FreeCaseLock
<1> QED BY <1>1, <1>2, <1>3, SameFiles DEF RowsInv, WriteLease

-----------------------------------------------------------------------------
(* Rows are written: those of the catalog and of every group stay.         *)
LEMMA RecordedRowsKept ==
    ASSUME CatalogInv, UNCHANGED <<meta, group>>,
           \A f \in File : Recorded(f) => rows'[f] = rows[f]
    PROVE  /\ LedgerInv'
           /\ \A t \in Compactions : RowsIn(group[t])' = RowsIn(group[t])
<1>1. \A f \in meta.catalog : rows'[f] = rows[f]
  BY NamedFilesRecorded
<1>2. RowsIn(meta.catalog)' = RowsIn(meta.catalog)
  BY <1>1 DEF RowsIn
<1>3. LedgerInv'
  BY <1>1, <1>2
     DEF CatalogInv, RowsInv, LedgerInv, CatalogMatchesLedger, OneImportPerContent, NoRowTwice
<1>4. ASSUME NEW t \in Compactions PROVE RowsIn(group[t])' = RowsIn(group[t])
  <2>1. \A f \in group[t] : rows'[f] = rows[f]
    BY NamedFilesRecorded
  <2> QED BY <2>1 DEF RowsIn
<1> QED BY <1>3, <1>4

(* A worker adds one file to the output of an ingest that is still at      *)
(* work: no file that is validated or recorded changes.                    *)
LEMMA WorkerStageRows ==
    ASSUME CatalogInv, NEW t \in Ingests, NEW s \in Sources, WorkerStage(t, s)
    PROVE  RowsInv'
<1>1. /\ t \notin meta.runs /\ pc[t] \notin Validated
      /\ \A f \in File : Recorded(f) => rows'[f] = rows[f]
  BY StageTouchesNoRecorded
<1>2. /\ disk' = disk \cup {<<t, s>>} /\ disk \subseteq File /\ <<t, s>> \in File
      /\ rows' = [rows EXCEPT ![<<t, s>>] = {<<t, s, content[s]>>}]
      /\ rows \in [File -> SUBSET Row] /\ content[s] \in Contents
      /\ worker' = [worker EXCEPT ![t][s] = "staged"]
      /\ worker[t][s] = "staging"
      /\ UNCHANGED <<caseVars, pc, phase, scan, group, leaseVars>>
  BY DEF CatalogInv, CaseInv, TypeOK, WorkerStage, File
<1>3. \A f \in File : f # <<t, s>> => rows'[f] = rows[f]
  BY <1>2
<1>4. \A u \in Txns : u # t => Output(u)' = Output(u) /\ \A f \in Output(u) : rows'[f] = rows[f]
  BY <1>2, <1>3 DEF Output
<1>5. StagingInv'
  <2>1. \A u \in Ingests, r \in Sources : <<u, r>> # <<t, s>> => worker'[u][r] = worker[u][r]
    BY <1>2 DEF CatalogInv, CaseInv, TypeOK
  <2> QED BY <1>1, <1>2, <2>1 DEF CatalogInv, CaseInv, TypeOK, RowsInv, StagingInv
<1>6. OutputInv'
  <2> SUFFICES ASSUME NEW f \in disk'
               PROVE  \/ /\ f[1] \in Ingests /\ f[2] \in Sources
                         /\ \E x \in Contents : rows'[f] = {<<f[1], f[2], x>>}
                      \/ f[1] \in Compactions /\ f[2] = Merged
    BY DEF OutputInv
  <2>1. CASE f = <<t, s>>
    BY <1>2, <2>1
  <2>2. CASE f # <<t, s>>
    BY <1>2, <1>3, <2>2 DEF CatalogInv, RowsInv, OutputInv
  <2> QED BY <2>1, <2>2
<1>7. MergeInv'
  <2>1. ASSUME NEW k \in Compactions PROVE rows'[<<k, Merged>>] = rows[<<k, Merged>>]
    BY <1>3 DEF File
  <2>2. \A k \in Compactions : Output(k)' = Output(k)
    BY <1>4
  <2> QED BY <1>1, <1>2, <2>1, <2>2, RecordedRowsKept DEF CatalogInv, RowsInv, MergeInv
<1>8. CheckedInv'
  <2> SUFFICES ASSUME NEW u \in Ingests, pc'[u] = "owned"
               PROVE  ~Duplicate(u)'
    BY DEF CheckedInv
  <2>1. pc[u] = "owned" /\ u # t /\ seen'[u] = seen[u]
    BY <1>1, <1>2 DEF Validated
  <2>2. RowsIn(Output(u))' = RowsIn(Output(u))
    BY <1>4, <2>1 DEF RowsIn
  <2>3. Entries(u)' = Entries(u)
    BY <2>2 DEF Entries
  <2> QED BY <2>1, <2>3, SameCheck DEF CatalogInv, RowsInv, CheckedInv
<1>9. LedgerInv' /\ OpenInv'
  BY <1>1, <1>2, RecordedRowsKept DEF CatalogInv, RowsInv, OpenInv
<1> QED BY <1>5, <1>6, <1>7, <1>8, <1>9 DEF RowsInv

(* A compaction writes the rows of its group into its own workspace.       *)
LEMMA WriteGroupRows ==
    ASSUME CatalogInv, NEW t \in Compactions, WriteGroup(t)
    PROVE  RowsInv'
<1>1. \A f \in File : Recorded(f) => rows'[f] = rows[f]
  BY WriteGroupTouchesNoRecorded
<1>2. /\ disk' = disk \cup {<<t, Merged>>} /\ disk \subseteq File /\ <<t, Merged>> \in File
      /\ rows' = [rows EXCEPT ![<<t, Merged>>] = RowsIn(group[t])]
      /\ rows \in [File -> SUBSET Row]
      /\ pc' = [pc EXCEPT ![t] = "merged"] /\ pc \in [Actors -> Labels]
      /\ UNCHANGED <<caseVars, phase, scan, worker, group, leaseVars>>
  BY DEF CatalogInv, CaseInv, TypeOK, WriteGroup, File
<1>3. \A f \in File : f # <<t, Merged>> => rows'[f] = rows[f]
  BY <1>2
<1>4. \A u \in Txns : u # t => Output(u)' = Output(u) /\ \A f \in Output(u) : rows'[f] = rows[f]
  BY <1>2, <1>3 DEF Output
<1>5. StagingInv'
  BY <1>2 DEF CatalogInv, RowsInv, StagingInv, Validated
<1>6. OutputInv'
  <2> SUFFICES ASSUME NEW f \in disk'
               PROVE  \/ /\ f[1] \in Ingests /\ f[2] \in Sources
                         /\ \E x \in Contents : rows'[f] = {<<f[1], f[2], x>>}
                      \/ f[1] \in Compactions /\ f[2] = Merged
    BY DEF OutputInv
  <2>1. CASE f = <<t, Merged>>
    BY <2>1
  <2>2. CASE f # <<t, Merged>>
    BY <1>2, <1>3, <2>2 DEF CatalogInv, RowsInv, OutputInv
  <2> QED BY <2>1, <2>2
<1>7. MergeInv'
  <2> SUFFICES ASSUME NEW k \in Compactions
               PROVE  /\ pc'[k] \in Validated \cup {"merged"} => rows'[<<k, Merged>>] = RowsIn(group[k])'
                      /\ pc'[k] \in Validated => Output(k)' = {<<k, Merged>>}
    BY DEF MergeInv
  <2>1. RowsIn(group[k])' = RowsIn(group[k])
    BY <1>1, <1>2, RecordedRowsKept
  <2>2. CASE k = t
    BY <1>2, <2>1, <2>2 DEF Validated
  <2>3. CASE k # t
    <3>1. rows'[<<k, Merged>>] = rows[<<k, Merged>>] /\ pc'[k] = pc[k]
      BY <1>2, <1>3, <2>3 DEF File
    <3> QED BY <1>4, <2>1, <2>3, <3>1 DEF CatalogInv, RowsInv, MergeInv
  <2> QED BY <2>2, <2>3
<1>8. CheckedInv'
  <2> SUFFICES ASSUME NEW u \in Ingests, pc'[u] = "owned"
               PROVE  ~Duplicate(u)'
    BY DEF CheckedInv
  <2>1. pc[u] = "owned" /\ u # t /\ seen'[u] = seen[u]
    BY <1>2
  <2>2. RowsIn(Output(u))' = RowsIn(Output(u))
    BY <1>4, <2>1 DEF RowsIn
  <2>3. Entries(u)' = Entries(u)
    BY <2>2 DEF Entries
  <2> QED BY <2>1, <2>3, SameCheck DEF CatalogInv, RowsInv, CheckedInv
<1>9. LedgerInv' /\ OpenInv'
  BY <1>1, <1>2, RecordedRowsKept DEF CatalogInv, RowsInv, OpenInv
<1> QED BY <1>5, <1>6, <1>7, <1>8, <1>9 DEF RowsInv

-----------------------------------------------------------------------------
(* The output of an ingest: rows of this ingest, one source in one file.   *)
LEMMA IngestOutput ==
    ASSUME CatalogInv, NEW t \in Ingests
    PROVE  /\ RowsIn(Output(t)) \subseteq {t} \X Sources \X Contents
           /\ \A r, other \in RowsIn(Output(t)) : r[2] = other[2] => r = other
           /\ \A f, g \in Output(t) : f # g => rows[f] \cap rows[g] = {}
<1>1. \A f \in Output(t) : f \in File /\ f[1] = t
  BY DEF CatalogInv, CaseInv, TypeOK, Output
<1>2. \A f \in Output(t) : f[2] \in Sources /\ \E x \in Contents : rows[f] = {<<t, f[2], x>>}
  BY <1>1 DEF CatalogInv, RowsInv, OutputInv, Output
<1>3. \A f, g \in Output(t) : f[2] = g[2] => f = g
  BY <1>1 DEF File
<1>4. ASSUME NEW r \in RowsIn(Output(t))
      PROVE  \E f \in Output(t), x \in Contents :
                rows[f] = {r} /\ r = <<t, f[2], x>> /\ f[2] \in Sources
  BY <1>2 DEF RowsIn
<1>5. RowsIn(Output(t)) \subseteq {t} \X Sources \X Contents
  BY <1>4
<1>6. ASSUME NEW r \in RowsIn(Output(t)), NEW other \in RowsIn(Output(t)), r[2] = other[2]
      PROVE  r = other
  <2>1. PICK f \in Output(t), x \in Contents : rows[f] = {r} /\ r = <<t, f[2], x>>
    BY <1>4
  <2>2. PICK g \in Output(t), y \in Contents : rows[g] = {other} /\ other = <<t, g[2], y>>
    BY <1>4
  <2>3. f = g
    BY <1>3, <1>6, <2>1, <2>2
  <2> QED BY <2>1, <2>2, <2>3
<1>7. ASSUME NEW f \in Output(t), NEW g \in Output(t), f # g
      PROVE  rows[f] \cap rows[g] = {}
  <2>1. PICK x \in Contents : rows[f] = {<<t, f[2], x>>}
    BY <1>2
  <2>2. PICK y \in Contents : rows[g] = {<<t, g[2], y>>}
    BY <1>2
  <2>3. f[2] # g[2]
    BY <1>3, <1>7
  <2> QED BY <2>1, <2>2, <2>3
<1> QED BY <1>5, <1>6, <1>7

(* The entries of a commit are its rows, written another way.              *)
LEMMA EntriesAreRows ==
    ASSUME CatalogInv, NEW t \in Ingests
    PROVE  {<<e.transaction_id, e.source, e.sha256>> : e \in Entries(t)} = RowsIn(Output(t))
<1>1. \A r \in RowsIn(Output(t)) : r = <<t, r[2], r[3]>>
  BY IngestOutput
<1>2. ASSUME NEW e \in Entries(t)
      PROVE  <<e.transaction_id, e.source, e.sha256>> \in RowsIn(Output(t))
  <2>1. PICK r \in RowsIn(Output(t)) : e = [source |-> r[2], sha256 |-> r[3], transaction_id |-> t]
    BY DEF Entries
  <2> QED BY <1>1, <2>1
<1>3. ASSUME NEW r \in RowsIn(Output(t))
      PROVE  \E e \in Entries(t) : r = <<e.transaction_id, e.source, e.sha256>>
  <2>1. [source |-> r[2], sha256 |-> r[3], transaction_id |-> t] \in Entries(t)
    BY DEF Entries
  <2> QED BY <1>1, <2>1
<1> QED BY <1>2, <1>3

(* Rows of the catalog belong to recorded ingests.                         *)
LEMMA CatalogRowsRecorded ==
    ASSUME CatalogInv, NEW r \in RowsIn(meta.catalog)
    PROVE  r[1] \in meta.runs
BY DEF CatalogInv, RowsInv, LedgerInv, CatalogMatchesLedger

(* What a commit of an ingest does to catalog and ledger.                  *)
LEMMA PublishLedger ==
    ASSUME CatalogInv, NEW t \in Ingests, Publish(t)
    PROVE  /\ t \notin meta.runs
           /\ meta'.catalog = meta.catalog \cup Output(t)
           /\ meta'.source_ledger = meta.source_ledger \cup Entries(t)
           /\ meta'.runs = meta.runs \cup {t}
           /\ \A e \in Entries(t), old \in meta.source_ledger :
                 ~(old.source = e.source /\ old.sha256 = e.sha256)
<1>1. t \notin meta.runs
  BY DEF CatalogInv, CaseInv, RunsInv, Publish
<1>2. seen[t] = meta
  BY DEF CatalogInv, CaseInv, SeenInv, Critical, Publish
<1>3. ~Duplicate(t)
  BY DEF CatalogInv, RowsInv, CheckedInv, Publish
<1> QED BY <1>1, <1>2, <1>3, CommittedMetaFields DEF CatalogInv, Publish, Duplicate

(* The commit of an ingest extends catalog and ledger by the same rows,    *)
(* which no earlier ingest can have imported.                              *)
LEMMA PublishRows ==
    ASSUME CatalogInv, NEW t \in Ingests, Publish(t)
    PROVE  RowsInv'
<1>1. /\ t \notin meta.runs
      /\ meta'.catalog = meta.catalog \cup Output(t)
      /\ meta'.source_ledger = meta.source_ledger \cup Entries(t)
      /\ meta'.runs = meta.runs \cup {t}
  BY PublishLedger
<1>2. /\ UNCHANGED <<seen, disk, rows, phase, scan, worker, group, leased>>
      /\ pc' = [pc EXCEPT ![t] = "published"] /\ pc \in [Actors -> Labels] /\ pc[t] = "owned"
  BY DEF CatalogInv, CaseInv, TypeOK, Publish
<1>3. StagingInv'
  BY <1>1, <1>2 DEF CatalogInv, RowsInv, StagingInv, Validated
<1>4. OutputInv' /\ MergeInv' /\ OpenInv'
  BY <1>2 DEF CatalogInv, RowsInv, OutputInv, MergeInv, OpenInv, RowsIn, Output, Validated
<1>5. CheckedInv'
  <2> SUFFICES ASSUME NEW u \in Ingests, pc'[u] = "owned" PROVE ~Duplicate(u)'
    BY DEF CheckedInv
  <2>1. pc[u] = "owned" /\ Entries(u)' = Entries(u) /\ seen'[u] = seen[u]
    BY <1>2 DEF Entries, Output, RowsIn
  <2> QED BY <2>1, SameCheck DEF CatalogInv, RowsInv, CheckedInv
<1>6. \A e \in Entries(t) : e.transaction_id = t
  BY DEF Entries
<1>7. \A e \in meta'.source_ledger : e.transaction_id \in meta'.runs
  BY <1>1, <1>6 DEF CatalogInv, RowsInv, LedgerInv
<1>8. CatalogMatchesLedger'
  <2>1. RowsIn(meta.catalog)' = RowsIn(meta.catalog) \cup RowsIn(Output(t))
    BY <1>1, <1>2 DEF RowsIn
  <2>2. {<<e.transaction_id, e.source, e.sha256>> : e \in meta'.source_ledger} =
           {<<e.transaction_id, e.source, e.sha256>> : e \in meta.source_ledger} \cup
           {<<e.transaction_id, e.source, e.sha256>> : e \in Entries(t)}
    BY <1>1
  <2> QED BY <2>1, <2>2, EntriesAreRows DEF CatalogInv, RowsInv, LedgerInv, CatalogMatchesLedger
<1>9. OneImportPerContent'
  <2>1. ASSUME NEW e \in Entries(t), NEW other \in Entries(t), e.source = other.source
        PROVE  e = other
    <3>1. PICK r \in RowsIn(Output(t)) : e = [source |-> r[2], sha256 |-> r[3], transaction_id |-> t]
      BY DEF Entries
    <3>2. PICK q \in RowsIn(Output(t)) : other = [source |-> q[2], sha256 |-> q[3], transaction_id |-> t]
      BY DEF Entries
    <3>3. r = q
      BY <2>1, <3>1, <3>2, IngestOutput
    <3> QED BY <3>1, <3>2, <3>3
  <2> QED BY <1>1, <2>1, PublishLedger DEF CatalogInv, RowsInv, LedgerInv, OneImportPerContent
<1>10. NoRowTwice'
  <2>1. ASSUME NEW f \in meta.catalog, NEW g \in Output(t) PROVE rows[f] \cap rows[g] = {}
    <3>1. \A r \in rows[f] : r[1] \in meta.runs
      BY CatalogRowsRecorded DEF RowsIn
    <3>2. \A r \in rows[g] : r[1] = t
      BY IngestOutput DEF RowsIn
    <3> QED BY <1>1, <3>1, <3>2
  <2> QED BY <1>1, <1>2, <2>1, IngestOutput DEF CatalogInv, RowsInv, LedgerInv, NoRowTwice
<1> QED BY <1>3, <1>4, <1>5, <1>7, <1>8, <1>9, <1>10 DEF RowsInv, LedgerInv

(* What a compaction puts in the place of its group.                       *)
LEMMA PublishMergedCatalog ==
    ASSUME CatalogInv, NEW t \in Compactions, PublishMerged(t)
    PROVE  /\ t \notin meta.runs
           /\ meta'.catalog = (meta.catalog \ group[t]) \cup {<<t, Merged>>}
           /\ meta'.source_ledger = meta.source_ledger
           /\ meta'.runs = meta.runs \cup {t}
           /\ group[t] \subseteq meta.catalog
           /\ rows[<<t, Merged>>] = RowsIn(group[t])
           /\ RowsIn(meta'.catalog) = RowsIn(meta.catalog)
<1>1. t \notin meta.runs
  BY DEF CatalogInv, CaseInv, RunsInv, PublishMerged
<1>2. Output(t) = {<<t, Merged>>} /\ rows[<<t, Merged>>] = RowsIn(group[t])
  BY DEF CatalogInv, RowsInv, MergeInv, PublishMerged, Validated
<1>3. /\ meta'.catalog = (meta.catalog \ group[t]) \cup {<<t, Merged>>}
      /\ meta'.source_ledger = meta.source_ledger
      /\ meta'.runs = meta.runs \cup {t}
      /\ group[t] \subseteq meta.catalog
  BY <1>2, CompactedMetaFields DEF CatalogInv, PublishMerged
<1>4. RowsIn(meta'.catalog) = RowsIn(meta.catalog)
  BY <1>2, <1>3 DEF RowsIn
<1> QED BY <1>1, <1>2, <1>3, <1>4

(* A compaction leaves the rows of the catalog as they were.               *)
LEMMA PublishMergedRows ==
    ASSUME CatalogInv, NEW t \in Compactions, PublishMerged(t)
    PROVE  RowsInv'
<1>1. /\ t \notin meta.runs
      /\ meta'.catalog = (meta.catalog \ group[t]) \cup {<<t, Merged>>}
      /\ meta'.source_ledger = meta.source_ledger
      /\ meta'.runs = meta.runs \cup {t}
      /\ group[t] \subseteq meta.catalog
      /\ rows[<<t, Merged>>] = RowsIn(group[t])
      /\ RowsIn(meta'.catalog) = RowsIn(meta.catalog)
  BY PublishMergedCatalog
<1>2. /\ UNCHANGED <<seen, disk, rows, phase, scan, worker, group, leased>>
      /\ pc' = [pc EXCEPT ![t] = "published"] /\ pc \in [Actors -> Labels]
  BY DEF CatalogInv, CaseInv, TypeOK, PublishMerged
<1>3. StagingInv'
  BY <1>1, <1>2 DEF CatalogInv, RowsInv, StagingInv
<1>4. OutputInv' /\ MergeInv' /\ OpenInv'
  BY <1>2 DEF CatalogInv, RowsInv, OutputInv, MergeInv, OpenInv, RowsIn, Output, Validated
<1>5. CheckedInv'
  <2> SUFFICES ASSUME NEW u \in Ingests, pc'[u] = "owned" PROVE ~Duplicate(u)'
    BY DEF CheckedInv
  <2>1. pc[u] = "owned" /\ Entries(u)' = Entries(u) /\ seen'[u] = seen[u]
    BY <1>2 DEF Entries, Output, RowsIn
  <2> QED BY <2>1, SameCheck DEF CatalogInv, RowsInv, CheckedInv
<1>6. CatalogMatchesLedger'
  <2>1. RowsIn(meta.catalog)' = RowsIn(meta.catalog)
    BY <1>1, <1>2 DEF RowsIn
  <2> QED BY <1>1, <2>1 DEF CatalogInv, RowsInv, LedgerInv, CatalogMatchesLedger
<1>7. NoRowTwice'
  <2>1. ASSUME NEW f \in meta.catalog \ group[t]
        PROVE  rows[f] \cap rows[<<t, Merged>>] = {}
    BY <1>1 DEF CatalogInv, RowsInv, LedgerInv, NoRowTwice, RowsIn
  <2> QED BY <1>1, <1>2, <2>1 DEF CatalogInv, RowsInv, LedgerInv, NoRowTwice
<1>8. (\A e \in meta.source_ledger : e.transaction_id \in meta.runs)' /\ OneImportPerContent'
  BY <1>1 DEF CatalogInv, RowsInv, LedgerInv, OneImportPerContent
<1> QED BY <1>3, <1>4, <1>5, <1>6, <1>7, <1>8 DEF RowsInv, LedgerInv

(* What cleanup_retired forgets was in no catalog.                         *)
LEMMA ForgetRetiredRows ==
    ASSUME CatalogInv, NEW c \in Cleaners, ForgetRetired(c)
    PROVE  RowsInv'
<1>1. seen[c] = meta /\ meta \in Meta
  BY DEF CatalogInv, CaseInv, TypeOK, SeenInv, Critical, ForgetRetired
<1>2. meta'.catalog = meta.catalog /\ meta'.source_ledger = meta.source_ledger /\ meta'.runs = meta.runs
  BY <1>1 DEF ForgetRetired, Meta
<1>3. /\ UNCHANGED <<seen, disk, rows, phase, scan, worker, group, leased>>
      /\ pc' = [pc EXCEPT ![c] = "leaving"] /\ pc \in [Actors -> Labels]
  BY DEF CatalogInv, CaseInv, TypeOK, ForgetRetired
<1>4. StagingInv' /\ OutputInv'
  BY <1>2, <1>3 DEF CatalogInv, RowsInv, StagingInv, OutputInv
<1>5. MergeInv' /\ OpenInv'
  BY <1>3 DEF CatalogInv, RowsInv, MergeInv, OpenInv, RowsIn, Output, Validated
<1>6. CheckedInv'
  <2> SUFFICES ASSUME NEW u \in Ingests, pc'[u] = "owned" PROVE ~Duplicate(u)'
    BY DEF CheckedInv
  <2>1. pc[u] = "owned" /\ Entries(u)' = Entries(u) /\ seen'[u] = seen[u]
    BY <1>3 DEF Entries, Output, RowsIn
  <2> QED BY <2>1, SameCheck DEF CatalogInv, RowsInv, CheckedInv
<1>7. LedgerInv'
  BY <1>2, <1>3
     DEF CatalogInv, RowsInv, LedgerInv, CatalogMatchesLedger, OneImportPerContent, NoRowTwice, RowsIn
<1> QED BY <1>4, <1>5, <1>6, <1>7 DEF RowsInv

-----------------------------------------------------------------------------
(* The invariant holds in an empty case.                                   *)
LEMMA InitRows == Init => RowsInv
<1> SUFFICES ASSUME Init PROVE RowsInv
  OBVIOUS
<1>1. StagingInv /\ OutputInv /\ MergeInv /\ CheckedInv /\ OpenInv
  BY DEF Init, EmptyMeta, StagingInv, OutputInv, MergeInv, CheckedInv, OpenInv, Validated
<1>2. LedgerInv
  BY DEF Init, EmptyMeta, LedgerInv, CatalogMatchesLedger, OneImportPerContent, NoRowTwice, RowsIn
<1> QED BY <1>1, <1>2 DEF RowsInv

(* A step that ingests and compactions share.                              *)
LEMMA TxnRows ==
    ASSUME CatalogInv, NEW t \in Txns, TxnStep(t) \/ Abort(t) \/ PublishRaises(t) \/ EnterFails(t)
    PROVE  RowsInv'
<1>1. MustFail(t) => pc[t] \in Started
  BY DEF MustFail, Started
<1>2. CASE Fail(t) /\ pc[t] \in Started \cup {"published"}
  BY <1>2, FailQuiet, QuietStep
<1> QED BY <1>1, <1>2, EnterQuiet, UnlockQuiet, FinishQuiet, EnterFailsQuiet, QuietStep, LockCaseRows
        DEF TxnStep, GiveUp, Abort, PublishRaises

(* A step of a compaction.                                                 *)
LEMMA CompactionRows ==
    ASSUME CatalogInv, NEW t \in Compactions, Capture(t) \/ CaptureFails(t) \/ CompactionStep(t)
    PROVE  RowsInv'
<1>1. MustStop(t) => pc[t] \in Started
  BY DEF MustStop, Started
<1>2. CASE Capture(t) \/ CaptureFails(t) \/ NothingToMerge(t) \/ StopMerging(t)
  BY <1>1, <1>2, CaptureQuiet, CaptureFailsQuiet, NothingToMergeQuiet, FailQuiet, QuietStep
     DEF StopMerging
<1> QED BY <1>2, TxnRows, WriteLeaseRows, PlanRows, WriteGroupRows, ValidateMergedRows,
           CheckSnapshotRows, PublishMergedRows
        DEF CompactionStep

(* A step of either cleanup.                                               *)
LEMMA CleanerRows ==
    ASSUME CatalogInv, NEW c \in Cleaners,
           SweepStep(c) \/ RetireLock(c) \/ RetireStep(c) \/ CleanerRaises(c)
    PROVE  RowsInv'
<1>1. ForgetRetired(c) \/ Quiet
  BY SweepLockQuiet, PassOverQuiet, ClaimQuiet, DeleteOutputQuiet, MarkCleanedQuiet, SweepDoneQuiet,
     LeaveQuiet, RetireLockQuiet, ReadLeasesQuiet, KeepRetiredQuiet, UnlinkRetiredQuiet,
     CheckRetiredQuiet, CleanerRaisesQuiet
     DEF SweepStep, RetireStep
<1> QED BY <1>1, QuietStep, ForgetRetiredRows

(* A step that changes nothing is quiet.                                   *)
LEMMA StutterRows == ASSUME CatalogInv, UNCHANGED vars PROVE RowsInv'
<1>1. Quiet
  BY DEF vars, Quiet, Output, CatalogInv, RowsInv, OpenInv
<1> QED BY <1>1, QuietStep

(* Every step keeps both invariants: without a lapse of the lock.          *)
LEMMA NextCatalog ==
    ASSUME Lapsing = {}
    PROVE  CatalogInv /\ [Next]_vars => CatalogInv'
<1> SUFFICES ASSUME CatalogInv, [Next]_vars PROVE RowsInv'
  BY NextInv DEF CatalogInv
<1>1. ASSUME NEW t \in Ingests, Begin(t) \/ IngestStep(t) PROVE RowsInv'
  BY <1>1, BeginRows, TxnRows, ValidateRows, CheckCommitRows, PublishRows DEF IngestStep
<1>2. ASSUME NEW t \in Ingests, NEW s \in Sources, WorkerStep(t, s) \/ WorkerDies(t, s) PROVE RowsInv'
  BY <1>2, WorkerStartRows, WorkerStageRows, WorkerEndRows DEF WorkerStep
<1>3. ASSUME NEW t \in Compactions, Capture(t) \/ CaptureFails(t) \/ CompactionStep(t) PROVE RowsInv'
  BY <1>3, CompactionRows
<1>4. ASSUME NEW t \in Txns, Abort(t) \/ PublishRaises(t) \/ EnterFails(t) PROVE RowsInv'
  BY <1>4, TxnRows
<1>5. ASSUME NEW r \in Readers, Capture(r) \/ WriteLease(r) \/ CaptureFails(r) \/ Close(r) PROVE RowsInv'
  BY <1>5, CaptureQuiet, CaptureFailsQuiet, CloseQuiet, QuietStep, WriteLeaseRows
<1>6. ASSUME NEW c \in Cleaners, SweepStep(c) \/ RetireLock(c) \/ RetireStep(c) \/ CleanerRaises(c)
      PROVE  RowsInv'
  BY <1>6, CleanerRows
<1>7. ASSUME NEW a \in Actors, Dies(a) PROVE RowsInv'
  BY <1>7, DiesQuiet, QuietStep
<1>8. ASSUME NEW s \in Sources, EvidenceChanges(s) PROVE RowsInv'
  BY <1>8, EvidenceChangesQuiet, QuietStep
<1>9. ~LockLapses
  BY DEF LockLapses
<1>10. CASE UNCHANGED vars
  BY <1>10, StutterRows
<1> QED BY <1>1, <1>2, <1>3, <1>4, <1>5, <1>6, <1>7, <1>8, <1>9, <1>10 DEF Next

-----------------------------------------------------------------------------
(* Both invariants hold of the case under a lock that does not lapse.      *)
THEOREM CatalogInvariance == ASSUME Lapsing = {} PROVE Spec => []CatalogInv
<1>1. Init => CatalogInv
  BY InitInv, InitRows DEF CatalogInv
<1>2. CatalogInv /\ [Next]_vars => CatalogInv'
  BY NextCatalog
<1> QED BY <1>1, <1>2, PTL DEF Spec

(* The rows a query sees are exactly the imports the ledger records,       *)
(* whatever commits and compactions rewrote case.json.                     *)
THEOREM CatalogTellsLedger == ASSUME Lapsing = {} PROVE Spec => []CatalogMatchesLedger
<1>1. CatalogInv => CatalogMatchesLedger
  BY DEF CatalogInv, RowsInv, LedgerInv
<1> QED BY <1>1, CatalogInvariance, PTL

(* However many ingests stage the same evidence at once, the ledger gets   *)
(* one entry for a source and its content.                                 *)
THEOREM EvidenceImportedOnce == ASSUME Lapsing = {} PROVE Spec => []OneImportPerContent
<1>1. CatalogInv => OneImportPerContent
  BY DEF CatalogInv, RowsInv, LedgerInv
<1> QED BY <1>1, CatalogInvariance, PTL

(* No row is visible in two files: a merged file and its inputs are never  *)
(* in the catalog together.                                                *)
THEOREM RowsVisibleOnce == ASSUME Lapsing = {} PROVE Spec => []NoRowTwice
<1>1. CatalogInv => NoRowTwice
  BY DEF CatalogInv, RowsInv, LedgerInv
<1> QED BY <1>1, CatalogInvariance, PTL

-----------------------------------------------------------------------------
(* The refinement.  Imported and View are the expressions that CaseCatalog *)
(* substitutes for the variables of AtomicImports.                         *)
Looking  == {"capturing", "open"}
Imported == RowsIn(meta.catalog \cap disk)
View     == [r \in Readers |-> IF pc[r] \in {"capturing", "open"}
                               THEN RowsIn(snap[r] \cap disk) ELSE NoOne]
AbstractStep == [Abstract!Next]_<<Imported, View>>

(* Nothing that is imported, nor seen by a query, is missing on the disk.  *)
PlainView ==
    /\ Imported = RowsIn(meta.catalog)
    /\ View = [r \in Readers |-> IF pc[r] \in Looking THEN RowsIn(snap[r]) ELSE NoOne]

(* What the state of a case shows of it is an abstract state.              *)
LEMMA WholeView == CatalogInv => PlainView
<1> SUFFICES ASSUME CatalogInv PROVE PlainView
  OBVIOUS
<1>1. meta.catalog \cap disk = meta.catalog
  BY DEF CatalogInv, CaseInv, CatalogOnDisk
<1>2. ASSUME NEW r \in Readers, pc[r] \in Looking PROVE snap[r] \cap disk = snap[r]
  <2>1. CASE pc[r] = "capturing"
    BY <2>1, <1>1 DEF CatalogInv, CaseInv, SnapshotInv, SeenInv, Critical
  <2>2. CASE pc[r] = "open"
    BY <2>2 DEF CatalogInv, CaseInv, LeasedOnDisk, RowsInv, OpenInv, Alive
  <2> QED BY <1>2, <2>1, <2>2 DEF Looking
<1> QED BY <1>1, <1>2 DEF PlainView, Imported, View, Looking

(* So does the next state, when the invariant is kept.                     *)
LEMMA WholeViewNext == CatalogInv' => PlainView'
BY WholeView, PTL

(* Queries go on seeing the same rows when no query opens or closes: the   *)
(* files of a snapshot are recorded, and keep their rows.                  *)
LEMMA SameView ==
    ASSUME CatalogInv, CatalogInv',
           \A r \in Readers : pc'[r] \in Looking <=> pc[r] \in Looking,
           \A r \in Readers : pc[r] \in Looking => snap'[r] = snap[r],
           \A f \in File : Recorded(f) => rows'[f] = rows[f]
    PROVE  View' = View
<1>1. View' = [r \in Readers |-> IF pc'[r] \in Looking THEN RowsIn(snap[r])' ELSE NoOne]
  BY WholeViewNext DEF PlainView
<1>2. ASSUME NEW r \in Readers, pc[r] \in Looking PROVE RowsIn(snap[r])' = RowsIn(snap[r])
  <2>1. snap'[r] = snap[r] /\ \A f \in snap[r] : rows'[f] = rows[f]
    BY <1>2, NamedFilesRecorded
  <2> QED BY <2>1 DEF RowsIn
<1> QED BY <1>1, <1>2, WholeView DEF PlainView

(* A step that no analyst can see.                                         *)
LEMMA HiddenStep ==
    ASSUME CatalogInv, CatalogInv', UNCHANGED meta,
           \A r \in Readers : pc'[r] \in Looking <=> pc[r] \in Looking,
           \A r \in Readers : pc[r] \in Looking => snap'[r] = snap[r],
           \A f \in File : Recorded(f) => rows'[f] = rows[f]
    PROVE  AbstractStep
<1>1. View' = View
  BY SameView
<1>2. \A f \in meta.catalog : rows'[f] = rows[f]
  BY NamedFilesRecorded
<1>3. Imported' = Imported
  <2>1. RowsIn(meta.catalog)' = RowsIn(meta.catalog)
    BY <1>2 DEF RowsIn
  <2> QED BY <2>1, WholeView, WholeViewNext DEF PlainView
<1> QED BY <1>1, <1>3 DEF AbstractStep

(* The commit of an ingest is the import, whole and at once.               *)
LEMMA PublishImports ==
    ASSUME CatalogInv, CatalogInv', NEW t \in Ingests, Publish(t)
    PROVE  AbstractStep
<1>1. /\ t \notin meta.runs
      /\ meta'.catalog = meta.catalog \cup Output(t)
      /\ \A e \in Entries(t), old \in meta.source_ledger :
            ~(old.source = e.source /\ old.sha256 = e.sha256)
  BY PublishLedger
<1>2. View' = View
  BY SameView DEF CatalogInv, CaseInv, TypeOK, Publish, Looking
<1>3. Imported' = Imported \cup RowsIn(Output(t))
  BY <1>1, WholeView, WholeViewNext DEF PlainView, RowsIn, Publish
<1>4. \A old \in Imported : old[1] # t
  BY <1>1, WholeView, CatalogRowsRecorded DEF PlainView
<1>5. {r \in Imported' : r[1] = t} = RowsIn(Output(t))
  BY <1>3, <1>4, IngestOutput
<1>6. Abstract!New(t, RowsIn(Output(t)))
  <2>1. ASSUME NEW r \in RowsIn(Output(t)), NEW old \in Imported, r[2] = old[2]
        PROVE  r[3] # old[3]
    <3>1. [source |-> r[2], sha256 |-> r[3], transaction_id |-> t] \in Entries(t)
      BY DEF Entries
    <3>2. \E e \in meta.source_ledger : old = <<e.transaction_id, e.source, e.sha256>>
      BY WholeView DEF PlainView, CatalogInv, RowsInv, LedgerInv, CatalogMatchesLedger
    <3> QED BY <1>1, <2>1, <3>1, <3>2
  <2> QED BY <2>1, IngestOutput DEF Abstract!New, Imported
<1>7. Abstract!Import(t)
  BY <1>2, <1>3, <1>4, <1>5, <1>6 DEF Abstract!Import, Imported, View
<1> QED BY <1>7 DEF AbstractStep, Abstract!Next

(* A compaction changes no row that anybody sees.                          *)
LEMMA PublishMergedHidden ==
    ASSUME CatalogInv, CatalogInv', NEW t \in Compactions, PublishMerged(t)
    PROVE  AbstractStep
<1>1. View' = View
  BY SameView DEF CatalogInv, CaseInv, TypeOK, PublishMerged, Looking
<1>2. rows' = rows /\ RowsIn(meta'.catalog) = RowsIn(meta.catalog)
  BY PublishMergedCatalog DEF PublishMerged
<1>3. Imported' = Imported
  <2>1. RowsIn(meta.catalog)' = RowsIn(meta.catalog)
    BY <1>2 DEF RowsIn
  <2> QED BY <2>1, WholeView, WholeViewNext DEF PlainView
<1> QED BY <1>1, <1>3 DEF AbstractStep

(* What cleanup_retired forgets was not in the catalog.                    *)
LEMMA ForgetRetiredHidden ==
    ASSUME CatalogInv, CatalogInv', NEW c \in Cleaners, ForgetRetired(c)
    PROVE  AbstractStep
<1>1. View' = View
  BY SameView DEF CatalogInv, CaseInv, TypeOK, ForgetRetired, Looking
<1>2. rows' = rows /\ meta'.catalog = meta.catalog
  BY DEF CatalogInv, CaseInv, TypeOK, SeenInv, Critical, ForgetRetired, Meta
<1>3. Imported' = Imported
  <2>1. RowsIn(meta.catalog)' = RowsIn(meta.catalog)
    BY <1>2 DEF RowsIn
  <2> QED BY <2>1, WholeView, WholeViewNext DEF PlainView
<1> QED BY <1>1, <1>3 DEF AbstractStep

(* A snapshot of the catalog shows all that is imported.                   *)
LEMMA CaptureOpens ==
    ASSUME CatalogInv, CatalogInv', NEW q \in Readers, Capture(q)
    PROVE  AbstractStep
<1>1. /\ UNCHANGED <<meta, rows, disk>>
      /\ snap' = [snap EXCEPT ![q] = meta.catalog] /\ snap \in [Holders -> SUBSET File]
      /\ pc' = [pc EXCEPT ![q] = "capturing"] /\ pc \in [Actors -> Labels] /\ pc[q] = "idle"
  BY DEF CatalogInv, CaseInv, TypeOK, Capture
<1>2. View[q] = NoOne
  BY <1>1 DEF View
<1>3. View' = [View EXCEPT ![q] = Imported]
  <2>1. /\ View = [r \in Readers |-> IF pc[r] \in Looking THEN RowsIn(snap[r]) ELSE NoOne]
        /\ View' = [r \in Readers |-> IF pc'[r] \in Looking THEN RowsIn(snap'[r]) ELSE NoOne]
        /\ Imported = RowsIn(meta.catalog)
    BY <1>1, WholeView, WholeViewNext DEF PlainView, RowsIn
  <2>2. \A r \in Readers : r # q => pc'[r] = pc[r] /\ snap'[r] = snap[r]
    BY <1>1
  <2>3. pc'[q] \in Looking /\ snap'[q] = meta.catalog
    BY <1>1 DEF Looking
  <2> HIDE DEF Imported, View
  <2> QED BY <2>1, <2>2, <2>3
<1>4. Imported' = Imported
  BY <1>1 DEF Imported, RowsIn
<1>5. Abstract!Open(q)
  BY <1>2, <1>3, <1>4 DEF Abstract!Open, Imported, View
<1> QED BY <1>5 DEF AbstractStep, Abstract!Next

(* A connection that ends, in whatever way, closes its view and no other.  *)
LEMMA ViewCloses ==
    ASSUME CatalogInv, NEW q \in Readers, NEW label, label \notin Looking,
           pc' = [pc EXCEPT ![q] = label], UNCHANGED <<meta, rows, disk, snap>>
    PROVE  AbstractStep
<1>1. pc \in [Actors -> Labels]
  BY DEF CatalogInv, CaseInv, TypeOK
<1>2. View' = [View EXCEPT ![q] = NoOne]
  <2> DEFINE Seen(r) == IF pc[r] \in {"capturing", "open"} THEN RowsIn(snap[r] \cap disk) ELSE NoOne
  <2>1. Seen(q)' = NoOne
    BY <1>1 DEF Looking, Actors
  <2>2. \A r \in Readers : r # q => Seen(r)' = Seen(r)
    BY <1>1 DEF RowsIn
  <2> QED
    BY <2>1, <2>2 DEF View
<1>3. Imported' = Imported
  BY DEF Imported, RowsIn
<1>4. CASE View[q] = NoOne
  <2>1. View' = View
    BY <1>2, <1>4 DEF View
  <2> QED BY <1>3, <2>1 DEF AbstractStep
<1>5. CASE View[q] # NoOne
  <2>1. Abstract!Close(q)
    BY <1>2, <1>3, <1>5 DEF Abstract!Close, Imported, View
  <2> QED BY <2>1 DEF AbstractStep, Abstract!Next
<1> QED BY <1>4, <1>5

(* Steps that leave case.json, the rows of files and every query alone.    *)
Unseen ==
    /\ UNCHANGED <<meta, rows>>
    /\ \A r \in Readers : pc'[r] = pc[r] /\ snap'[r] = snap[r]

(* They are hidden: steps of AtomicImports in which nothing happens.       *)
LEMMA UnseenStep == ASSUME CatalogInv, CatalogInv', Unseen PROVE AbstractStep
BY HiddenStep DEF Unseen

(* Of an ingest, all is hidden but its commit.                             *)
LEMMA IngestHidden ==
    ASSUME CatalogInv, CatalogInv', NEW t \in Ingests, Begin(t) \/ IngestStep(t)
    PROVE  AbstractStep
<1>1. CASE Begin(t) \/ Enter(t) \/ LockCase(t) \/ Validate(t) \/ CheckCommit(t)
  BY <1>1, UnseenStep
     DEF CatalogInv, CaseInv, TypeOK, Unseen, Begin, Enter, LockCase, Validate, CheckCommit
<1>2. CASE GiveUp(t) \/ Unlock(t) \/ Finish(t)
  BY <1>2, UnseenStep DEF CatalogInv, CaseInv, TypeOK, Unseen, GiveUp, Fail, Unlock, Finish
<1> QED BY <1>1, <1>2, PublishImports DEF IngestStep, TxnStep

(* Of a worker, all.                                                       *)
LEMMA WorkerHidden ==
    ASSUME CatalogInv, CatalogInv', NEW t \in Ingests, NEW s \in Sources,
           WorkerStep(t, s) \/ WorkerDies(t, s)
    PROVE  AbstractStep
<1>1. CASE WorkerStage(t, s)
  BY <1>1, StageTouchesNoRecorded, HiddenStep DEF WorkerStage
<1>2. CASE WorkerStart(t, s) \/ WorkerEnd(t, s) \/ WorkerDies(t, s)
  BY <1>2, UnseenStep DEF Unseen, WorkerStart, WorkerEnd, WorkerDies
<1> QED BY <1>1, <1>2 DEF WorkerStep

(* Of a compaction, all: its merged file has the rows of what it replaces. *)
LEMMA CompactionHidden ==
    ASSUME CatalogInv, CatalogInv', NEW t \in Compactions,
           Capture(t) \/ CaptureFails(t) \/ CompactionStep(t)
    PROVE  AbstractStep
<1>1. CASE Capture(t) \/ CaptureFails(t) \/ WriteLease(t) \/ Plan(t) \/ NothingToMerge(t)
  BY <1>1, UnseenStep
     DEF CatalogInv, CaseInv, TypeOK, Unseen, Capture, CaptureFails, WriteLease, Plan, NothingToMerge
<1>2. CASE Enter(t) \/ LockCase(t) \/ ValidateMerged(t) \/ CheckSnapshot(t) \/ Unlock(t) \/ Finish(t)
  BY <1>2, UnseenStep
     DEF CatalogInv, CaseInv, TypeOK, Unseen, Enter, LockCase, ValidateMerged, CheckSnapshot, Unlock, Finish
<1>3. CASE GiveUp(t) \/ StopMerging(t)
  BY <1>3, UnseenStep DEF CatalogInv, CaseInv, TypeOK, Unseen, GiveUp, StopMerging, Fail
<1>4. CASE WriteGroup(t)
  <2>1. \A f \in File : Recorded(f) => rows'[f] = rows[f]
    BY <1>4, WriteGroupTouchesNoRecorded
  <2>2. UNCHANGED <<meta, snap>> /\ \A r \in Readers : pc'[r] = pc[r]
    BY <1>4 DEF CatalogInv, CaseInv, TypeOK, WriteGroup
  <2> QED BY <2>1, <2>2, HiddenStep
<1> QED BY <1>1, <1>2, <1>3, <1>4, PublishMergedHidden DEF CompactionStep, TxnStep

(* What a query does is Open and Close of AtomicImports, or unseen.        *)
LEMMA QueryAbstract ==
    ASSUME CatalogInv, CatalogInv', NEW q \in Readers,
           Capture(q) \/ WriteLease(q) \/ CaptureFails(q) \/ Close(q)
    PROVE  AbstractStep
<1>1. CASE WriteLease(q)
  BY <1>1, HiddenStep DEF CatalogInv, CaseInv, TypeOK, WriteLease, Looking
<1>2. CASE CaptureFails(q) \/ Close(q)
  BY <1>2, ViewCloses DEF CaptureFails, Close, Looking
<1> QED BY <1>1, <1>2, CaptureOpens

(* Of a cleanup, all: it deletes no file that is in the catalog or in a    *)
(* snapshot.                                                               *)
LEMMA CleanerHidden ==
    ASSUME CatalogInv, CatalogInv', NEW c \in Cleaners,
           SweepStep(c) \/ RetireLock(c) \/ RetireStep(c) \/ CleanerRaises(c)
    PROVE  AbstractStep
<1>1. CASE SweepStep(c)
  BY <1>1, UnseenStep
     DEF CatalogInv, CaseInv, TypeOK, Unseen, SweepStep, SweepLock, PassOver, Claim, DeleteOutput,
         MarkCleaned, SweepDone, Leave
<1>2. CASE RetireLock(c) \/ ReadLeases(c) \/ KeepRetired(c) \/ UnlinkRetired(c) \/ CheckRetired(c)
  BY <1>2, UnseenStep
     DEF CatalogInv, CaseInv, TypeOK, Unseen, RetireLock, ReadLeases, KeepRetired, UnlinkRetired,
         CheckRetired
<1>3. CASE CleanerRaises(c)
  BY <1>3, UnseenStep DEF CatalogInv, CaseInv, TypeOK, Unseen, CleanerRaises
<1> QED BY <1>1, <1>2, <1>3, ForgetRetiredHidden DEF RetireStep

(* A process that dies takes its own view with it, if it had one.          *)
LEMMA DiesAbstract ==
    ASSUME CatalogInv, CatalogInv', NEW a \in Actors, Dies(a)
    PROVE  AbstractStep
<1>1. pc' = [pc EXCEPT ![a] = "dead"] /\ UNCHANGED <<meta, rows, disk, snap>>
  BY DEF Dies
<1>2. CASE a \in Readers
  BY <1>1, <1>2, ViewCloses DEF Looking
<1>3. CASE a \notin Readers
  BY <1>1, <1>3, UnseenStep DEF CatalogInv, CaseInv, TypeOK, Unseen
<1> QED BY <1>2, <1>3

(* Every step of the case is a step of AtomicImports, or none.             *)
LEMMA NextAbstract ==
    ASSUME Lapsing = {}
    PROVE  CatalogInv /\ [Next]_vars => AbstractStep
<1> SUFFICES ASSUME CatalogInv, CatalogInv', [Next]_vars PROVE AbstractStep
  BY NextCatalog
<1>1. ASSUME NEW t \in Txns, Abort(t) \/ PublishRaises(t) \/ EnterFails(t) PROVE AbstractStep
  BY <1>1, UnseenStep
     DEF CatalogInv, CaseInv, TypeOK, Unseen, Abort, PublishRaises, Fail, EnterFails
<1>2. ASSUME NEW s \in Sources, EvidenceChanges(s) PROVE AbstractStep
  BY <1>2, UnseenStep DEF Unseen, EvidenceChanges
<1>3. ~LockLapses
  BY DEF LockLapses
<1>4. CASE UNCHANGED vars
  BY <1>4, UnseenStep DEF Unseen, vars
<1> QED BY <1>1, <1>2, <1>3, <1>4, IngestHidden, WorkerHidden, CompactionHidden, QueryAbstract,
           CleanerHidden, DiesAbstract
        DEF Next

(* The case implements atomic imports and stable queries: no import is     *)
(* seen in part, lost or repeated, and compaction and cleanup are          *)
(* invisible.                                                              *)
THEOREM CaseRefinesImports == ASSUME Lapsing = {} PROVE Spec => ImplementsAtomicImports
<1>1. Init => Abstract!Init
  BY DEF Init, EmptyMeta, Abstract!Init, RowsIn
<1>2. CatalogInv /\ [Next]_vars => AbstractStep
  BY NextAbstract
<1> QED BY <1>1, <1>2, CatalogInvariance, PTL
        DEF Spec, ImplementsAtomicImports, Abstract!Spec, AbstractStep, Imported, View

-----------------------------------------------------------------------------
(***************************************************************************)
(* Query connections and their streams, for any number of processes,       *)
(* connections, streams, compactions and cleanups.  The invariant is that  *)
(* of the case with SessionInv.  Steps of connections, compactions and     *)
(* cleanups are steps of CaseCatalog; those of streams, and the death of a *)
(* process with all it has, are new to it.                                 *)
(***************************************************************************)
USE SessionsAssumption

-----------------------------------------------------------------------------
(* _active_streams against the streams there are.                          *)
LEMMA NobodyReads ==
    ASSUME SessionInv, NEW s \in Sessions, pc[s] = "open", active[s] = 0
    PROVE  ActiveOn(s) = {}
  BY FS_EmptySet DEF SessionInv, ActiveInv

(* Where one stream is counted, it is the one that ends.                   *)
LEMMA OneReads ==
    ASSUME SessionInv, NEW q \in Streams, pc[q] = "ending", active[parent[q]] = 1
    PROVE  ActiveOn(parent[q]) = {q}
<1>1. parent[q] \in Sessions /\ pc[parent[q]] = "open" /\ q \in ActiveOn(parent[q])
  BY DEF SessionInv, StreamInv, ClosedLast, ActiveOn
<1>2. PICK r : ActiveOn(parent[q]) = {r}
  BY <1>1, FS_Singleton DEF SessionInv, ActiveInv
<1> QED
  BY <1>1, <1>2

(* The count is right where neither it nor the streams have changed, ...   *)
SameCount(s) == ActiveOn(s)' = ActiveOn(s) /\ active'[s] = active[s]

(* ... and it stays right.                                                 *)
LEMMA CountKept ==
    ASSUME SessionInv, \A s \in Sessions : pc'[s] = "open" => pc[s] = "open" /\ SameCount(s)
    PROVE  ActiveInv'
<1> SUFFICES ASSUME NEW s \in Sessions, pc'[s] = "open"
             PROVE  IsFiniteSet(ActiveOn(s)') /\ active'[s] = Cardinality(ActiveOn(s)')
  BY DEF ActiveInv
<1>1. pc[s] = "open" /\ ActiveOn(s)' = ActiveOn(s) /\ active'[s] = active[s]
  BY DEF SameCount
<1> QED
  BY <1>1 DEF SessionInv, ActiveInv

(* Rows and snapshots that stay make whole connections stay whole.         *)
LEMMA WholeKept ==
    ASSUME SessionInv, UNCHANGED <<meta, rows>>,
           \A s \in Sessions : pc'[s] \in {"capturing", "open"} =>
               \/ snap'[s] = meta.catalog
               \/ snap'[s] = snap[s] /\ pc[s] \in {"capturing", "open"}
    PROVE  WholeInv'
<1> SUFFICES ASSUME NEW s \in Sessions, pc'[s] \in {"capturing", "open"}
             PROVE  RowsIn(snap[s])' = RowsIn(meta.catalog)'
  BY DEF WholeInv
<1>1. CASE snap'[s] = meta.catalog
  BY <1>1 DEF RowsIn
<1>2. CASE snap'[s] = snap[s] /\ pc[s] \in {"capturing", "open"}
  <2>1. RowsIn(snap[s]) = RowsIn(meta.catalog)
    BY <1>2 DEF SessionInv, WholeInv
  <2>2. RowsIn(snap[s])' = RowsIn(snap[s]) /\ RowsIn(meta.catalog)' = RowsIn(meta.catalog)
    BY <1>2 DEF RowsIn
  <2> QED
    BY <2>1, <2>2
<1> QED
  BY <1>1, <1>2

-----------------------------------------------------------------------------
(* A connection is built: snapshot, lease, views.                          *)
LEMMA OpenSession ==
    ASSUME CatalogInv, SessionInv, NEW h \in Handles, NEW s \in Sessions, Open(h, s)
    PROVE  SessionInv'
<1>1. SessionTypes'
  BY DEF SessionInv, CatalogInv, CaseInv, TypeOK, File, Row, Entry, Meta, TakeCaseLock,
      Capture, Labels, Phases, WorkerStates, Constructing, InCall, Ready, Open,
      SessionTypes
<1>2. OwnerInv'
  BY DEF SessionInv, CatalogInv, CaseInv, TypeOK, File, Row, Entry, Meta, TakeCaseLock,
      Capture, Labels, Phases, WorkerStates, Constructing, InCall, Ready, Open, Building,
      SessionTypes, OwnerInv
<1>3. StreamInv'
  BY DEF SessionInv, CatalogInv, CaseInv, TypeOK, File, Row, Entry, Meta, TakeCaseLock,
      Capture, Labels, Phases, WorkerStates, Constructing, InCall, Ready, Open,
      ClosedLast, StreamInv
<1>4. WholeInv'
  BY WholeKept DEF SessionInv, CatalogInv, CaseInv, TypeOK, File, Row, Entry, Meta,
      TakeCaseLock, Capture, Labels, Phases, WorkerStates, Constructing, InCall, Ready,
      Open, SessionTypes
<1>5. ActiveInv'
  <2>1. ASSUME NEW z \in Sessions, pc'[z] = "open"
        PROVE  pc[z] = "open" /\ SameCount(z)
    BY <2>1 DEF SameCount, SessionInv, CatalogInv, CaseInv, File, Row, Entry, Meta,
        TakeCaseLock, Capture, Labels, Phases, WorkerStates, TypeOK, Constructing, InCall,
        Ready, Open, ActiveOn, SessionTypes
  <2> QED
    BY <2>1, CountKept
<1> QED
  BY <1>1, <1>2, <1>3, <1>4, <1>5 DEF SessionInv

(* Its lease is written and the lock is let go.                            *)
LEMMA WriteLeaseSession ==
    ASSUME CatalogInv, SessionInv, NEW s \in Sessions, WriteLease(s), UNCHANGED sessionVars
    PROVE  SessionInv'
<1>1. SessionTypes'
  BY DEF SessionInv, CatalogInv, CaseInv, TypeOK, File, Row, Entry, Meta, EmptyMeta,
      FreeCaseLock, WriteLease, Labels, Phases, WorkerStates, sessionVars, SessionTypes
<1>2. OwnerInv'
  BY DEF SessionInv, CatalogInv, CaseInv, TypeOK, File, Row, Entry, Meta, EmptyMeta,
      FreeCaseLock, WriteLease, Labels, Phases, WorkerStates, sessionVars, Constructing,
      Building, OwnerInv
<1>3. StreamInv'
  BY DEF SessionInv, CatalogInv, CaseInv, TypeOK, File, Row, Entry, Meta, EmptyMeta,
      FreeCaseLock, WriteLease, Labels, Phases, WorkerStates, sessionVars, InCall,
      ClosedLast, StreamInv
<1>4. WholeInv'
  BY WholeKept DEF SessionInv, CatalogInv, CaseInv, TypeOK, File, Row, Entry, Meta,
      EmptyMeta, FreeCaseLock, WriteLease, Labels, Phases, WorkerStates, sessionVars,
      SessionTypes
<1>5. ActiveInv'
  <2>1. ASSUME NEW z \in Sessions, pc'[z] = "open"
        PROVE  IsFiniteSet(ActiveOn(z)') /\ active'[z] = Cardinality(ActiveOn(z)')
    <3>1. CASE z = s
      <4>1. ActiveOn(s)' = {} /\ active'[s] = 0
        BY DEF WriteLease, sessionVars, ActiveOn, SessionInv, SessionTypes, OwnerInv, StreamInv,
            ClosedLast, CatalogInv, CaseInv, TypeOK
      <4> QED
        BY <3>1, <4>1, FS_EmptySet
    <3>2. CASE z # s
      <4>1. pc[z] = "open" /\ ActiveOn(z)' = ActiveOn(z) /\ active'[z] = active[z]
        BY <2>1, <3>2 DEF WriteLease, sessionVars, ActiveOn, SessionInv, SessionTypes,
            CatalogInv, CaseInv, TypeOK
      <4> QED
        BY <4>1 DEF SessionInv, ActiveInv
    <3> QED
      BY <3>1, <3>2
  <2> QED
    BY <2>1 DEF ActiveInv
<1> QED
  BY <1>1, <1>2, <1>3, <1>4, <1>5 DEF SessionInv

(* A connection that cannot write its lease is not kept by its Case.       *)
LEMMA CaptureFailsSession ==
    ASSUME CatalogInv, SessionInv, NEW s \in Sessions, CaptureFails(s), UNCHANGED sessionVars
    PROVE  SessionInv'
<1>1. SessionTypes'
  BY DEF SessionInv, CatalogInv, CaseInv, TypeOK, File, Row, Entry, Meta, EmptyMeta,
      FreeCaseLock, CaptureFails, Labels, Phases, WorkerStates, sessionVars, SessionTypes
<1>2. OwnerInv'
  BY DEF SessionInv, CatalogInv, CaseInv, TypeOK, File, Row, Entry, Meta, EmptyMeta,
      FreeCaseLock, CaptureFails, Labels, Phases, WorkerStates, sessionVars, Constructing,
      Building, OwnerInv
<1>3. StreamInv'
  BY DEF SessionInv, CatalogInv, CaseInv, TypeOK, File, Row, Entry, Meta, EmptyMeta,
      FreeCaseLock, CaptureFails, Labels, Phases, WorkerStates, sessionVars, InCall,
      ClosedLast, StreamInv
<1>4. WholeInv'
  BY WholeKept DEF SessionInv, CatalogInv, CaseInv, TypeOK, File, Row, Entry, Meta,
      EmptyMeta, FreeCaseLock, CaptureFails, Labels, Phases, WorkerStates, sessionVars,
      SessionTypes
<1>5. ActiveInv'
  <2>1. ASSUME NEW z \in Sessions, pc'[z] = "open"
        PROVE  pc[z] = "open" /\ SameCount(z)
    BY <2>1 DEF SameCount, SessionInv, CatalogInv, CaseInv, File, Row, Entry, Meta,
        EmptyMeta, FreeCaseLock, CaptureFails, Labels, Phases, WorkerStates, TypeOK,
        sessionVars, ActiveOn, SessionTypes
  <2> QED
    BY <2>1, CountKept
<1> QED
  BY <1>1, <1>2, <1>3, <1>4, <1>5 DEF SessionInv

(* The connection is complete, and its Case keeps it.                      *)
LEMMA CreateViewsSession ==
    ASSUME CatalogInv, SessionInv, NEW s \in Sessions, CreateViews(s)
    PROVE  SessionInv'
<1>1. SessionTypes'
  BY DEF SessionInv, CatalogInv, CaseInv, TypeOK, File, Row, Entry, Meta, vars, Labels,
      Phases, WorkerStates, Constructing, CreateViews, SessionTypes
<1>2. OwnerInv'
  BY DEF SessionInv, CatalogInv, CaseInv, TypeOK, File, Row, Entry, Meta, vars, Labels,
      Phases, WorkerStates, Constructing, CreateViews, Building, OwnerInv
<1>3. StreamInv'
  BY DEF SessionInv, CatalogInv, CaseInv, TypeOK, File, Row, Entry, Meta, vars, Labels,
      Phases, WorkerStates, Constructing, InCall, CreateViews, ClosedLast, Building,
      SessionTypes, OwnerInv, StreamInv
<1>4. WholeInv'
  BY WholeKept DEF SessionInv, CatalogInv, CaseInv, TypeOK, File, Row, Entry, Meta, vars,
      Labels, Phases, WorkerStates, Constructing, CreateViews, SessionTypes
<1>5. ActiveInv'
  <2>1. ASSUME NEW z \in Sessions, pc'[z] = "open"
        PROVE  pc[z] = "open" /\ SameCount(z)
    BY <2>1 DEF SameCount, SessionInv, CatalogInv, CaseInv, File, Row, Entry, Meta, vars,
        Labels, Phases, WorkerStates, TypeOK, Constructing, CreateViews, ActiveOn,
        SessionTypes
  <2> QED
    BY <2>1, CountKept
<1> QED
  BY <1>1, <1>2, <1>3, <1>4, <1>5 DEF SessionInv

(* One that cannot create its views is closed.                             *)
LEMMA ViewsFailSession ==
    ASSUME CatalogInv, SessionInv, NEW s \in Sessions, ViewsFail(s)
    PROVE  SessionInv'
<1>1. SessionTypes'
  BY DEF SessionInv, CatalogInv, CaseInv, TypeOK, File, Row, Entry, Meta, Close, Labels,
      Phases, WorkerStates, sessionVars, Constructing, ViewsFail, SessionTypes
<1>2. OwnerInv'
  BY DEF SessionInv, CatalogInv, CaseInv, TypeOK, File, Row, Entry, Meta, Close, Labels,
      Phases, WorkerStates, sessionVars, Constructing, ViewsFail, Building, OwnerInv
<1>3. StreamInv'
  BY DEF SessionInv, CatalogInv, CaseInv, TypeOK, File, Row, Entry, Meta, Close, Labels,
      Phases, WorkerStates, sessionVars, Constructing, InCall, ViewsFail, ClosedLast,
      SessionTypes, StreamInv
<1>4. WholeInv'
  BY WholeKept DEF SessionInv, CatalogInv, CaseInv, TypeOK, File, Row, Entry, Meta, Close,
      Labels, Phases, WorkerStates, sessionVars, Constructing, ViewsFail, SessionTypes
<1>5. ActiveInv'
  <2>1. ASSUME NEW z \in Sessions, pc'[z] = "open"
        PROVE  pc[z] = "open" /\ SameCount(z)
    BY <2>1 DEF SameCount, SessionInv, CatalogInv, CaseInv, File, Row, Entry, Meta, Close,
        Labels, Phases, WorkerStates, TypeOK, sessionVars, Constructing, ViewsFail,
        ActiveOn, SessionTypes
  <2> QED
    BY <2>1, CountKept
<1> QED
  BY <1>1, <1>2, <1>3, <1>4, <1>5 DEF SessionInv

(* Nobody reads from a connection that is closed.                          *)
LEMMA RefreshSession ==
    ASSUME CatalogInv, SessionInv, NEW h \in Handles, Refresh(h)
    PROVE  SessionInv'
<1>a. active[db[h]] = 0 => ActiveOn(db[h]) = {}
  BY NobodyReads DEF Refresh, SessionInv, SessionTypes, OwnerInv
<1>b. /\ UNCHANGED <<meta, rows, snap>>
      /\ \A z \in Sessions : pc'[z] \in {"capturing", "open"} => pc[z] \in {"capturing", "open"}
  <2>1. CASE UNCHANGED vars
    BY <2>1 DEF vars
  <2>2. CASE Close(db[h])
    BY <2>2 DEF Close, CatalogInv, CaseInv, TypeOK
  <2> QED
    BY <2>1, <2>2 DEF Refresh
<1>c. /\ db[h] \in Sessions /\ home[db[h]] = h /\ pc[db[h]] = "open" /\ db[h] # NoOne
      /\ \A q \in Streams : InCall(q) => home[parent[q]] # h
  BY DEF Refresh, Ready, SessionInv, SessionTypes, OwnerInv
<1>d. /\ UNCHANGED <<home, parent, active>> /\ leased' \subseteq leased
      /\ closing' = [closing EXCEPT ![db[h]] = TRUE] /\ db' = [db EXCEPT ![h] = NoOne]
      /\ \A r \in Readers : pc'[r] = IF r = db[h] /\ active[r] = 0 THEN "idle" ELSE pc[r]
  <2>1. CASE active[db[h]] = 0
    BY <1>c, <2>1 DEF Refresh, Close, CatalogInv, CaseInv, TypeOK
  <2>2. CASE active[db[h]] # 0
    BY <2>2 DEF Refresh, vars
  <2> QED
    BY <2>1, <2>2
<1>1. SessionTypes'
  BY <1>a, <1>c, <1>d DEF SessionInv, CatalogInv, CaseInv, TypeOK, File, Row, Entry, Meta,
      Labels, Phases, WorkerStates, SessionTypes
<1>2. OwnerInv'
  <2>1. ASSUME NEW s \in Sessions, Building(s)' PROVE Building(s) /\ home[s] # h
    <3>1. s # db[h]
      BY <1>c, <1>d, <2>1 DEF Building, Constructing, SessionInv, SessionTypes
    <3>2. pc[s] = pc'[s] /\ closing'[s] = closing[s] /\ home' = home
      BY <1>c, <1>d, <3>1 DEF Building, Constructing, SessionInv, SessionTypes
    <3>3. pc[s] = "open" => home[s] \in Handles
      BY DEF SessionInv, OwnerInv
    <3>4. home[s] = h => Building(s)
      BY <1>c, <2>1, <3>1, <3>2 DEF Building, Constructing
    <3>5. home[s] # h
      BY <1>c, <3>4 DEF SessionInv, OwnerInv
    <3>6. db'[home[s]] = db[home[s]]
      BY <1>d, <3>3, <3>5 DEF SessionInv, SessionTypes
    <3> QED
      BY <2>1, <3>2, <3>5, <3>6 DEF Building, Constructing
  <2>2. \A s \in Sessions : pc'[s] \in {"capturing", "open"} => home'[s] \in Handles
    BY <1>d DEF SessionInv, OwnerInv
  <2>3. \A s \in Sessions : pc'[s] = "capturing" => ~closing'[s] /\ active'[s] = 0
    BY <1>c, <1>d DEF SessionInv, SessionTypes, OwnerInv
  <2>4. ASSUME NEW k \in Handles, db'[k] # NoOne
        PROVE  pc'[db'[k]] = "open" /\ home'[db'[k]] = k /\ ~closing'[db'[k]]
    <3>1. k # h /\ db'[k] = db[k] /\ db[k] \in Sessions
      BY <1>d, <2>4 DEF SessionInv, SessionTypes
    <3>2. pc[db[k]] = "open" /\ home[db[k]] = k /\ ~closing[db[k]] /\ db[k] # db[h]
      BY <1>c, <2>4, <3>1 DEF SessionInv, OwnerInv
    <3> QED
      BY <1>d, <3>1, <3>2 DEF SessionInv, SessionTypes
  <2>5. ASSUME NEW s \in Sessions, Building(s)' PROVE db'[home'[s]] = NoOne
    <3>1. home[s] \in Handles /\ db[home[s]] = NoOne
      BY <2>1, <2>5 DEF SessionInv, OwnerInv, Building, Constructing
    <3> QED
      BY <1>d, <3>1 DEF SessionInv, SessionTypes
  <2> QED
    BY <1>d, <2>1, <2>2, <2>3, <2>4, <2>5 DEF SessionInv, OwnerInv
<1>3. StreamInv'
  <2>1. \A z \in Streams : pc'[z] = pc[z]
    BY <1>c, <1>d
  <2>2. ASSUME NEW z \in Streams, pc[z] \in {"retaining", "open", "ending"}
        PROVE  /\ parent[z] \in Sessions /\ pc'[parent[z]] = "open"
               /\ closing'[parent[z]] \/ db'[home[parent[z]]] = parent[z]
    <3>1. /\ parent[z] \in Sessions /\ pc[parent[z]] = "open"
          /\ closing[parent[z]] \/ db[home[parent[z]]] = parent[z]
      BY <2>2 DEF SessionInv, StreamInv, ClosedLast
    <3>2. parent[z] = db[h] => z \in ActiveOn(db[h])
      BY <1>c, <2>2 DEF ActiveOn, InCall
    <3>3. pc'[parent[z]] = "open"
      BY <1>a, <1>d, <3>1, <3>2
    <3>4. home[parent[z]] \in Handles
      BY <3>1 DEF SessionInv, OwnerInv
    <3> QED
      BY <1>d, <3>1, <3>3, <3>4 DEF SessionInv, SessionTypes
  <2> QED
    BY <1>d, <2>1, <2>2 DEF SessionInv, StreamInv, ClosedLast, InCall
<1>4. WholeInv'
  BY WholeKept, <1>b DEF SessionInv, CatalogInv, CaseInv, TypeOK, File, Row, Entry, Meta,
      Labels, Phases, WorkerStates, SessionTypes
<1>5. ActiveInv'
  <2>1. ASSUME NEW z \in Sessions, pc'[z] = "open"
        PROVE  pc[z] = "open" /\ SameCount(z)
    BY <2>1, <1>c, <1>d DEF SameCount, SessionInv, CatalogInv, CaseInv, File, Row, Entry,
        Meta, Labels, Phases, WorkerStates, TypeOK, ActiveOn, SessionTypes
  <2> QED
    BY <2>1, CountKept
<1> QED
  BY <1>1, <1>2, <1>3, <1>4, <1>5 DEF SessionInv

(* A stream begins on the connection of its Case, ...                      *)
LEMMA StartStreamSession ==
    ASSUME CatalogInv, SessionInv, NEW q \in Streams, NEW s \in Sessions, StartStream(q, s)
    PROVE  SessionInv'
<1>1. SessionTypes'
  BY DEF SessionInv, CatalogInv, CaseInv, TypeOK, File, Row, Entry, Meta, TakeCaseLock,
      Labels, Phases, WorkerStates, Constructing, InCall, Ready, StartStream, SessionTypes
<1>2. OwnerInv'
  BY DEF SessionInv, CatalogInv, CaseInv, TypeOK, File, Row, Entry, Meta, TakeCaseLock,
      Labels, Phases, WorkerStates, Constructing, InCall, Ready, StartStream, Building,
      OwnerInv
<1>3. StreamInv'
  <2>1. /\ pc[q] = "idle" /\ pc[s] = "open" /\ ~closing[s] /\ q # s
        /\ \A r \in Streams : InCall(r) => home[parent[r]] # home[s]
    BY DEF StartStream, Ready
  <2>2. /\ \A z \in Readers : z # q => pc'[z] = pc[z]
        /\ pc'[q] = "retaining" /\ parent'[q] = s
        /\ \A z \in Streams : z # q => parent'[z] = parent[z]
        /\ closing' = closing /\ db' = db /\ home' = home /\ leased' = leased
    <3>1. TypeOK /\ SessionTypes /\ q \in Readers /\ Streams \subseteq Readers /\ Sessions \subseteq Readers
      BY SessionsAssumption DEF CatalogInv, CaseInv, SessionInv
    <3>2. /\ pc' = [pc EXCEPT ![q] = "retaining"] /\ parent' = [parent EXCEPT ![q] = s]
          /\ closing' = closing /\ db' = db /\ home' = home /\ leased' = leased
      BY DEF StartStream, Goto, leaseVars
    <3>3. \A z \in Readers : z \in DOMAIN pc
      BY <3>1, SessionsAssumption DEF TypeOK, Actors, Holders
    <3>4. DOMAIN parent = Streams
      BY <3>1 DEF SessionTypes
    <3> QED
      BY <3>1, <3>2, <3>3, <3>4
  <2>3. db[home[s]] = s /\ q \notin leased
    BY <2>1 DEF StartStream, Ready, Constructing, CatalogInv, CaseInv, SnapshotInv
  <2> QED
    BY <2>1, <2>2, <2>3, SessionsAssumption DEF SessionInv, StreamInv, ClosedLast, InCall
<1>4. WholeInv'
  BY WholeKept DEF SessionInv, CatalogInv, CaseInv, TypeOK, File, Row, Entry, Meta,
      TakeCaseLock, Labels, Phases, WorkerStates, Constructing, InCall, Ready,
      StartStream, SessionTypes
<1>5. ActiveInv'
  <2>1. ASSUME NEW z \in Sessions, pc'[z] = "open"
        PROVE  pc[z] = "open" /\ SameCount(z)
    BY <2>1 DEF SameCount, SessionInv, CatalogInv, CaseInv, File, Row, Entry, Meta,
        TakeCaseLock, Labels, Phases, WorkerStates, TypeOK, Constructing, InCall, Ready,
        StartStream, ActiveOn, SessionTypes
  <2> QED
    BY <2>1, CountKept
<1> QED
  BY <1>1, <1>2, <1>3, <1>4, <1>5 DEF SessionInv

(* The lease of a stream is written, and it begins to read.                *)
LEMMA WriteStreamLeaseSession ==
    ASSUME CatalogInv, SessionInv, NEW q \in Streams, WriteStreamLease(q)
    PROVE  SessionInv'
<1>1. SessionTypes'
  BY DEF SessionInv, CatalogInv, CaseInv, TypeOK, File, Row, Entry, Meta, EmptyMeta,
      FreeCaseLock, Labels, Phases, WorkerStates, Constructing, InCall, WriteStreamLease,
      ClosedLast, Building, SessionTypes, OwnerInv, StreamInv
<1>2. OwnerInv'
  BY DEF SessionInv, CatalogInv, CaseInv, TypeOK, File, Row, Entry, Meta, EmptyMeta,
      FreeCaseLock, Labels, Phases, WorkerStates, Constructing, InCall, WriteStreamLease,
      ClosedLast, Building, SessionTypes, OwnerInv, StreamInv
<1>3. StreamInv'
  BY DEF SessionInv, CatalogInv, CaseInv, TypeOK, File, Row, Entry, Meta, EmptyMeta,
      FreeCaseLock, Labels, Phases, WorkerStates, InCall, WriteStreamLease, ClosedLast,
      StreamInv
<1>4. WholeInv'
  BY WholeKept DEF SessionInv, CatalogInv, CaseInv, TypeOK, File, Row, Entry, Meta,
      EmptyMeta, FreeCaseLock, Labels, Phases, WorkerStates, WriteStreamLease,
      SessionTypes
<1>5. ActiveInv'
  <2>1. ASSUME NEW z \in Sessions, pc'[z] = "open"
        PROVE  IsFiniteSet(ActiveOn(z)') /\ active'[z] = Cardinality(ActiveOn(z)')
    <3>1. pc[z] = "open" /\ IsFiniteSet(ActiveOn(z)) /\ active[z] = Cardinality(ActiveOn(z))
      BY <2>1 DEF WriteStreamLease, SessionInv, SessionTypes, ActiveInv, CatalogInv, CaseInv,
          TypeOK
    <3>2. CASE z = parent[q]
      <4>1. ActiveOn(z)' = ActiveOn(z) \cup {q} /\ q \notin ActiveOn(z)
        BY <3>2 DEF WriteStreamLease, ActiveOn, CatalogInv, CaseInv, TypeOK
      <4>2. active'[z] = active[z] + 1
        BY <3>2 DEF WriteStreamLease, SessionInv, SessionTypes
      <4> QED
        BY <3>1, <4>1, <4>2, FS_AddElement
    <3>3. CASE z # parent[q]
      <4>1. ActiveOn(z)' = ActiveOn(z) /\ active'[z] = active[z]
        BY <3>3 DEF WriteStreamLease, ActiveOn, SessionInv, SessionTypes, CatalogInv, CaseInv,
            TypeOK
      <4> QED
        BY <3>1, <4>1
    <3> QED
      BY <3>2, <3>3
  <2> QED
    BY <2>1 DEF ActiveInv
<1> QED
  BY <1>1, <1>2, <1>3, <1>4, <1>5 DEF SessionInv

(* A stream without a lease is no stream of its connection.                *)
LEMMA RetainFailsSession ==
    ASSUME CatalogInv, SessionInv, NEW q \in Streams, RetainFails(q)
    PROVE  SessionInv'
<1>1. SessionTypes'
  BY DEF SessionInv, CatalogInv, CaseInv, TypeOK, File, Row, Entry, Meta, EmptyMeta,
      FreeCaseLock, Labels, Phases, WorkerStates, RetainFails, SessionTypes
<1>2. OwnerInv'
  BY DEF SessionInv, CatalogInv, CaseInv, TypeOK, File, Row, Entry, Meta, EmptyMeta,
      FreeCaseLock, Labels, Phases, WorkerStates, Constructing, RetainFails, Building,
      OwnerInv
<1>3. StreamInv'
  BY DEF SessionInv, CatalogInv, CaseInv, TypeOK, File, Row, Entry, Meta, EmptyMeta,
      FreeCaseLock, Labels, Phases, WorkerStates, InCall, RetainFails, ClosedLast,
      StreamInv
<1>4. WholeInv'
  BY WholeKept DEF SessionInv, CatalogInv, CaseInv, TypeOK, File, Row, Entry, Meta,
      EmptyMeta, FreeCaseLock, Labels, Phases, WorkerStates, RetainFails, SessionTypes
<1>5. ActiveInv'
  <2>1. ASSUME NEW z \in Sessions, pc'[z] = "open"
        PROVE  pc[z] = "open" /\ SameCount(z)
    BY <2>1 DEF SameCount, SessionInv, CatalogInv, CaseInv, File, Row, Entry, Meta,
        EmptyMeta, FreeCaseLock, Labels, Phases, WorkerStates, TypeOK, RetainFails,
        ActiveOn, SessionTypes
  <2> QED
    BY <2>1, CountKept
<1> QED
  BY <1>1, <1>2, <1>3, <1>4, <1>5 DEF SessionInv

(* ... and ends: the last one closes a connection that waits for it.       *)
LEMMA EndStreamSession ==
    ASSUME CatalogInv, SessionInv, NEW q \in Streams, EndStream(q)
    PROVE  SessionInv'
<1>1. SessionTypes'
  BY DEF SessionInv, CatalogInv, CaseInv, TypeOK, File, Row, Entry, Meta, Labels, Phases,
      WorkerStates, sessionVars, Constructing, InCall, Ready, EndStream, SessionTypes
<1>2. OwnerInv'
  BY DEF SessionInv, CatalogInv, CaseInv, TypeOK, File, Row, Entry, Meta, Labels, Phases,
      WorkerStates, sessionVars, Constructing, InCall, Ready, EndStream, Building,
      SessionTypes, OwnerInv
<1>3. StreamInv'
  BY DEF SessionInv, CatalogInv, CaseInv, TypeOK, File, Row, Entry, Meta, Labels, Phases,
      WorkerStates, sessionVars, Constructing, InCall, Ready, EndStream, ClosedLast,
      StreamInv
<1>4. WholeInv'
  BY WholeKept DEF SessionInv, CatalogInv, CaseInv, TypeOK, File, Row, Entry, Meta,
      Labels, Phases, WorkerStates, sessionVars, Constructing, InCall, Ready, EndStream,
      SessionTypes
<1>5. ActiveInv'
  <2>1. ASSUME NEW z \in Sessions, pc'[z] = "open"
        PROVE  pc[z] = "open" /\ SameCount(z)
    BY <2>1 DEF SameCount, SessionInv, CatalogInv, CaseInv, File, Row, Entry, Meta,
        Labels, Phases, WorkerStates, TypeOK, sessionVars, Constructing, InCall, Ready,
        EndStream, ActiveOn, SessionTypes
  <2> QED
    BY <2>1, CountKept
<1> QED
  BY <1>1, <1>2, <1>3, <1>4, <1>5 DEF SessionInv

(* The last stream closes a connection that waits for it.                  *)
LEMMA LeaveSessionSession ==
    ASSUME CatalogInv, SessionInv, NEW q \in Streams, LeaveSession(q)
    PROVE  SessionInv'
<1>a. /\ parent[q] \in Sessions /\ pc[parent[q]] = "open" /\ active[parent[q]] - 1 \in Nat
      /\ active[parent[q]] = 1 => ActiveOn(parent[q]) = {q}
  <2>1. parent[q] \in Sessions /\ pc[parent[q]] = "open" /\ q \in ActiveOn(parent[q])
    BY DEF LeaveSession, SessionInv, StreamInv, ClosedLast, ActiveOn
  <2>2. active[parent[q]] \in Nat /\ active[parent[q]] # 0
    BY <2>1, NobodyReads DEF SessionInv, SessionTypes
  <2> QED
    BY <2>1, <2>2, OneReads DEF LeaveSession
<1>1. SessionTypes'
  BY <1>a DEF SessionInv, CatalogInv, CaseInv, TypeOK, File, Row, Entry, Meta, Labels,
      Phases, WorkerStates, LastOut, LeaveSession, SessionTypes
<1>2. OwnerInv'
  BY <1>a DEF SessionInv, CatalogInv, CaseInv, TypeOK, File, Row, Entry, Meta, Labels,
      Phases, WorkerStates, Constructing, LastOut, LeaveSession, Building, SessionTypes,
      OwnerInv
<1>3. StreamInv'
  <2>1. /\ parent' = [parent EXCEPT ![q] = NoOne] /\ UNCHANGED <<db, home, closing>>
        /\ leased' \subseteq leased
        /\ \A r \in Readers : pc'[r] = IF r = q \/ (r = parent[q] /\ LastOut(r)) THEN "idle" ELSE pc[r]
    BY <1>a DEF LeaveSession, CatalogInv, CaseInv, TypeOK
  <2>2. InCall(q) /\ \A z \in Streams : pc'[z] = IF z = q THEN "idle" ELSE pc[z]
    BY <1>a, <2>1 DEF LeaveSession, InCall
  <2>3. ASSUME NEW z \in Streams, z # q, pc[z] \in {"retaining", "open", "ending"}
        PROVE  /\ parent'[z] = parent[z] /\ parent[z] \in Sessions /\ pc'[parent[z]] = "open"
               /\ closing[parent[z]] \/ db[home[parent[z]]] = parent[z]
    <3>1. /\ parent[z] \in Sessions /\ pc[parent[z]] = "open"
          /\ closing[parent[z]] \/ db[home[parent[z]]] = parent[z]
      BY <2>3 DEF SessionInv, StreamInv, ClosedLast
    <3>2. parent'[z] = parent[z]
      BY <2>1, <2>3 DEF SessionInv, SessionTypes
    <3>3. CASE parent[z] = parent[q] /\ LastOut(parent[q])
      <4>1. pc[z] = "retaining"
        BY <1>a, <2>3, <3>3 DEF ActiveOn, LastOut
      <4> QED
        BY <2>2, <2>3, <3>3, <4>1 DEF SessionInv, StreamInv, InCall
    <3> QED
      BY <2>1, <3>1, <3>2, <3>3
  <2> QED
    BY <2>1, <2>2, <2>3 DEF SessionInv, StreamInv, ClosedLast, InCall
<1>4. WholeInv'
  BY WholeKept, <1>a DEF SessionInv, CatalogInv, CaseInv, TypeOK, File, Row, Entry, Meta,
      Labels, Phases, WorkerStates, LastOut, LeaveSession, SessionTypes
<1>5. ActiveInv'
  <2>1. ASSUME NEW z \in Sessions, pc'[z] = "open"
        PROVE  IsFiniteSet(ActiveOn(z)') /\ active'[z] = Cardinality(ActiveOn(z)')
    <3>1. pc[z] = "open" /\ IsFiniteSet(ActiveOn(z)) /\ active[z] = Cardinality(ActiveOn(z))
      BY <2>1 DEF LeaveSession, SessionInv, SessionTypes, ActiveInv, CatalogInv, CaseInv, TypeOK
    <3>2. CASE z = parent[q]
      <4>1. ActiveOn(z)' = ActiveOn(z) \ {q} /\ q \in ActiveOn(z)
        BY <3>2 DEF LeaveSession, ActiveOn, SessionInv, SessionTypes, CatalogInv, CaseInv, TypeOK
      <4>2. active'[z] = active[z] - 1
        BY <3>2 DEF LeaveSession, SessionInv, SessionTypes
      <4> QED
        BY <3>1, <4>1, <4>2, FS_RemoveElement
    <3>3. CASE z # parent[q]
      <4>1. ActiveOn(z)' = ActiveOn(z) /\ active'[z] = active[z]
        BY <3>3 DEF LeaveSession, ActiveOn, SessionInv, SessionTypes, CatalogInv, CaseInv, TypeOK
      <4> QED
        BY <3>1, <4>1
    <3> QED
      BY <3>2, <3>3
  <2> QED
    BY <2>1 DEF ActiveInv
<1> QED
  BY <1>1, <1>2, <1>3, <1>4, <1>5 DEF SessionInv

(* A process dies with its connections and the streams on them.            *)
LEMMA ProcessDiesSession ==
    ASSUME CatalogInv, SessionInv, NEW h \in Handles, ProcessDies(h)
    PROVE  SessionInv'
<1>1. SessionTypes'
  BY DEF SessionInv, CatalogInv, CaseInv, TypeOK, File, Row, Entry, Meta, EmptyMeta,
      Labels, Phases, WorkerStates, Lost, ProcessDies, SessionTypes
<1>2. OwnerInv'
  BY DEF SessionInv, CatalogInv, CaseInv, TypeOK, File, Row, Entry, Meta, EmptyMeta,
      Labels, Phases, WorkerStates, Constructing, Lost, ProcessDies, Building,
      SessionTypes, OwnerInv
<1>3. StreamInv'
  BY DEF SessionInv, CatalogInv, CaseInv, TypeOK, File, Row, Entry, Meta, EmptyMeta,
      Labels, Phases, WorkerStates, InCall, Lost, ProcessDies, ClosedLast, StreamInv
<1>4. WholeInv'
  BY WholeKept DEF SessionInv, CatalogInv, CaseInv, TypeOK, File, Row, Entry, Meta,
      EmptyMeta, Labels, Phases, WorkerStates, Lost, ProcessDies, SessionTypes
<1>5. ActiveInv'
  <2>1. ASSUME NEW z \in Sessions, pc'[z] = "open"
        PROVE  pc[z] = "open" /\ SameCount(z)
    BY <2>1 DEF SameCount, SessionInv, CatalogInv, CaseInv, File, Row, Entry, Meta,
        EmptyMeta, Labels, Phases, WorkerStates, TypeOK, Lost, ProcessDies, ActiveOn,
        SessionTypes
  <2> QED
    BY <2>1, CountKept
<1> QED
  BY <1>1, <1>2, <1>3, <1>4, <1>5 DEF SessionInv

-----------------------------------------------------------------------------
(* What streams and deaths do to the case: the invariant of CaseCatalog,   *)
(* conjunct by conjunct, and no row is touched.                            *)
LEMMA StartStreamCase ==
    ASSUME CatalogInv, SessionInv, NEW q \in Streams, NEW s \in Sessions, StartStream(q, s)
    PROVE  CatalogInv'
<1>1. TypeOK'
  BY DEF CatalogInv, CaseInv, File, Row, Entry, Meta, TakeCaseLock, Labels, Phases,
      WorkerStates, TypeOK, Constructing, InCall, Ready, StartStream
<1>2. (LockInv /\ SeenInv)'
  BY DEF CatalogInv, CaseInv, File, Row, Entry, Meta, TakeCaseLock, Labels, Phases,
      WorkerStates, TypeOK, Critical, LockInv, SeenInv, Constructing, InCall, Ready,
      StartStream
<1>3. (WorkspaceInv /\ RunsInv /\ SweepInv)'
  BY DEF CatalogInv, CaseInv, TakeCaseLock, Working, WorkspaceInv, RunsInv, SweepInv,
      Constructing, InCall, Ready, StartStream
<1>4. (SnapshotInv /\ DoomedInv)'
  BY DEF CatalogInv, CaseInv, Alive, TakeCaseLock, SnapshotInv, DoomedInv, Constructing,
      InCall, Ready, StartStream
<1>5. (CatalogOnDisk /\ LeasedOnDisk)'
  BY DEF CatalogInv, CaseInv, Alive, TakeCaseLock, CatalogOnDisk, LeasedOnDisk,
      Constructing, InCall, Ready, StartStream
<1>6. (CommittedNeverCleaned /\ NoWorkerBeneathCleanup /\ CleanedIsEmpty)'
  BY DEF CatalogInv, CaseInv, Output, TakeCaseLock, CommittedNeverCleaned,
      NoWorkerBeneathCleanup, CleanedIsEmpty, Constructing, InCall, Ready, StartStream
<1>7. Quiet
  BY DEF Quiet, CatalogInv, CaseInv, File, Row, Entry, Meta, Output, RowsIn, TakeCaseLock,
      Entries, Duplicate, Labels, Phases, WorkerStates, TypeOK, OneImportPerContent,
      CatalogMatchesLedger, NoRowTwice, Validated, StagingInv, OutputInv, MergeInv,
      CheckedInv, LedgerInv, OpenInv, RowsInv, Constructing, InCall, Ready, StartStream
<1> QED
  BY <1>1, <1>2, <1>3, <1>4, <1>5, <1>6, <1>7, QuietStep DEF CatalogInv, CaseInv

(* To the case, the lease of a stream is that of one more reader.          *)
LEMMA WriteStreamLeaseCase ==
    ASSUME CatalogInv, SessionInv, NEW q \in Streams, WriteStreamLease(q)
    PROVE  CatalogInv'
<1>a. parent[q] \in Sessions /\ pc[parent[q]] = "open" /\ parent[q] \in leased
  BY DEF WriteStreamLease, SessionInv, StreamInv, ClosedLast, CatalogInv, RowsInv, OpenInv
<1>b. /\ leased' = leased \cup {q} /\ UNCHANGED <<meta, disk>>
      /\ \A r \in Holders : snap'[r] = IF r = q THEN snap[parent[q]] ELSE snap[r]
      /\ \A r \in Holders : r # q => Alive(r)' = Alive(r)
      /\ snap[parent[q]] \subseteq disk
  BY <1>a DEF WriteStreamLease, CatalogInv, CaseInv, TypeOK, LeasedOnDisk, Alive
<1>1. TypeOK'
  BY <1>a DEF CatalogInv, CaseInv, File, Row, Entry, Meta, EmptyMeta, FreeCaseLock,
      Labels, Phases, WorkerStates, TypeOK, WriteStreamLease
<1>2. (LockInv /\ SeenInv)'
  BY <1>a DEF CatalogInv, CaseInv, File, Row, Entry, Meta, EmptyMeta, FreeCaseLock,
      Labels, Phases, WorkerStates, TypeOK, Critical, LockInv, SeenInv, WriteStreamLease
<1>3. (WorkspaceInv /\ RunsInv /\ SweepInv)'
  BY <1>a DEF CatalogInv, CaseInv, EmptyMeta, FreeCaseLock, Working, WorkspaceInv,
      RunsInv, SweepInv, WriteStreamLease
<1>4. (SnapshotInv /\ DoomedInv)'
  BY <1>a DEF CatalogInv, CaseInv, File, Row, Entry, Meta, EmptyMeta, Alive, FreeCaseLock,
      Labels, Phases, WorkerStates, TypeOK, Critical, LockInv, SnapshotInv, DoomedInv,
      WriteStreamLease
<1>5. (CatalogOnDisk /\ LeasedOnDisk)'
  BY <1>a, <1>b DEF CatalogInv, CaseInv, File, Row, Entry, Meta, Alive, Labels, Phases,
      WorkerStates, TypeOK, CatalogOnDisk, LeasedOnDisk
<1>6. (CommittedNeverCleaned /\ NoWorkerBeneathCleanup /\ CleanedIsEmpty)'
  BY <1>a DEF CatalogInv, CaseInv, EmptyMeta, Output, FreeCaseLock, CommittedNeverCleaned,
      NoWorkerBeneathCleanup, CleanedIsEmpty, WriteStreamLease
<1>7. Quiet
  BY <1>a DEF Quiet, CatalogInv, CaseInv, File, Row, Entry, Meta, EmptyMeta, Output,
      RowsIn, FreeCaseLock, Entries, Duplicate, Labels, Phases, WorkerStates, TypeOK,
      OneImportPerContent, CatalogMatchesLedger, NoRowTwice, Validated, StagingInv,
      OutputInv, MergeInv, CheckedInv, LedgerInv, OpenInv, RowsInv, WriteStreamLease
<1> QED
  BY <1>1, <1>2, <1>3, <1>4, <1>5, <1>6, <1>7, QuietStep DEF CatalogInv, CaseInv

(* A stream without a lease lets the lock go.                              *)
LEMMA RetainFailsCase ==
    ASSUME CatalogInv, SessionInv, NEW q \in Streams, RetainFails(q)
    PROVE  CatalogInv'
<1>a. q \notin leased
  BY DEF RetainFails, SessionInv, StreamInv, InCall
<1>1. TypeOK'
  BY <1>a DEF CatalogInv, CaseInv, File, Row, Entry, Meta, EmptyMeta, FreeCaseLock,
      Labels, Phases, WorkerStates, TypeOK, RetainFails
<1>2. (LockInv /\ SeenInv)'
  BY <1>a DEF CatalogInv, CaseInv, File, Row, Entry, Meta, EmptyMeta, FreeCaseLock,
      Labels, Phases, WorkerStates, TypeOK, Critical, LockInv, SeenInv, RetainFails
<1>3. (WorkspaceInv /\ RunsInv /\ SweepInv)'
  BY <1>a DEF CatalogInv, CaseInv, EmptyMeta, FreeCaseLock, Working, WorkspaceInv,
      RunsInv, SweepInv, RetainFails
<1>4. (SnapshotInv /\ DoomedInv)'
  BY <1>a DEF CatalogInv, CaseInv, File, Row, Entry, Meta, EmptyMeta, Alive, FreeCaseLock,
      Labels, Phases, WorkerStates, TypeOK, Critical, Working, LockInv, SeenInv,
      WorkspaceInv, SnapshotInv, DoomedInv, RetainFails
<1>5. (CatalogOnDisk /\ LeasedOnDisk)'
  BY <1>a DEF CatalogInv, CaseInv, EmptyMeta, Alive, FreeCaseLock, CatalogOnDisk,
      LeasedOnDisk, RetainFails
<1>6. (CommittedNeverCleaned /\ NoWorkerBeneathCleanup /\ CleanedIsEmpty)'
  BY <1>a DEF CatalogInv, CaseInv, EmptyMeta, Output, FreeCaseLock, CommittedNeverCleaned,
      NoWorkerBeneathCleanup, CleanedIsEmpty, RetainFails
<1>7. Quiet
  BY <1>a DEF Quiet, CatalogInv, CaseInv, File, Row, Entry, Meta, EmptyMeta, Output,
      RowsIn, FreeCaseLock, Entries, Duplicate, Labels, Phases, WorkerStates, TypeOK,
      OneImportPerContent, CatalogMatchesLedger, NoRowTwice, Validated, StagingInv,
      OutputInv, MergeInv, CheckedInv, LedgerInv, OpenInv, RowsInv, RetainFails
<1> QED
  BY <1>1, <1>2, <1>3, <1>4, <1>5, <1>6, <1>7, QuietStep DEF CatalogInv, CaseInv

(* A stream begins to end: its cursor is closed.                           *)
LEMMA EndStreamCase ==
    ASSUME CatalogInv, SessionInv, NEW q \in Streams, EndStream(q)
    PROVE  CatalogInv'
<1>1. TypeOK'
  BY DEF CatalogInv, CaseInv, File, Row, Entry, Meta, Labels, Phases, WorkerStates,
      TypeOK, sessionVars, Constructing, InCall, Ready, EndStream
<1>2. (LockInv /\ SeenInv)'
  BY DEF CatalogInv, CaseInv, Critical, LockInv, SeenInv, sessionVars, Constructing,
      InCall, Ready, EndStream
<1>3. (WorkspaceInv /\ RunsInv /\ SweepInv)'
  BY DEF CatalogInv, CaseInv, Working, WorkspaceInv, RunsInv, SweepInv, sessionVars,
      Constructing, InCall, Ready, EndStream
<1>4. (SnapshotInv /\ DoomedInv)'
  BY DEF CatalogInv, CaseInv, Alive, SnapshotInv, DoomedInv, sessionVars, Constructing,
      InCall, Ready, EndStream
<1>5. (CatalogOnDisk /\ LeasedOnDisk)'
  BY DEF CatalogInv, CaseInv, Alive, CatalogOnDisk, LeasedOnDisk, sessionVars,
      Constructing, InCall, Ready, EndStream
<1>6. (CommittedNeverCleaned /\ NoWorkerBeneathCleanup /\ CleanedIsEmpty)'
  BY DEF CatalogInv, CaseInv, Output, CommittedNeverCleaned, NoWorkerBeneathCleanup,
      CleanedIsEmpty, sessionVars, Constructing, InCall, Ready, EndStream
<1>7. Quiet
  BY DEF Quiet, CatalogInv, CaseInv, File, Row, Entry, Meta, Output, RowsIn, Entries,
      Duplicate, Labels, Phases, WorkerStates, TypeOK, OneImportPerContent,
      CatalogMatchesLedger, NoRowTwice, Validated, StagingInv, OutputInv, MergeInv,
      CheckedInv, LedgerInv, OpenInv, RowsInv, sessionVars, Constructing, InCall, Ready,
      EndStream
<1> QED
  BY <1>1, <1>2, <1>3, <1>4, <1>5, <1>6, <1>7, QuietStep DEF CatalogInv, CaseInv

(* It gives up its lease, and the last one that of the connection too.     *)
LEMMA LeaveSessionCase ==
    ASSUME CatalogInv, SessionInv, NEW q \in Streams, LeaveSession(q)
    PROVE  CatalogInv'
<1>a. parent[q] \in Sessions /\ pc[parent[q]] = "open"
  BY DEF LeaveSession, SessionInv, StreamInv, ClosedLast
<1>b. /\ UNCHANGED <<caseVars, fileVars, txnVars, snap, sweepVars>>
      /\ leased' \subseteq leased
      /\ \A a \in Actors :
            \/ pc'[a] = pc[a]
            \/ a \in Readers \ leased' /\ pc[a] \in {"open", "ending"} /\ pc'[a] = "idle"
  BY <1>a DEF LeaveSession, SessionInv, StreamInv, InCall, CatalogInv, CaseInv, TypeOK
<1>1. TypeOK'
  BY <1>a DEF CatalogInv, CaseInv, File, Row, Entry, Meta, Labels, Phases, WorkerStates,
      TypeOK, LastOut, LeaveSession
<1>2. (LockInv /\ SeenInv)'
  BY <1>b DEF CatalogInv, CaseInv, Critical, LockInv, SeenInv
<1>3. (WorkspaceInv /\ RunsInv /\ SweepInv)'
  BY <1>b DEF CatalogInv, CaseInv, File, Row, Entry, Meta, Labels, Phases, WorkerStates,
      TypeOK, Critical, Working, LockInv, SeenInv, WorkspaceInv, RunsInv, SweepInv,
      SnapshotInv
<1>4. (SnapshotInv /\ DoomedInv)'
  BY <1>b DEF CatalogInv, CaseInv, File, Row, Entry, Meta, Alive, Labels, Phases,
      WorkerStates, TypeOK, Critical, LockInv, SeenInv, SweepInv, SnapshotInv, DoomedInv
<1>5. (CatalogOnDisk /\ LeasedOnDisk)'
  BY <1>a DEF CatalogInv, CaseInv, File, Row, Entry, Meta, Alive, Labels, Phases,
      WorkerStates, TypeOK, CatalogOnDisk, LeasedOnDisk, LastOut, LeaveSession
<1>6. (CommittedNeverCleaned /\ NoWorkerBeneathCleanup /\ CleanedIsEmpty)'
  BY <1>a DEF CatalogInv, CaseInv, Output, CommittedNeverCleaned, NoWorkerBeneathCleanup,
      CleanedIsEmpty, LastOut, LeaveSession
<1>7. Quiet
  BY <1>a DEF Quiet, CatalogInv, CaseInv, File, Row, Entry, Meta, Output, RowsIn, Entries,
      Duplicate, Labels, Phases, WorkerStates, TypeOK, OneImportPerContent,
      CatalogMatchesLedger, NoRowTwice, Validated, StagingInv, OutputInv, MergeInv,
      CheckedInv, LedgerInv, OpenInv, RowsInv, LastOut, LeaveSession
<1> QED
  BY <1>1, <1>2, <1>3, <1>4, <1>5, <1>6, <1>7, QuietStep DEF CatalogInv, CaseInv

(* A process dies with its connections and streams; their leases stay      *)
(* behind.                                                                 *)
LEMMA ProcessDiesCase ==
    ASSUME CatalogInv, SessionInv, NEW h \in Handles, ProcessDies(h)
    PROVE  CatalogInv'
<1>1. TypeOK'
  BY DEF CatalogInv, CaseInv, File, Row, Entry, Meta, EmptyMeta, Labels, Phases,
      WorkerStates, TypeOK, Lost, ProcessDies
<1>2. (LockInv /\ SeenInv)'
  BY DEF CatalogInv, CaseInv, EmptyMeta, Critical, LockInv, SeenInv, Lost, ProcessDies
<1>3. (WorkspaceInv /\ RunsInv /\ SweepInv)'
  BY DEF CatalogInv, CaseInv, File, Row, Entry, Meta, EmptyMeta, Labels, Phases,
      WorkerStates, TypeOK, Working, WorkspaceInv, RunsInv, SweepInv, Lost, ProcessDies
<1>4. (SnapshotInv /\ DoomedInv)'
  BY DEF CatalogInv, CaseInv, File, Row, Entry, Meta, EmptyMeta, Alive, Labels, Phases,
      WorkerStates, TypeOK, SnapshotInv, DoomedInv, Lost, ProcessDies
<1>5. (CatalogOnDisk /\ LeasedOnDisk)'
  BY DEF CatalogInv, CaseInv, File, Row, Entry, Meta, EmptyMeta, Alive, Labels, Phases,
      WorkerStates, TypeOK, CatalogOnDisk, LeasedOnDisk, Lost, ProcessDies
<1>6. (CommittedNeverCleaned /\ NoWorkerBeneathCleanup /\ CleanedIsEmpty)'
  BY DEF CatalogInv, CaseInv, EmptyMeta, Output, CommittedNeverCleaned,
      NoWorkerBeneathCleanup, CleanedIsEmpty, Lost, ProcessDies
<1>7. Quiet
  BY DEF Quiet, CatalogInv, CaseInv, File, Row, Entry, Meta, EmptyMeta, Output, RowsIn,
      Entries, Duplicate, Labels, Phases, WorkerStates, TypeOK, OneImportPerContent,
      CatalogMatchesLedger, NoRowTwice, Validated, StagingInv, OutputInv, MergeInv,
      CheckedInv, LedgerInv, OpenInv, RowsInv, Lost, ProcessDies
<1> QED
  BY <1>1, <1>2, <1>3, <1>4, <1>5, <1>6, <1>7, QuietStep DEF CatalogInv, CaseInv

-----------------------------------------------------------------------------
(* Compactions and cleanups leave the connections and their rows alone.    *)
Calm ==
    /\ \A r \in Readers : pc'[r] = pc[r] /\ snap'[r] = snap[r] /\ (r \in leased' => r \in leased)
    /\ \A f \in File : Recorded(f) => rows'[f] = rows[f]
    /\ RowsIn(meta.catalog)' = RowsIn(meta.catalog)

(* Steps that change neither the catalog nor rows, and touch no reader,    *)
(* are calm.                                                               *)
LEMMA CalmFrame ==
    ASSUME UNCHANGED <<meta, rows>>,
           \A r \in Readers : pc'[r] = pc[r] /\ snap'[r] = snap[r] /\ (r \in leased' => r \in leased)
    PROVE  Calm
  BY DEF Calm, RowsIn

(* Those of a compaction are, the publication included: the rows of the    *)
(* catalog stay.                                                           *)
LEMMA CompactionCalm ==
    ASSUME CatalogInv, NEW t \in Compactions, Capture(t) \/ CompactionStep(t)
    PROVE  Calm
<1>1. CASE Capture(t) \/ WriteLease(t) \/ Plan(t) \/ NothingToMerge(t)
  BY <1>1, CalmFrame
     DEF CatalogInv, CaseInv, TypeOK, Capture, WriteLease, Plan, NothingToMerge
<1>2. CASE Enter(t) \/ LockCase(t) \/ ValidateMerged(t) \/ CheckSnapshot(t) \/ Unlock(t) \/ Finish(t)
  BY <1>2, CalmFrame
     DEF CatalogInv, CaseInv, TypeOK, Enter, LockCase, ValidateMerged, CheckSnapshot, Unlock, Finish
<1>3. CASE GiveUp(t) \/ StopMerging(t)
  BY <1>3, CalmFrame DEF CatalogInv, CaseInv, TypeOK, GiveUp, StopMerging, Fail
<1>4. CASE WriteGroup(t)
  <2>1. \A f \in File : Recorded(f) => rows'[f] = rows[f]
    BY <1>4, WriteGroupTouchesNoRecorded
  <2>2. meta' = meta /\ \A f \in meta.catalog : rows'[f] = rows[f]
    BY <1>4, <2>1, NamedFilesRecorded DEF WriteGroup
  <2>3. RowsIn(meta.catalog)' = RowsIn(meta.catalog)
    BY <2>2 DEF RowsIn
  <2> QED
    BY <1>4, <2>1, <2>3 DEF Calm, CatalogInv, CaseInv, TypeOK, WriteGroup
<1>5. CASE PublishMerged(t)
  <2>1. rows' = rows /\ RowsIn(meta'.catalog) = RowsIn(meta.catalog)
    BY <1>5, PublishMergedCatalog DEF PublishMerged
  <2>2. RowsIn(meta.catalog)' = RowsIn(meta.catalog)
    BY <2>1 DEF RowsIn
  <2> QED
    BY <1>5, <2>1, <2>2 DEF Calm, CatalogInv, CaseInv, TypeOK, PublishMerged
<1> QED
  BY <1>1, <1>2, <1>3, <1>4, <1>5 DEF CompactionStep, TxnStep

(* Those of a cleanup are.                                                 *)
LEMMA CleanerCalm ==
    ASSUME CatalogInv, NEW c \in Cleaners, RetireLock(c) \/ RetireStep(c) \/ Leave(c)
    PROVE  Calm
<1>1. CASE RetireLock(c) \/ ReadLeases(c) \/ KeepRetired(c)
  BY <1>1, CalmFrame DEF CatalogInv, CaseInv, TypeOK, RetireLock, ReadLeases, KeepRetired
<1>2. CASE UnlinkRetired(c) \/ CheckRetired(c) \/ Leave(c)
  BY <1>2, CalmFrame DEF CatalogInv, CaseInv, TypeOK, UnlinkRetired, CheckRetired, Leave
<1>3. CASE ForgetRetired(c)
  <2>1. seen[c] = meta /\ meta \in Meta
    BY <1>3 DEF CatalogInv, CaseInv, TypeOK, SeenInv, ForgetRetired, Critical
  <2>2. rows' = rows /\ meta'.catalog = meta.catalog
    BY <1>3, <2>1 DEF ForgetRetired, Meta
  <2>3. RowsIn(meta.catalog)' = RowsIn(meta.catalog)
    BY <2>2 DEF RowsIn
  <2> QED
    BY <1>3, <2>2, <2>3 DEF Calm, CatalogInv, CaseInv, TypeOK, ForgetRetired
<1> QED
  BY <1>1, <1>2, <1>3 DEF RetireStep

(* So none of them disturbs a connection.                                  *)
LEMMA MaintenanceSession ==
    ASSUME CatalogInv, SessionInv, Maintenance
    PROVE  SessionInv'
<1>1. Calm /\ UNCHANGED sessionVars
  BY CompactionCalm, CleanerCalm DEF Maintenance
<1>2. SessionTypes' /\ OwnerInv' /\ StreamInv'
  BY <1>1 DEF Calm, sessionVars, SessionInv, SessionTypes, OwnerInv, StreamInv, ClosedLast,
      InCall, Building, Constructing
<1>3. ActiveInv'
  <2>1. ASSUME NEW s \in Sessions
        PROVE  ActiveOn(s)' = ActiveOn(s) /\ pc'[s] = pc[s]
    BY <1>1 DEF Calm, sessionVars, ActiveOn
  <2> QED
    BY <1>1, <2>1, CountKept DEF sessionVars, SameCount
<1>4. WholeInv'
  <2> SUFFICES ASSUME NEW s \in Sessions, pc'[s] \in {"capturing", "open"}
               PROVE  RowsIn(snap[s])' = RowsIn(meta.catalog)'
    BY DEF WholeInv
  <2>1. snap'[s] = snap[s] /\ \A f \in snap[s] : rows'[f] = rows[f]
    BY <1>1, NamedFilesRecorded DEF Calm
  <2>2. RowsIn(snap[s])' = RowsIn(snap[s])
    BY <2>1 DEF RowsIn
  <2> QED
    BY <1>1, <2>2 DEF Calm, SessionInv, WholeInv
<1> QED
  BY <1>2, <1>3, <1>4 DEF SessionInv

-----------------------------------------------------------------------------
(* Connections and maintenance: steps of CaseCatalog.                      *)
LEMMA SharedStep ==
    ASSUME Lapsing = {}, CatalogInv,
           \/ \E s \in Sessions : Capture(s) \/ WriteLease(s) \/ CaptureFails(s) \/ Close(s)
           \/ Maintenance
           \/ UNCHANGED vars
    PROVE  CatalogInv'
<1>1. [Next]_vars
  BY DEF Next, Maintenance, SweepStep
<1> QED
  BY <1>1, NextCatalog

(* Nor does a step in which nothing happens.                               *)
LEMMA SessionStutter ==
    ASSUME SessionInv, UNCHANGED allVars
    PROVE  SessionInv'
  BY DEF allVars, vars, sessionVars, SessionInv, SessionTypes, OwnerInv, StreamInv, ActiveInv,
      WholeInv, ClosedLast, InCall, Building, Constructing, ActiveOn, RowsIn

(* Every step keeps both invariants.                                       *)
LEMMA SessionsStep ==
    ASSUME Lapsing = {}, CatalogInv, SessionInv, [SessionsNext]_allVars
    PROVE  CatalogInv' /\ SessionInv'
<1>1. ASSUME NEW s \in Sessions, SessionStep(s) \/ ViewsFail(s) \/ (CaptureFails(s) /\ UNCHANGED sessionVars)
      PROVE  CatalogInv' /\ SessionInv'
  BY <1>1, SharedStep, WriteLeaseSession, CreateViewsSession, ViewsFailSession,
      CaptureFailsSession DEF SessionStep, CreateViews, ViewsFail
<1>2. ASSUME NEW h \in Handles, NEW s \in Sessions, Open(h, s)
      PROVE  CatalogInv' /\ SessionInv'
  BY <1>2, SharedStep, OpenSession DEF Open
<1>3. ASSUME NEW h \in Handles, Refresh(h)
      PROVE  CatalogInv' /\ SessionInv'
  <2>1. db[h] \in Sessions
    BY <1>3 DEF Refresh, SessionInv, SessionTypes
  <2> QED
    BY <1>3, <2>1, SharedStep, RefreshSession DEF Refresh
<1>4. ASSUME NEW h \in Handles, ProcessDies(h)
      PROVE  CatalogInv' /\ SessionInv'
  BY <1>4, ProcessDiesCase, ProcessDiesSession
<1>5. ASSUME NEW q \in Streams, StreamStep(q) \/ RetainFails(q) \/ EndStream(q)
      PROVE  CatalogInv' /\ SessionInv'
  BY <1>5, WriteStreamLeaseCase, WriteStreamLeaseSession, LeaveSessionCase,
      LeaveSessionSession, RetainFailsCase, RetainFailsSession, EndStreamCase,
      EndStreamSession DEF StreamStep
<1>6. ASSUME NEW q \in Streams, NEW s \in Sessions, StartStream(q, s)
      PROVE  CatalogInv' /\ SessionInv'
  BY <1>6, StartStreamCase, StartStreamSession
<1>7. CASE Maintenance
  BY <1>7, SharedStep, MaintenanceSession
<1>8. CASE UNCHANGED allVars
  BY <1>8, SharedStep, SessionStutter DEF allVars
<1> QED
  BY <1>1, <1>2, <1>3, <1>4, <1>5, <1>6, <1>7, <1>8 DEF SessionsNext

-----------------------------------------------------------------------------
(* The case of one import that is there at first.                          *)
LEMMA OneImportFields ==
    ASSUME NEW t \in Ingests, content \in [Sources -> Contents], meta = OneImport(t)
    PROVE  /\ meta \in Meta
           /\ meta.catalog = {t} \X Sources /\ meta.retired = {} /\ meta.runs = {t}
           /\ \A e \in meta.source_ledger :
                e.source \in Sources /\ e.sha256 = content[e.source] /\ e.transaction_id = t
           /\ meta.source_ledger =
                {[source |-> s, sha256 |-> content[s], transaction_id |-> t] : s \in Sources}
  BY DEF OneImport, Meta, File, Entry

(* The first state has one import in the catalog.                          *)
LEMMA SessionsInitCase ==
    ASSUME SessionsInit
    PROVE  CatalogInv
<1>0. PICK t \in Ingests :
        /\ meta = OneImport(t)
        /\ disk = meta.catalog
        /\ rows = [f \in File |-> IF f \in disk THEN {<<t, f[2], content[f[2]]>>} ELSE {}]
        /\ phase = [u \in Txns |-> IF u = t THEN "committed" ELSE "none"]
        /\ pc = [a \in Actors |-> IF a = t THEN "done" ELSE "idle"]
  BY DEF SessionsInit
<1>1. /\ meta \in Meta
      /\ meta.catalog = {t} \X Sources /\ meta.retired = {} /\ meta.runs = {t}
      /\ \A e \in meta.source_ledger :
           e.source \in Sources /\ e.sha256 = content[e.source] /\ e.transaction_id = t
      /\ meta.source_ledger =
           {[source |-> s, sha256 |-> content[s], transaction_id |-> t] : s \in Sources}
  BY <1>0, OneImportFields DEF SessionsInit
<1>2. \A s \in Sources : <<t, s>> \in disk /\ rows[<<t, s>>] = {<<t, s, content[s]>>}
  BY <1>0, <1>1 DEF File
<1>3. TypeOK
  <2>1. rows \in [File -> SUBSET Row]
    BY <1>0, <1>1 DEF SessionsInit, File, Row
  <2> QED
    BY <1>0, <1>1, <2>1 DEF SessionsInit, TypeOK, Labels, Phases, WorkerStates, EmptyMeta, Meta, File
<1>4. LockInv /\ SeenInv /\ WorkspaceInv /\ SweepInv /\ SnapshotInv /\ DoomedInv
  BY <1>0 DEF SessionsInit, LockInv, SeenInv, WorkspaceInv, SweepInv, SnapshotInv, DoomedInv,
      Critical, Working
<1>5. RunsInv
  BY <1>0, <1>1 DEF SessionsInit, RunsInv
<1>6. CatalogOnDisk /\ LeasedOnDisk /\ CommittedNeverCleaned /\ NoWorkerBeneathCleanup /\ CleanedIsEmpty
  BY <1>0, <1>1 DEF SessionsInit, CatalogOnDisk, LeasedOnDisk, CommittedNeverCleaned,
      NoWorkerBeneathCleanup, CleanedIsEmpty
<1>7. StagingInv /\ MergeInv /\ CheckedInv /\ OpenInv
  BY <1>0 DEF SessionsInit, StagingInv, MergeInv, CheckedInv, OpenInv, Validated
<1>8. OutputInv
  BY <1>0, <1>1, <1>2 DEF SessionsInit, OutputInv
<1>9. LedgerInv
  <2>1. CatalogMatchesLedger
    <3>1. RowsIn(meta.catalog) = {<<t, s, content[s]>> : s \in Sources}
      <4>1. \A f \in meta.catalog : \E s \in Sources : f = <<t, s>>
        BY <1>1
      <4>2. \A s \in Sources : <<t, s>> \in meta.catalog
        BY <1>1
      <4>3. ASSUME NEW r \in RowsIn(meta.catalog)
            PROVE  r \in {<<t, s, content[s]>> : s \in Sources}
        <5>1. PICK f \in meta.catalog : r \in rows[f]
          BY <4>3 DEF RowsIn
        <5>2. PICK s \in Sources : f = <<t, s>>
          BY <4>1
        <5>3. r = <<t, s, content[s]>>
          BY <5>1, <5>2, <1>2
        <5> QED
          BY <5>3
      <4>4. ASSUME NEW s \in Sources
            PROVE  <<t, s, content[s]>> \in RowsIn(meta.catalog)
        <5>1. <<t, s, content[s]>> \in rows[<<t, s>>]
          BY <1>2
        <5> QED
          BY <5>1, <4>2 DEF RowsIn
      <4> QED
        BY <4>3, <4>4
    <3>2. {<<e.transaction_id, e.source, e.sha256>> : e \in meta.source_ledger}
            = {<<t, s, content[s]>> : s \in Sources}
      <4>1. ASSUME NEW e \in meta.source_ledger
            PROVE  <<e.transaction_id, e.source, e.sha256>> \in {<<t, s, content[s]>> : s \in Sources}
        <5>1. /\ e.source \in Sources
              /\ <<e.transaction_id, e.source, e.sha256>> = <<t, e.source, content[e.source]>>
          BY <1>1
        <5> QED
          BY <5>1
      <4>2. ASSUME NEW s \in Sources
            PROVE  \E e \in meta.source_ledger :
                     <<t, s, content[s]>> = <<e.transaction_id, e.source, e.sha256>>
        <5> DEFINE e == [source |-> s, sha256 |-> content[s], transaction_id |-> t]
        <5>1. e \in meta.source_ledger
          BY <1>1
        <5>2. e.source = s /\ e.sha256 = content[s] /\ e.transaction_id = t
          OBVIOUS
        <5> QED
          BY <5>1, <5>2
      <4> QED
        BY <4>1, <4>2
    <3> QED
      BY <3>1, <3>2 DEF CatalogMatchesLedger
  <2>2. OneImportPerContent
    BY <1>1 DEF OneImportPerContent
  <2>3. NoRowTwice
    BY <1>1, <1>2 DEF NoRowTwice
  <2> QED
    BY <1>1, <2>1, <2>2, <2>3 DEF LedgerInv
<1> QED
  BY <1>3, <1>4, <1>5, <1>6, <1>7, <1>8, <1>9 DEF CatalogInv, CaseInv, RowsInv

(* Nobody has a connection yet.                                            *)
LEMMA SessionsInitSession ==
    ASSUME SessionsInit
    PROVE  SessionInv
<1>1. \A r \in Readers : pc[r] = "idle"
  BY DEF SessionsInit
<1>2. SessionTypes /\ OwnerInv /\ StreamInv /\ ActiveInv /\ WholeInv
  BY <1>1 DEF SessionsInit, SessionTypes, OwnerInv, StreamInv, ActiveInv, WholeInv, ClosedLast,
      InCall, Building, Constructing
<1> QED
  BY <1>2 DEF SessionInv

(* The invariants of the case and of its connections hold in every state.  *)
THEOREM SessionInvariance ==
    ASSUME Lapsing = {}
    PROVE  SessionsSpec => [](CatalogInv /\ SessionInv)
<1>1. SessionsInit => CatalogInv /\ SessionInv
  BY SessionsInitCase, SessionsInitSession
<1>2. CatalogInv /\ SessionInv /\ [SessionsNext]_allVars => (CatalogInv /\ SessionInv)'
  BY SessionsStep
<1> QED
  BY <1>1, <1>2, PTL DEF SessionsSpec

-----------------------------------------------------------------------------
(* No connection is closed under a stream: neither by close(), nor by an   *)
(* ingest or a compaction, nor by another stream of it that ends.          *)
THEOREM StreamsCloseLast ==
    ASSUME Lapsing = {}
    PROVE  SessionsSpec => []ClosedLast
<1>1. SessionInv => ClosedLast
  BY DEF SessionInv, StreamInv
<1> QED
  BY <1>1, SessionInvariance, PTL

(* Every connection, and every stream on it, reads all rows of the case    *)
(* from files that exist, compacted and reclaimed meanwhile or not.        *)
THEOREM QueriesAreWhole ==
    ASSUME Lapsing = {}
    PROVE  SessionsSpec => []QueriesSeeWholeCase
<1>1. CatalogInv /\ SessionInv => QueriesSeeWholeCase
  <2> SUFFICES ASSUME CatalogInv, SessionInv
               PROVE  QueriesSeeWholeCase
    OBVIOUS
  <2>1. ASSUME NEW s \in Sessions, pc[s] = "open"
        PROVE  RowsIn(snap[s] \cap disk) =
                 {<<e.transaction_id, e.source, e.sha256>> : e \in meta.source_ledger}
    <3>1. snap[s] \cap disk = snap[s]
      <4>1. s \in leased
        BY <2>1, SessionsAssumption DEF CatalogInv, RowsInv, OpenInv
      <4>2. snap[s] \subseteq disk
        BY <2>1, <4>1 DEF CatalogInv, CaseInv, LeasedOnDisk, Alive
      <4> QED
        BY <4>2
    <3>2. RowsIn(snap[s]) = RowsIn(meta.catalog)
      BY <2>1 DEF SessionInv, WholeInv
    <3> QED
      BY <3>1, <3>2 DEF CatalogInv, RowsInv, LedgerInv, CatalogMatchesLedger
  <2>2. \A q \in Streams : pc[q] = "open" => parent[q] \in Sessions /\ pc[parent[q]] = "open"
    BY DEF SessionInv, StreamInv, ClosedLast
  <2>3. \A r \in Readers : r \in Streams \/ r \in Sessions
    BY SessionsAssumption
  <2> QED
    BY <2>1, <2>2, <2>3 DEF QueriesSeeWholeCase
<1> QED
  BY <1>1, SessionInvariance, PTL
================================================================================
