------------------------------ MODULE CaseCatalog ------------------------------
(***************************************************************************)
(* One case directory with everything that acts on it at once: ingests     *)
(* with their workers, compactions, query connections, both cleanups,      *)
(* evidence files that change, processes that die and a lock that may      *)
(* lapse.                                                                  *)
(***************************************************************************)
EXTENDS Compaction, WorkspaceCleanup

Init ==
    /\ meta = EmptyMeta
    /\ caseLock = NoOne
    /\ seen = [a \in Actors |-> EmptyMeta]
    /\ pc = [a \in Actors |-> "idle"]
    /\ disk = {}
    /\ rows = [f \in File |-> {}]
    /\ content \in [Sources -> Contents]
    /\ phase = [t \in Txns |-> "none"]
    /\ wsLock = [t \in Txns |-> NoOne]
    /\ scan = [t \in Ingests |-> {}]
    /\ worker = [t \in Ingests |-> [s \in Sources |-> "idle"]]
    /\ group = [t \in Compactions |-> {}]
    /\ leased = {}
    /\ snap = [h \in Holders |-> {}]
    /\ todo = [c \in Cleaners |-> {}]
    /\ target = [c \in Cleaners |-> NoOne]
    /\ doomed = [c \in Cleaners |-> {}]

(* A process dies: its locks are freed by the kernel (or lapse), its       *)
(* state.json, its leases and its files stay.                              *)
Dies(a) ==
    /\ a \in Mortal
    /\ Alive(a)
    /\ pc[a] \notin {"idle", "done", "failed"}
    /\ DropLocks(a)
    /\ Goto(a, "dead")
    /\ UNCHANGED <<meta, fileVars, phase, scan, worker, group, leaseVars>>

(* The analyst replaces an evidence file.                                  *)
EvidenceChanges(s) ==
    /\ \E c \in Contents \ {content[s]} : content' = [content EXCEPT ![s] = c]
    /\ UNCHANGED <<caseVars, pc, disk, rows, txnVars, leaseVars, sweepVars>>

WorkerStep(t, s) == WorkerStart(t, s) \/ WorkerStage(t, s) \/ WorkerEnd(t, s)

TxnStep(t) == Enter(t) \/ LockCase(t) \/ GiveUp(t) \/ Unlock(t) \/ Finish(t)

IngestStep(t) ==
    \/ TxnStep(t)
    \/ Validate(t) \/ CheckCommit(t) \/ Publish(t)

CompactionStep(t) ==
    \/ TxnStep(t)
    \/ WriteLease(t) \/ Plan(t) \/ NothingToMerge(t)
    \/ WriteGroup(t) \/ ValidateMerged(t) \/ CheckSnapshot(t) \/ PublishMerged(t)
    \/ StopMerging(t)

SweepStep(c) ==
    \/ SweepLock(c) \/ PassOver(c) \/ Claim(c) \/ DeleteOutput(c)
    \/ MarkCleaned(c) \/ SweepDone(c) \/ Leave(c)

RetireStep(c) ==
    \/ ReadLeases(c) \/ KeepRetired(c) \/ UnlinkRetired(c)
    \/ CheckRetired(c) \/ ForgetRetired(c)

Next ==
    \/ \E t \in Ingests : Begin(t) \/ IngestStep(t)
    \/ \E t \in Ingests, s \in Sources : WorkerStep(t, s) \/ WorkerDies(t, s)
    \/ \E t \in Compactions : Capture(t) \/ CaptureFails(t) \/ CompactionStep(t)
    \/ \E t \in Txns : Abort(t) \/ PublishRaises(t) \/ EnterFails(t)
    \/ \E r \in Readers : Capture(r) \/ WriteLease(r) \/ CaptureFails(r) \/ Close(r)
    \/ \E c \in Cleaners : SweepStep(c) \/ RetireLock(c) \/ RetireStep(c) \/ CleanerRaises(c)
    \/ \E a \in Actors : Dies(a)
    \/ \E s \in Sources : EvidenceChanges(s)
    \/ LockLapses

Spec == Init /\ [][Next]_vars

-----------------------------------------------------------------------------
(* Every process goes on with its own work, and a process that calls the   *)
(* cleanup goes on calling it, as every Case.ingest does first of all.     *)
(* The errors that end a cleanup early are passing ones, such as a file    *)
(* another program holds open.  Nobody is obliged to start an ingest, to   *)
(* fail or to die.                                                         *)
Fairness ==
    /\ \A t \in Ingests : WF_vars(IngestStep(t))
    /\ \A t \in Ingests, s \in Sources : WF_vars(WorkerStep(t, s))
    /\ \A t \in Compactions : WF_vars(CompactionStep(t))
    /\ \A r \in Readers : WF_vars(WriteLease(r))
    /\ \A c \in Cleaners :
         /\ SF_vars(SweepLock(c))
         /\ WF_vars(SweepStep(c) \/ RetireStep(c))
         /\ <>[][~CleanerRaises(c)]_vars

FairSpec == Spec /\ Fairness

-----------------------------------------------------------------------------
(* Types.                                                                  *)
Labels == {"idle", "created", "running", "merged", "validated", "locked", "owned",
           "published", "unlocked", "done", "failed", "dead", "capturing", "open",
           "leases", "unlinking", "forgetting", "sweeping", "deleting", "leaving",
           "retaining", "ending"}   \* the last two: streams, in QuerySessions
Phases == {"none", "empty", "running", "failed", "committed", "cleaning", "cleaned"}
WorkerStates == {"idle", "refused", "staging", "staged", "ok", "failed", "dead"}

(* Every variable keeps its type.                                          *)
TypeOK ==
    /\ meta \in Meta
    /\ caseLock \in Actors \cup {NoOne}
    /\ seen \in [Actors -> Meta]
    /\ pc \in [Actors -> Labels]
    /\ disk \in SUBSET File
    /\ rows \in [File -> SUBSET Row]
    /\ content \in [Sources -> Contents]
    /\ phase \in [Txns -> Phases]
    /\ wsLock \in [Txns -> Actors \cup {NoOne}]
    /\ scan \in [Ingests -> SUBSET Sources]
    /\ worker \in [Ingests -> [Sources -> WorkerStates]]
    /\ group \in [Compactions -> SUBSET File]
    /\ leased \in SUBSET Holders
    /\ snap \in [Holders -> SUBSET File]
    /\ todo \in [Cleaners -> SUBSET Txns]
    /\ target \in [Cleaners -> Txns \cup {NoOne}]
    /\ doomed \in [Cleaners -> SUBSET File]

-----------------------------------------------------------------------------
(* Whatever the interleaving of commits, compactions, cleanups and deaths, *)
(* every file the committed catalog names exists: a case can be opened.    *)
CatalogOnDisk == meta.catalog \subseteq disk

(* The files of a snapshot outlive its retirement from the catalog for as  *)
(* long as the process that leased it lives and keeps it open.             *)
LeasedOnDisk == \A h \in leased : Alive(h) => snap[h] \subseteq disk

(* Two ingests that both staged an evidence file before either committed   *)
(* do not both import it: the ledger has one entry per source and content. *)
OneImportPerContent ==
    \A e, other \in meta.source_ledger :
        e.source = other.source /\ e.sha256 = other.sha256 => e = other

(* The catalog and the ledger, written by different code and rewritten by  *)
(* compaction, tell the same story: the rows a query sees are exactly the  *)
(* imports the ledger records.                                             *)
CatalogMatchesLedger ==
    RowsIn(meta.catalog) =
        {<<e.transaction_id, e.source, e.sha256>> : e \in meta.source_ledger}

(* No row is in two files of the catalog: compaction never leaves both the *)
(* merged file and one of its inputs visible.                              *)
NoRowTwice ==
    \A f, g \in meta.catalog : f # g => rows[f] \cap rows[g] = {}

(* cleanup_uncommitted never empties, nor marks, the workspace of a        *)
(* transaction that case.json records as committed.                        *)
CommittedNeverCleaned ==
    \A t \in meta.runs : phase[t] \notin {"cleaning", "cleaned"}

(* No staging worker, orphan or not, is at work in a workspace that is     *)
(* being emptied or has been: what it writes would never be removed.       *)
NoWorkerBeneathCleanup ==
    \A t \in Ingests : phase[t] \in {"cleaning", "cleaned"} =>
        \A s \in Sources : worker[t][s] \notin {"staging", "staged"}

(* A workspace reported as cleaned holds no output.                        *)
CleanedIsEmpty == \A t \in Txns : phase[t] = "cleaned" => Output(t) = {}

(* The case as the analyst sees it.                                        *)
Abstract == INSTANCE AtomicImports WITH
    Imports  <- Ingests,
    Queries  <- Readers,
    Closed   <- NoOne,
    imported <- RowsIn(meta.catalog \cap disk),
    view     <- [r \in Readers |-> IF pc[r] \in {"capturing", "open"}
                                   THEN RowsIn(snap[r] \cap disk) ELSE NoOne]

(* Files, locks, leases and processes implement atomic imports and stable  *)
(* queries: no import is seen in part, lost, or repeated, and compaction   *)
(* and cleanup are invisible.                                              *)
ImplementsAtomicImports == Abstract!Spec

(* Nothing an interleaving does keeps the lock of the case held for ever.  *)
LockIsReleased == \A a \in Actors : caseLock = a ~> caseLock # a

(* A transaction that began ends, whatever the others do: every wait for a *)
(* lock or a worker is bounded.                                            *)
TransactionEnds ==
    \A t \in Txns : pc[t] = "created" ~> pc[t] \in {"done", "failed", "dead"}

(* The output of an ingest that died before it committed is removed in the *)
(* end, once its workers are gone.                                         *)
AbandonedIsCleaned ==
    \A t \in Ingests :
        (pc[t] = "dead" /\ t \notin meta.runs) ~> Output(t) = {}
===============================================================================
