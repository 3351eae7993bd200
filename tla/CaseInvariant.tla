----------------------------- MODULE CaseInvariant -----------------------------
(***************************************************************************)
(* The inductive invariant behind the safety properties of CaseCatalog     *)
(* when the lock of the case never lapses (Lapsing = {}).  Each conjunct   *)
(* is named for the argument it carries.                                   *)
(***************************************************************************)
EXTENDS CaseCatalog

(* Labels at which an actor is inside "with get_case_lock".                *)
Critical == {"locked", "owned", "published", "capturing", "leases", "unlinking",
             "forgetting", "sweeping", "deleting", "leaving", "retaining"}

(* Labels at which a transaction is inside "with IngestTransaction".       *)
Working == {"running", "merged", "validated", "locked", "owned", "published", "unlocked"}

(* Mutual exclusion: an actor is in its critical section exactly when it   *)
(* is the owner of the lock.                                               *)
LockInv == \A a \in Actors : pc[a] \in Critical <=> caseLock = a

(* Nobody's copy of case.json goes stale while it may still be written.    *)
SeenInv == \A a \in Actors : pc[a] \in Critical \ {"published", "leaving"} => seen[a] = meta

(* A transaction at work holds its workspace and says so in state.json; a  *)
(* cleanup at work in a workspace holds it instead.                        *)
WorkspaceInv ==
    /\ \A t \in Txns :
         /\ pc[t] \in {"idle", "capturing", "open"} => phase[t] = "none"
         /\ pc[t] \in Working => wsLock[t] = t /\ phase[t] = "running"
    /\ \A c \in Cleaners : pc[c] = "deleting" =>
         /\ target[c] \in Txns
         /\ wsLock[target[c]] = c
         /\ phase[target[c]] = "cleaning"

(* case.json records a transaction only after it was published, and every  *)
(* file case.json or a snapshot names belongs to a recorded transaction.   *)
RunsInv ==
    /\ \A t \in meta.runs : pc[t] \in {"published", "unlocked", "done", "failed", "dead"}
    /\ \A f \in meta.catalog \cup meta.retired : f[1] \in meta.runs
    /\ \A h \in Holders : \A f \in snap[h] : f[1] \in meta.runs

(* What a sweep has on its list, or is removing, is not committed.         *)
SweepInv ==
    \A c \in Cleaners :
        /\ pc[c] \in {"sweeping", "deleting"} => todo[c] \cap meta.runs = {}
        /\ pc[c] = "deleting" => target[c] \notin meta.runs

(* Snapshots: taken from the catalog under the lock, leased before use;    *)
(* a compaction merges files of the snapshot it later finds unchanged.     *)
SnapshotInv ==
    /\ \A h \in Holders : pc[h] = "capturing" => snap[h] = seen[h].catalog
    /\ \A h \in leased : pc[h] \notin {"idle", "capturing"}
    /\ \A t \in Compactions :
         /\ group[t] \subseteq snap[t]
         /\ pc[t] \in {"idle", "capturing", "open"} => group[t] = {}
         /\ pc[t] = "owned" => seen[t].catalog = snap[t]

(* Files about to be unlinked are retired, out of the catalog, and in no   *)
(* snapshot of a live reader.                                              *)
DoomedInv ==
    \A c \in Cleaners : pc[c] = "unlinking" =>
        /\ doomed[c] \subseteq meta.retired
        /\ doomed[c] \cap meta.catalog = {}
        /\ \A h \in leased : Alive(h) => doomed[c] \cap snap[h] = {}

CaseInv ==
    /\ TypeOK
    /\ LockInv
    /\ SeenInv
    /\ WorkspaceInv
    /\ RunsInv
    /\ SweepInv
    /\ SnapshotInv
    /\ DoomedInv
    /\ CatalogOnDisk
    /\ LeasedOnDisk
    /\ CommittedNeverCleaned
    /\ NoWorkerBeneathCleanup
    /\ CleanedIsEmpty
================================================================================
