-------------------------- MODULE IngestTransaction --------------------------
(***************************************************************************)
(* Case.ingest and IngestTransaction (case.py, ingest/transactions.py) and *)
(* the staging workers of a transaction (ingest/activity.py).              *)
(*                                                                         *)
(*  idle -> created -> running -> validated -> locked -> owned             *)
(*       -> published -> unlocked -> done           (or failed, or dead)   *)
(***************************************************************************)
EXTENDS CaseState

Started   == {"running", "merged", "validated", "locked", "owned"}


-----------------------------------------------------------------------------
(* filter_committed against a case.json read WITHOUT the lock, the creation *)
(* of the workspace directory, and the choice of what the caller ingests.  *)
AlreadyCommitted(s) ==
    \E e \in meta.source_ledger : e.source = s /\ e.sha256 = content[s]

Begin(t) ==
    /\ pc[t] = "idle"
    /\ \E discovered \in (SUBSET Sources) \ {{}} :
         scan' = [scan EXCEPT ![t] = {s \in discovered : ~AlreadyCommitted(s)}]
    /\ phase' = [phase EXCEPT ![t] = "empty"]
    /\ Goto(t, "created")
    /\ UNCHANGED <<caseVars, fileVars, wsLock, worker, group, leaseVars, sweepVars>>

(* IngestTransaction.__enter__: the lock of the workspace, then state.json. *)
Enter(t) ==
    /\ pc[t] = "created"
    /\ wsLock[t] = NoOne
    /\ wsLock' = [wsLock EXCEPT ![t] = t]
    /\ phase' = [phase EXCEPT ![t] = "running"]
    /\ Goto(t, "running")
    /\ UNCHANGED <<caseVars, fileVars, scan, worker, group, leaseVars, sweepVars>>

-----------------------------------------------------------------------------
(* Staging workers.  workspace_worker checks the phase, and that a         *)
(* coordinator of its own host lives, under the activity lock, and writes  *)
(* its lease before it lets go of that lock: one step.                     *)
(* Mutant: the phase is not looked at.                                     *)
AcceptsAnyPhase(t, s) == SameHost(s, t) => Alive(t)

Accepts(t, s) == phase[t] = "running" /\ (SameHost(s, t) => Alive(t))

WorkerStart(t, s) ==
    /\ s \in scan[t]
    /\ worker[t][s] = "idle"
    /\ phase[t] \notin {"none", "empty"}       \* submitted by a running ingest
    /\ worker' = [worker EXCEPT ![t][s] = IF Accepts(t, s) THEN "staging" ELSE "refused"]
    /\ UNCHANGED <<caseVars, pc, fileVars, phase, wsLock, scan, group, leaseVars, sweepVars>>

(* The worker converts what the evidence file holds now.                   *)
WorkerStage(t, s) ==
    /\ worker[t][s] = "staging"
    /\ disk' = disk \cup {<<t, s>>}
    /\ rows' = [rows EXCEPT ![<<t, s>>] = {<<t, s, content[s]>>}]
    /\ worker' = [worker EXCEPT ![t][s] = "staged"]
    /\ UNCHANGED <<caseVars, pc, content, phase, wsLock, scan, group, leaseVars, sweepVars>>

(* The lease is unlinked and the result returned: ok, or a failed source   *)
(* that left no output.                                                    *)
WorkerEnd(t, s) ==
    /\ \/ /\ worker[t][s] = "staged"
          /\ worker' = [worker EXCEPT ![t][s] = "ok"]
       \/ /\ worker[t][s] = "staging"
          /\ worker' = [worker EXCEPT ![t][s] = "failed"]
    /\ UNCHANGED <<caseVars, pc, fileVars, phase, wsLock, scan, group, leaseVars, sweepVars>>

(* A worker process dies; its lease file stays behind.                     *)
WorkerDies(t, s) ==
    /\ s \in Mortal
    /\ worker[t][s] \in {"staging", "staged"}
    /\ worker' = [worker EXCEPT ![t][s] = "dead"]
    /\ UNCHANGED <<caseVars, pc, fileVars, phase, wsLock, scan, group, leaseVars, sweepVars>>

(* active_workers as process a sees it: a lease of another host counts     *)
(* whether or not its process lives.                                       *)
(* Mutant: leases of another host are ignored.                             *)
ActiveHere(a, t) ==
    t \in Ingests /\ \E s \in Sources :
        SameHost(s, a) /\ worker[t][s] \in {"staging", "staged"}

ActiveWorkers(a, t) ==
    t \in Ingests /\ \E s \in Sources :
        \/ worker[t][s] \in {"staging", "staged"}
        \/ worker[t][s] = "dead" /\ ~SameHost(s, a)

-----------------------------------------------------------------------------
(* commit, up to the lock: every task has returned and the files that      *)
(* exist are exactly the ones the results report.                          *)
Validate(t) ==
    /\ pc[t] = "running"
    /\ \A s \in scan[t] : worker[t][s] \in {"ok", "failed"}
    /\ Output(t) = {<<t, s>> : s \in {s \in scan[t] : worker[t][s] = "ok"}}
    /\ Goto(t, "validated")
    /\ UNCHANGED <<caseVars, fileVars, txnVars, leaseVars, sweepVars>>

LockCase(t) ==
    /\ pc[t] = "validated"
    /\ TakeCaseLock(t)
    /\ Goto(t, "locked")
    /\ UNCHANGED <<meta, fileVars, txnVars, leaseVars, sweepVars>>

(* The ledger entries of a transaction: one per source it staged.          *)
Entries(t) ==
    {[source |-> r[2], sha256 |-> r[3], transaction_id |-> t] : r \in RowsIn(Output(t))}

(* Mutant: whole entries are compared, transaction id included.            *)
DuplicateEntry(t) == Entries(t) \cap seen[t].source_ledger # {}

Duplicate(t) ==
    \E e \in Entries(t), old \in seen[t].source_ledger :
        old.source = e.source /\ old.sha256 = e.sha256

(* Under the lock: no other ingest committed the same source meanwhile,    *)
(* then assert_owned.  Otherwise the call raises (Abort).                  *)
CheckCommit(t) ==
    /\ pc[t] = "locked"
    /\ ~Duplicate(t)
    /\ Owned(t)
    /\ Goto(t, "owned")
    /\ UNCHANGED <<caseVars, fileVars, txnVars, leaseVars, sweepVars>>

(* One atomic replacement of case.json, computed from the copy read.       *)
(* Mutant: the catalog is replaced, not extended.                          *)
ReplacedCatalog(t) ==
    [seen[t] EXCEPT !.catalog = Output(t),
                    !.source_ledger = @ \cup Entries(t),
                    !.runs = @ \cup {t}]

CommittedMeta(t) ==
    [seen[t] EXCEPT !.catalog = @ \cup Output(t),
                    !.source_ledger = @ \cup Entries(t),
                    !.runs = @ \cup {t}]

Publish(t) ==
    /\ pc[t] = "owned"
    /\ meta' = CommittedMeta(t)
    /\ Goto(t, "published")
    /\ UNCHANGED <<caseLock, seen, fileVars, txnVars, leaseVars, sweepVars>>

Unlock(t) ==
    /\ pc[t] = "published"
    /\ FreeCaseLock(t)
    /\ Goto(t, "unlocked")
    /\ UNCHANGED <<meta, fileVars, txnVars, leaseVars, sweepVars>>

(* state.json is a record of the outcome only: an OSError leaves it        *)
(* "running".  Then __exit__ releases the workspace.  A compaction also    *)
(* closes the CaseDB it read from.                                         *)
Finish(t) ==
    /\ pc[t] = "unlocked"
    /\ \E p \in {"committed", phase[t]} : phase' = [phase EXCEPT ![t] = p]
    /\ wsLock' = [wsLock EXCEPT ![t] = NoOne]
    /\ leased' = leased \ {t}
    /\ Goto(t, "done")
    /\ UNCHANGED <<caseVars, fileVars, scan, worker, group, snap, sweepVars>>

-----------------------------------------------------------------------------
(* An exception before case.json is replaced: the lock of the case is let  *)
(* go, __exit__ writes "failed" (or cannot) and frees the workspace.       *)
Fail(t) ==
    /\ pc' = [pc EXCEPT ![t] = "failed"]
    /\ FreeCaseLock(t)
    /\ \E p \in {"failed", phase[t]} : phase' = [phase EXCEPT ![t] = p]
    /\ wsLock' = [wsLock EXCEPT ![t] = NoOne]
    /\ leased' = leased \ {t}
    /\ UNCHANGED <<meta, fileVars, scan, worker, group, snap, sweepVars>>

Abort(t) == pc[t] \in Started /\ Fail(t)

(* atomic_json raises after it replaced case.json: the directory could not *)
(* be synced.  The transaction reports a failure and is committed.         *)
PublishRaises(t) == pc[t] = "published" /\ Fail(t)

(* The exceptions that must come: the 30 s wait for a lock ends, a lost    *)
(* worker breaks the queue, the output cannot be validated, the check      *)
(* under the lock fails.                                                   *)
(* Mutant: the wait for the lock of the case has no end.                   *)
NoLockTimeout(t) ==
    \/ pc[t] = "running" /\ t \in Ingests /\ \E s \in scan[t] : worker[t][s] \in {"dead", "refused"}
    \/ pc[t] = "locked" /\ t \in Ingests /\ (Duplicate(t) \/ ~Owned(t))

MustFail(t) ==
    \/ pc[t] = "validated" /\ caseLock # NoOne
    \/ pc[t] = "running" /\ t \in Ingests /\ \E s \in scan[t] : worker[t][s] \in {"dead", "refused"}
    \/ pc[t] = "locked" /\ t \in Ingests /\ (Duplicate(t) \/ ~Owned(t))

GiveUp(t) == MustFail(t) /\ Fail(t)

(* __enter__ gives up: the workspace stays, without a state.json.          *)
EnterFails(t) ==
    /\ pc[t] = "created"
    /\ Goto(t, "failed")
    /\ leased' = leased \ {t}
    /\ UNCHANGED <<caseVars, fileVars, txnVars, snap, sweepVars>>
==============================================================================
